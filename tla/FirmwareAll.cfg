\* Every command, and a chip that may report a second nonce before it is stopped.
CONSTANTS
  w1 = w1
  w2 = w2
  NoWork = NoWork
  Work = {w1, w2}
  Commands = {"W", "R", "A", "S"}
  ReportBytes = 4
  MaxNonces = 2
SPECIFICATION Spec
INVARIANTS TypeOK ReportStable WorkHasDeadline AsicWorksOnTask
PROPERTIES DeafOnlyByDiscard DeafIsPermanent
