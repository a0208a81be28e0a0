\* The commands the bfgminer driver and an operator use; one nonce per work unit.
CONSTANTS
  w1 = w1
  w2 = w2
  NoWork = NoWork
  Work = {w1, w2}
  Commands = {"W", "R", "S"}
  ReportBytes = 4
  MaxNonces = 1
SPECIFICATION FairSpec
INVARIANTS NonceGenuine AtMostOneReport
PROPERTIES WorkEnds ImplementsDevice
