\* Only work units are sent; the chip may report a second nonce.
CONSTANTS
  w1 = w1
  w2 = w2
  NoWork = NoWork
  Work = {w1, w2}
  Commands = {"W"}
  ReportBytes = 4
  MaxNonces = 2
SPECIFICATION Spec
INVARIANTS NonceGenuine
