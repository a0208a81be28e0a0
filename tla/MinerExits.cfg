\* The host program ends and starts again; short work units, to keep the wrong
\* parses of their bytes few.
CONSTANTS
  w1 = w1
  NoWork = NoWork
  Garbled = Garbled
  Work = {w1}
  WorkBytes = 4
  Packet = 2
  InPacket = 16
  RxSize = 128
  MaxOut = 0
  MaxIn = 7
  MaxDrain = 1
  MaxRestarts = 1
  MaxExits = 1
SPECIFICATION FairSpec
INVARIANTS TypeOK
PROPERTIES Recovers
CHECK_DEADLOCK FALSE
