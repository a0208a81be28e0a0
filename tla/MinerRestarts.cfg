\* Scans that run to their end, and scans that are broken off.
CONSTANTS
  w1 = w1
  w2 = w2
  NoWork = NoWork
  Garbled = Garbled
  Work = {w1, w2}
  WorkBytes = 44
  Packet = 16
  InPacket = 16
  RxSize = 128
  MaxOut = 6
  MaxIn = 28
  MaxDrain = 3
  MaxRestarts = 2
  MaxExits = 0
SPECIFICATION FairSpec
INVARIANTS RxFits  RxAligned FramesAligned SubmitMatchesUndisturbed InSync
PROPERTIES ScanReturns ResultDelivered
