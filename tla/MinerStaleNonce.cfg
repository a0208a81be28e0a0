\* A nonce of the unit broken off is submitted for the next.
CONSTANTS
  w1 = w1
  w2 = w2
  NoWork = NoWork
  Garbled = Garbled
  Work = {w1, w2}
  WorkBytes = 44
  Packet = 16
  InPacket = 16
  RxSize = 128
  MaxOut = 6
  MaxIn = 28
  MaxDrain = 3
  MaxRestarts = 1
  MaxExits = 0
SPECIFICATION Spec
INVARIANTS SubmitMatches
