\* Replies left from before are taken for the identity.  After an exit in the
\* middle of a command a scan may wait for a reply that does not come.
CONSTANTS
  w1 = w1
  w2 = w2
  NoWork = NoWork
  Garbled = Garbled
  Work = {w1, w2}
  WorkBytes = 44
  Packet = 16
  InPacket = 16
  RxSize = 128
  MaxOut = 6
  MaxIn = 28
  MaxDrain = 3
  MaxRestarts = 0
  MaxExits = 1
SPECIFICATION Spec
INVARIANTS DetectGenuine
CHECK_DEADLOCK FALSE
