CONSTANTS
  Frames <- MCFrames
  BufSize = 4
  RxSize = 2
  Window = 2
  MaxFrames = 3
  MaxUsart = 2
SPECIFICATION FairSpec
INVARIANTS FramesParsed NeverHung StreamDecodes
PROPERTIES Forwarded
