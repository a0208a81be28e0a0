\* A bank of two bytes: a full bank, one with room and an empty one.
CONSTANTS
  BankSize = 2
  MaxBytes = 4
  MaxResets = 2
  MaxSuspends = 2
  MaxConfigs = 2
SPECIFICATION FairSpec
INVARIANTS StreamInOrder 
PROPERTIES MainLoopTurns Delivered
\* An orphaned line encoding stops the main loop until the host suspends the bus,
\* which it need not do.
CHECK_DEADLOCK FALSE
