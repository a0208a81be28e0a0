\* Three slots: the wrap falls between any two operations.
CONSTANTS
  Size = 3
  Data = {0, 1}
  NoData = NoData
SPECIFICATION Spec
INVARIANTS TypeOK CachedCountsSafe
PROPERTIES PeekedIsRemoved ImplementsFifo
