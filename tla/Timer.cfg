CONSTANTS
  Wrap = 8
  Intervals = {0, 1, 3, 6, 7}
SPECIFICATION Spec
INVARIANTS TypeOK StartMeasured
PROPERTIES NeverEarly NeverMissed StaysDue
