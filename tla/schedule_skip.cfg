SPECIFICATION Spec
CONSTANTS
  Period = 3
  Paces <- SlowRecords
  Horizon = 60
INVARIANT SmallestStep
CHECK_DEADLOCK FALSE
