SPECIFICATION Spec
CONSTANTS
  Period = 5
  Paces <- SlowReadings
  Horizon = 60
INVARIANT LoopsForever
CHECK_DEADLOCK FALSE
