SPECIFICATION Spec
CONSTANTS
  IdModulus = 3
  MaxMeter = 2
  MaxInFlight = 2
  Faults <- AllFaults
INVARIANTS
  TypeOK
  RegistersNotMixed
  CurrentIsOurs
PROPERTY KeepsReadings
CHECK_DEADLOCK FALSE
