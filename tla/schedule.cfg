SPECIFICATION Spec
CONSTANTS
  Period = 3
  Paces <- SeveralPaces
  Horizon = 60
INVARIANTS
  TypeOK
  BeatInFuture
  RecordAtBeat
  NeverRefused
PROPERTIES
  NoBeatLeftOut
  ResumesOnGrid
  FillsDatabase
CHECK_DEADLOCK FALSE
