SPECIFICATION FairSpec
CONSTANTS
  Builds <- BothBuilds
  Outcomes <- AllOutcomes
  Faults <- AllFaults
INVARIANTS
  TypeOK
  DeviceExclusion
  ExchangeOnlyWhenConnected
  StaleOnlyWhenCancelled
  CleanExit
  OwnerAssertion
PROPERTIES
  NoNewWorkAfterTerminate
  SignalEndsProcess
  BeatLeadsToRecord
