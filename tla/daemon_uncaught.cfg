SPECIFICATION Spec
CONSTANTS
  Builds <- ReleaseOnly
  Outcomes <- AllOutcomes
  Faults <- NoFaults
INVARIANT RunsUntilSignal
