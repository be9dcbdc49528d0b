SPECIFICATION Spec
CONSTANTS
  Builds <- ReleaseOnly
  Outcomes <- MildOutcomes
  Faults <- LinkFaults
INVARIANT ProperTermination
