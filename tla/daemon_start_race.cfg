SPECIFICATION Spec
CONSTANTS
  Builds <- ReleaseOnly
  Outcomes <- MildOutcomes
  Faults <- NoFaults
INVARIANT DestructorAssertion
