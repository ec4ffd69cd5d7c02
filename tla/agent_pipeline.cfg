SPECIFICATION Spec
CONSTANTS
  Agent <- Specialist
  DependsOn <- SpecialistDependsOn
  Supplier = {s1, s2}
  None = None
  MaxAttempts = 2
  MaxFaults = 3
  MaxCrashes = 2
INVARIANTS EventsTellTheResult ReadersSeeTheirWriters AnalysisMatchesResults CompletedAgentsAreRemembered
CHECK_DEADLOCK FALSE
