SPECIFICATION Spec
CONSTANTS
  a1 = a1
  a2 = a2
  a3 = a3
  Agent = {a1}
  DependsOn <- Single
  RunId = {r1, r2}
  RequestId = {k1, k2}
  Incident = {i1, i2}
  Mode = {m1}
  ExecId = {e1, e2}
  NoTask = NoTask
  MaxAttempts = 1
  MaxCrashes = 1
  MaxOutages = 0
SYMMETRY FullSymmetry
INVARIANTS WorkersOnUnsettledRuns WorkersServeTheirIncident NoStrandedRun
CHECK_DEADLOCK FALSE
