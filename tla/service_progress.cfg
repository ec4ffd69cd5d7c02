SPECIFICATION FairSpec
CONSTANTS
  a1 = a1
  a2 = a2
  a3 = a3
  Agent = {a1, a2, a3}
  DependsOn <- Chain
  RunId = {r1}
  RequestId = {k1}
  Incident = {i1}
  Mode = {m1}
  ExecId = {e1, e2}
  NoTask = NoTask
  MaxAttempts = 2
  MaxCrashes = 1
  MaxOutages = 0
INVARIANTS SkipsFollowFailures
PROPERTIES EveryRunSettles
CHECK_DEADLOCK FALSE
