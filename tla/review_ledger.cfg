SPECIFICATION Spec
CONSTANTS
  Call = {c1, c2, c3}
  RequestId = {k1, k2}
  Packet = {p1, p2}
  MaxTime = 1
  MaxRestarts = 1
  MaxErrors = 1
INVARIANTS AnsweredDecisionIsRecordedOnce ConflictsAreContradictions TrailsAgree ReadyMeansApproved PacketTimeStable
CHECK_DEADLOCK FALSE
