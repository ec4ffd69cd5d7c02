SPECIFICATION FairSpec
CONSTANTS
  RequestId = {k1, k2, k3}
  None = None
  RerunFrom = {"starting", "streaming", "reconnecting", "completed", "failed"}
  MaxEvents = 2
  MaxMounts = 3
  MaxFaults = 1
INVARIANTS OneRunOnScreen ScreenShowsTheLog RunsAreAskedFor
PROPERTIES OutcomeIsShown
CHECK_DEADLOCK FALSE
