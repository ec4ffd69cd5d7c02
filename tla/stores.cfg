SPECIFICATION FairMemorySpec
CONSTANTS
  MaxCrashes = 2
  MaxErrors = 1
  Key = {k1}
  Text = {x, y}
  NoDetail = NoDetail
  Confidence = {1, 2}
  MaxTime = 1
  MaxCalls = 2
INVARIANTS CurrentMeansComplete RecordsAreSummaries AnsweredIsOnFile
PROPERTIES AlwaysServes
CHECK_DEADLOCK FALSE
