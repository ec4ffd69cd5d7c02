SPECIFICATION FairEdgeSpec
CONSTANTS
  Client = {c1, c2}
  Limits = {0, 1}
  MaxWindow = 1
  MaxBack = 1
  MaxRequests = 4
  MaxSetting = 2
  None = None
INVARIANTS WindowCap PostsAreBounded TextTasksNeverFail SourceIsHonest
PROPERTIES NoQuestionHangs
CHECK_DEADLOCK FALSE
