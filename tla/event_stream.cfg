SPECIFICATION FairSpec
CONSTANTS
  MaxEvents = 4
  MaxDrops = 2
INVARIANTS ReceivedIsLogPrefix SleepersAreCurrent OutcomePersistedFirst
PROPERTIES EventsReachClient OutcomeReachesAll
CHECK_DEADLOCK FALSE
