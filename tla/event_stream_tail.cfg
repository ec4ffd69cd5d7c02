SPECIFICATION Spec
CONSTANTS
  MaxEvents = 3
  MaxDrops = 0
INVARIANTS EveryEventBeforeOutcome
CHECK_DEADLOCK FALSE
