SPECIFICATION Spec
CONSTANTS
  MaxCrashes = 1
  MaxErrors = 0
INVARIANTS MigratesInPlace
CHECK_DEADLOCK FALSE
