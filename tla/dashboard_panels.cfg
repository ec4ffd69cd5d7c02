SPECIFICATION Spec
CONSTANTS
  MaxCalls = 6
  MaxOthers = 1
  MaxFaults = 1
INVARIANTS NoDecisionTwice PanelInv
PROPERTIES ReviewNeverGoesBack
CHECK_DEADLOCK FALSE
