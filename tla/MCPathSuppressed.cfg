SPECIFICATION Spec
CONSTANTS
  Events = {e1}
  MaxCrashes = 0
INVARIANT DenyMeansDeny
CHECK_DEADLOCK FALSE
