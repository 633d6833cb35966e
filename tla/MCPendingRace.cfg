SPECIFICATION Spec
CONSTANTS
  Ids = {e1}
  MaxVerdicts = 1
  EarlyExpiry = FALSE
INVARIANT NeverTouchFreed
