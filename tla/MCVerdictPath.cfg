SPECIFICATION Spec
CONSTANTS
  e1 = e1
  e2 = e2
  e3 = e3
  Events = {e1, e2, e3}
  MaxCrashes = 1
SYMMETRY Symmetry
INVARIANTS
  TypeOK
  DenyIsKept
  EnforcedIsLogged
  LogInOrder
CHECK_DEADLOCK FALSE
