SPECIFICATION Spec
CONSTANTS
  Events <- MCEvents
  Capacity = 3
  Nil = Nil
INVARIANTS
  TypeOK
PROPERTIES
  ImplementsRecent
