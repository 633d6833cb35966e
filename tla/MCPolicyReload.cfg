SPECIFICATION ReloadSpec
CONSTANTS
  h1 = h1
  h2 = h2
  Handlers = {h1, h2}
  Tokens <- MCTokens
  Bodies <- MCBodies
  Shipped <- MCShipped
  Cuts = {4}
  MaxPuts = 2
  NestingLimit = 1000
  LowerCase <- MCLowerCase
  Events <- MCEvents
  MaxBoots = 1
SYMMETRY HandlerSymmetry
INVARIANTS
  TypeOK
  WholeUnlessShared
  InForceIsOnDisk
  EnforcedWasSubmitted
  DenyIsFinal
  LocalDenyHeard
  DefaultStays
CHECK_DEADLOCK FALSE
