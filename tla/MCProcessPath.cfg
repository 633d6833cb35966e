SPECIFICATION PathSpec
CONSTANTS
  VscodeServer <- MCVscodeServer
  NestingLimit = 1000
  LowerCase <- MCLowerCase
  MaxPids = 2
  Window = 1
  TsModulus = 65536
  Pids = {1, 2, 3}
  Cpus = {1, 2}
  PolicyText <- MCPolicyText
  Mixes <- MCMixes
  MaxLives = 3
INVARIANTS
  TypeOK
  DenyStops
  WindowSpan
  SlotIsOfPid
  ServerReadsCounts
PROPERTIES
  KillsConfined
  ScoredUnlessFull
CHECK_DEADLOCK FALSE
