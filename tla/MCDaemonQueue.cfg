SPECIFICATION Spec
CONSTANTS
  MaxEvents = 3
  SocketSize = 2
  MaxVersions = 2
INVARIANTS
  TypeOK
  FifoNoLoss
  NoLostWakeup
  PolicyIsFresh
  OneAnswerAfterFree
PROPERTIES
  QueuedIsAnswered
  ShutdownWithWork
