SPECIFICATION Spec
CONSTANTS
  MaxEvents = 2
  SocketSize = 1
  MaxVersions = 0
PROPERTY ShutdownCompletes
