SPECIFICATION DropSpec
CONSTANTS
  Pids = {0}
  Ips = {ip1}
  Ports = {22, 53}
  Suspicious = {22}
  TTL = 2
  MaxPending = 2
  MaxTime = 5
INVARIANTS
  DropTypeOK
PROPERTIES
  ImplementsBan
