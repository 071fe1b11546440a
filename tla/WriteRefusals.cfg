\* One account, three writes on one connection, nothing else goes wrong.
CONSTANTS
  ann = ann  bob = bob
  Users <- OneAccount
  MaxPending = 3
  MaxWrites = 3
  MaxWaits = 0
  MaxFaults = 0
SPECIFICATION Spec
INVARIANTS RefusedWasDenied
CHECK_DEADLOCK FALSE
