CONSTANTS
  c1 = c1
  c2 = c2
  Boot = Boot
  Clients <- MCClients
  Slots <- MCSlots
  MaxOps = 3
  MaxFaults = 2
SPECIFICATION FairSpec
INVARIANTS
  TypeOK
  OneWriter
  RevokedStaysRevoked
  ReadyIsReachable
PROPERTIES
  DeletionFences
  DeletionSettles
  CallbackSettles
CHECK_DEADLOCK FALSE
