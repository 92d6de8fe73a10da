CONSTANTS
  c1 = c1
  c2 = c2
  Boot = Boot
  Clients <- MCClients
  Slots <- MCSlots
  MaxOps = 3
  MaxFaults = 1
SPECIFICATION Spec
INVARIANT NextStartCanEnroll
CHECK_DEADLOCK FALSE
