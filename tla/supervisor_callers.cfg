CONSTANTS
  c1 = c1
  Clients <- MCOneClient
  RestartMax = 1
  MaxLaunches = 2
SPECIFICATION Spec
INVARIANTS
  TypeOK
  NoOrphan
  StopWins
  NeverStranded
