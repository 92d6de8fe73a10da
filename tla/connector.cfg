CONSTANTS
  c1 = c1
  c2 = c2
  Clients <- MCClients
SPECIFICATION FairSpec
INVARIANTS
  TypeOK
  OneDial
  OneTurnAtATime
  RetainBalanced
  NoWaiterLeftBehind
PROPERTIES
  ReadyMeansLive
  ErrorIsTerminal
  PromptsDrain
  AttachAnswered
