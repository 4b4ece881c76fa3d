SPECIFICATION FairSpec
CONSTANTS
  c1 = c1
  c2 = c2
  c3 = c3
  Clients <- ThreeClients
  NoClient = NoClient
  BacklogMax = 2
INVARIANTS ListenerOutlivesServer LaunchedForOne
PROPERTIES OnlyUsersBlock
CHECK_DEADLOCK FALSE
