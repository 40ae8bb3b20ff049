SPECIFICATION Spec
CONSTANTS
  c1 = c1
  c2 = c2
  c3 = c3
  NoClient = NoClient
  Clients <- MCClients
  Few <- MCFew
  MaxLines = 2
  MaxLinesWaiting = 1
  Fds = {4, 5}
  Users <- MCFew
  MaxTyped = 2
  MaxFaults = 1
INVARIANTS
  ZombiesAreNoticed
  ConnectionsArePrivate
  ThreadsKeepApart
  OwnEcho
PROPERTIES
  EveryServerAnswers
  NothingIsLeft
