SPECIFICATION Spec
CONSTANTS
  c1 = c1
  c2 = c2
  w1 = w1
  w2 = w2
  NoClient = NoClient
  NoTask = NoTask
  Clients <- MCClients
  Workers <- MCWorkers
  Fds <- MCFds
  Commands = {"fib", "quit", "other"}
  RudeCommands = {"quit", "quitArg", "blank"}
  MaxRequests = 2
  Manners = {TRUE, FALSE}
INVARIANTS
  DescriptorsAreOwned
  PoliteGetOwnResponse
  PoliteKeepServerUp
PROPERTY PoliteAnswered
