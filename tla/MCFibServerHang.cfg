SPECIFICATION Spec
CONSTANTS
  c1 = c1
  c2 = c2
  w1 = w1
  w2 = w2
  NoClient = NoClient
  NoTask = NoTask
  Clients <- MCClients
  Workers <- MCWorkers
  Fds <- MCFds
  Commands = {"fib"}
  RudeCommands = {"fib", "quitArg"}
  MaxRequests = 2
  Manners = {TRUE}
PROPERTY EveryoneAnswered
CHECK_DEADLOCK FALSE
