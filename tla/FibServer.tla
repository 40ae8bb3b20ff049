------------------------------- MODULE FibServer -------------------------------
(***************************************************************************)
(* The Fibonacci server my_idea/idea1.cpp and its client my_idea/idea2.cpp *)
(* The main thread accepts a connection, starts a clientHandler thread for *)
(* it and joins it at once; the handler turns what it receives into tasks  *)
(* that carry the number of the connection's file descriptor; the threads  *)
(* of a pool answer on that descriptor, and close it after a quit.         *)
(*                                                                         *)
(* A request is identified by its client and its number. A command is what *)
(* the server tells apart: "fib", "quit", "quitArg" (quit and something    *)
(* behind it), "other", and "blank", a carriage return. The pool's         *)
(* critical sections are single steps: its mutex and condition variable    *)
(* work as in ThreadPool; its destructor is never reached, because main's  *)
(* loop does not end.                                                      *)
(***************************************************************************)
EXTENDS Naturals, Sequences, FiniteSets, SequencesExt

CONSTANTS
  Clients,
  Workers,      (* the threads of the pool                                   *)
  Fds,          (* the descriptors accept can return, the lowest free first  *)
  Commands,     (* the commands typed at polite clients                      *)
  RudeCommands, (* the commands typed at rude ones                           *)
  MaxRequests,  (* how many commands are typed at one client                 *)
  Manners,      (* whether clients are rude: TRUE, FALSE or either           *)
  NoClient,
  NoTask

AnyCommand == {"fib", "quit", "quitArg", "other", "blank"}

AnyRequest == [client : Clients, k : 1..MaxRequests, cmd : AnyCommand]

(* Polite clients leave with the bare word quit, and send no empty line.     *)
ASSUME ServerAssumption ==
  /\ Fds \subseteq Nat
  /\ Commands \subseteq {"fib", "quit", "other"} /\ RudeCommands \subseteq AnyCommand
  /\ MaxRequests \in Nat
  /\ Manners \subseteq BOOLEAN
  /\ NoClient \notin Clients
  /\ NoTask \notin AnyRequest
  /\ NoTask \notin [fd : Fds, request : AnyRequest, answered : BOOLEAN]

VARIABLES
  rude,      (* whether clients may be killed and type RudeCommands          *)
  cpc,       (* where each client is                                         *)
  sent,      (* how many requests it has sent                                *)
  lastCmd,   (* its variable input                                           *)
  toServer,  (* the requests the server has not received yet                 *)
  toClient,  (* the responses the client has not received yet                *)
  refused,   (* the clients that left and whose system then refused data     *)
  backlog,   (* the connections that wait for accept                         *)
  fdTable,   (* the connection each descriptor of the server refers to       *)
  hpc,       (* where the handler thread is; "none" when main is in accept   *)
  hfd,       (* its clientSocket                                             *)
  hconn,     (* the connection it is blocked on inside recv                  *)
  request,
  tasks,     (* the queue of the pool                                        *)
  task       (* the task each worker has taken                               *)

clientVars  == <<rude, cpc, sent, lastCmd, backlog>>
wireVars    == <<toServer, toClient, refused>>
handlerVars == <<hpc, hfd, hconn, request>>
poolVars    == <<tasks, task>>
vars == <<clientVars, wireVars, fdTable, handlerVars, poolVars>>

Init ==
  /\ rude \in Manners
  /\ cpc = [c \in Clients |-> "start"]
  /\ sent = [c \in Clients |-> 0]
  /\ lastCmd = [c \in Clients |-> "none"]
  /\ toServer = [c \in Clients |-> <<>>]
  /\ toClient = [c \in Clients |-> <<>>]
  /\ refused = {}
  /\ backlog = <<>>
  /\ fdTable = [fd \in Fds |-> NoClient]
  /\ hpc = "none" /\ hfd = 0 /\ hconn = NoClient /\ request = NoTask
  /\ tasks = <<>>
  /\ task = [w \in Workers |-> NoTask]

ClientGoes(c, from, to) == cpc[c] = from /\ cpc' = [cpc EXCEPT ![c] = to]

(* The kernel keeps the server's side of a connection as long as a           *)
(* descriptor or a call of recv in progress refers to it.                    *)
ServerHolds(c) ==
  \/ c \in ToSet(backlog)
  \/ \E fd \in Fds : fdTable[fd] = c
  \/ hconn = c

-------------------------------------------------------------------------------
(* The client (idea2.cpp).                                                    *)

Connect(c) ==
  /\ ClientGoes(c, "start", IF hpc = "down" THEN "closed" ELSE "prompt")
  /\ backlog' = IF hpc = "down" THEN backlog ELSE Append(backlog, c)
  /\ UNCHANGED <<rude, sent, lastCmd, wireVars, fdTable, handlerVars, poolVars>>

Sent(c, cmd) ==
  /\ sent[c] < MaxRequests
  /\ sent' = [sent EXCEPT ![c] = @ + 1]
  /\ lastCmd' = [lastCmd EXCEPT ![c] = cmd]
  /\ toServer' = [toServer EXCEPT ![c] =
       IF ServerHolds(c) THEN Append(@, [client |-> c, k |-> sent[c] + 1, cmd |-> cmd]) ELSE @]
  /\ UNCHANGED <<rude, toClient, refused, backlog, fdTable, handlerVars, poolVars>>

(* Mutated form: the client prompts again before it has received.             *)
SendLineAhead(c, cmd) == Sent(c, cmd) /\ cpc[c] = "prompt" /\ UNCHANGED cpc

(* A line is typed and sent; recv is next. *)
SendLine(c, cmd) == Sent(c, cmd) /\ ClientGoes(c, "prompt", "recv")

(* recv takes what has arrived; after "quit" the client leaves. *)
ReceiveResponse(c) ==
  /\ cpc[c] = "recv" /\ toClient[c] # <<>>
  /\ toClient' = [toClient EXCEPT ![c] = <<>>]
  /\ cpc' = [cpc EXCEPT ![c] = IF lastCmd[c] = "quit" THEN "closed" ELSE "prompt"]
  /\ UNCHANGED <<rude, sent, lastCmd, backlog, toServer, refused, fdTable, handlerVars, poolVars>>

ServerClosed(c) ==
  /\ ClientGoes(c, "recv", "closed")
  /\ toClient[c] = <<>> /\ ~ServerHolds(c)
  /\ UNCHANGED <<rude, sent, lastCmd, backlog, wireVars, fdTable, handlerVars, poolVars>>

(* The client's socket is closed: what it has not received is refused.        *)
Leaves(c) ==
  /\ refused' = IF toClient[c] = <<>> THEN refused ELSE refused \cup {c}
  /\ UNCHANGED <<rude, sent, lastCmd, backlog, toServer, toClient, fdTable, handlerVars, poolVars>>

(* End of file on the client's standard input. *)
InputEnds(c) == ClientGoes(c, "prompt", "closed") /\ Leaves(c)

ClientDies(c) == rude /\ ClientGoes(c, "recv", "closed") /\ Leaves(c)

-------------------------------------------------------------------------------
(* main: accept, start a handler, join it.                                    *)

LowestFree == CHOOSE fd \in Fds :
  fdTable[fd] = NoClient /\ \A g \in Fds : fdTable[g] = NoClient => fd <= g

(* accept fails when no descriptor is free, and is called again. *)
Accept ==
  /\ hpc = "none" /\ backlog # <<>>
  /\ \E fd \in Fds : fdTable[fd] = NoClient
  /\ fdTable' = [fdTable EXCEPT ![LowestFree] = Head(backlog)]
  /\ backlog' = Tail(backlog)
  /\ hpc' = "loop" /\ hfd' = LowestFree
  /\ UNCHANGED <<rude, cpc, sent, lastCmd, wireVars, hconn, request, poolVars>>

-------------------------------------------------------------------------------
(* clientHandler.                                                             *)

(* recv on a descriptor that is closed fails at once. *)
HandlerCallsRecv ==
  /\ hpc = "loop"
  /\ hpc' = IF fdTable[hfd] = NoClient THEN "close" ELSE "recv"
  /\ hconn' = fdTable[hfd]
  /\ UNCHANGED <<clientVars, wireVars, fdTable, hfd, request, poolVars>>

(* What is received in one call becomes one request: the line ends are       *)
(* erased. Only the first word and number of it count then; reqs[i] is the   *)
(* first of the requests that have a word, those in worded.                  *)
Joined(reqs, worded, i) ==
  IF worded # {i} /\ reqs[i].cmd = "quit" THEN [reqs[i] EXCEPT !.cmd = "other"] ELSE reqs[i]

(* A request that is empty then is passed over: the loop goes on to recv.    *)
HandlerReceives ==
  /\ hpc = "recv" /\ toServer[hconn] # <<>>
  /\ LET reqs   == toServer[hconn]
         worded == {i \in DOMAIN reqs : reqs[i].cmd # "blank"} IN
       \/ worded = {} /\ hpc' = "loop" /\ UNCHANGED request
       \/ \E i \in worded : /\ \A j \in worded : i <= j
                            /\ hpc' = "enqueue" /\ request' = Joined(reqs, worded, i)
  /\ toServer' = [toServer EXCEPT ![hconn] = <<>>]
  /\ hconn' = NoClient
  /\ UNCHANGED <<clientVars, toClient, refused, fdTable, hfd, poolVars>>

(* recv returns 0, or fails after a reset by the client's system. *)
HandlerSeesEnd ==
  /\ hpc = "recv" /\ cpc[hconn] = "closed"
  /\ toServer[hconn] = <<>> \/ hconn \in refused
  /\ hpc' = "close" /\ hconn' = NoClient
  /\ UNCHANGED <<clientVars, wireVars, fdTable, hfd, request, poolVars>>

HandlerCloses ==
  /\ hpc = "close"
  /\ fdTable' = [fdTable EXCEPT ![hfd] = NoClient]
  /\ hpc' = "none"
  /\ UNCHANGED <<clientVars, wireVars, hfd, hconn, request, poolVars>>

(* The test request == "quit". *)
LeavesAfter == request.cmd = "quit"

(* The structure Task; answered is set between send and close. *)
Task(fd, req) == [fd |-> fd, request |-> req, answered |-> FALSE]

(* The critical section of enqueueTask. *)
enqueueTask(t) == tasks' = Append(tasks, t)

(* Mutated form: the handler closes the descriptor itself after "quit". *)
HandlerEnqueuesAndCloses ==
  /\ hpc = "enqueue"
  /\ enqueueTask(Task(hfd, request))
  /\ hpc' = IF LeavesAfter THEN "none" ELSE "loop"
  /\ fdTable' = IF LeavesAfter THEN [fdTable EXCEPT ![hfd] = NoClient] ELSE fdTable
  /\ request' = NoTask
  /\ UNCHANGED <<clientVars, wireVars, hfd, hconn, task>>

(* After "quit" the handler leaves the descriptor to the worker. *)
HandlerEnqueues ==
  /\ hpc = "enqueue"
  /\ enqueueTask(Task(hfd, request))
  /\ hpc' = IF LeavesAfter THEN "none" ELSE "loop"
  /\ request' = NoTask
  /\ UNCHANGED <<clientVars, wireVars, fdTable, hfd, hconn, task>>

-------------------------------------------------------------------------------
(* The pool's workerThread and handleTask.                                    *)

WorkerTakes(w) ==
  /\ task[w] = NoTask /\ tasks # <<>>
  /\ task' = [task EXCEPT ![w] = Head(tasks)]
  /\ tasks' = Tail(tasks)
  /\ UNCHANGED <<clientVars, wireVars, fdTable, handlerVars>>

Quits(t) == t.request.cmd \in {"quit", "quitArg"}

(* send on task.clientSocket: it fails without effect when that is closed,   *)
(* and the client's system refuses the data when the client has left.        *)
Responds(w) ==
  LET conn == fdTable[task[w].fd] IN
    /\ toClient' = IF conn = NoClient \/ cpc[conn] = "closed" THEN toClient
                   ELSE [toClient EXCEPT ![conn] = Append(@,
                          [client |-> task[w].request.client, k |-> task[w].request.k])]
    /\ refused' = IF conn # NoClient /\ cpc[conn] = "closed" THEN refused \cup {conn} ELSE refused

Responded(w) ==
  /\ task' = [task EXCEPT ![w] = IF Quits(task[w]) THEN [@ EXCEPT !.answered = TRUE] ELSE NoTask]
  /\ UNCHANGED <<clientVars, toServer, fdTable, handlerVars, tasks>>

(* Mutated form: a command that is not known is not answered. *)
WorkerAnswersKnown(w) ==
  /\ task[w] # NoTask /\ ~task[w].answered
  /\ IF task[w].request.cmd = "other" THEN UNCHANGED <<toClient, refused>> ELSE Responds(w)
  /\ Responded(w)

WorkerAnswers(w) ==
  /\ task[w] # NoTask /\ ~task[w].answered
  /\ Responds(w)
  /\ Responded(w)

(* A send after the client's system has refused one raises SIGPIPE, which    *)
(* nothing handles: the whole server ends. (It has no effect when the reset  *)
(* has not arrived: that is WorkerAnswers.)                                  *)
BrokenPipe(w) ==
  /\ task[w] # NoTask /\ ~task[w].answered
  /\ fdTable[task[w].fd] \in refused
  /\ fdTable' = [fd \in Fds |-> NoClient] /\ backlog' = <<>>
  /\ hpc' = "down" /\ hconn' = NoClient /\ request' = NoTask
  /\ tasks' = <<>> /\ task' = [v \in Workers |-> NoTask]
  /\ UNCHANGED <<rude, cpc, sent, lastCmd, wireVars, hfd>>

(* Mutated form: the descriptor is left open after a quit. *)
WorkerForgetsClose(w) ==
  /\ task[w] # NoTask /\ task[w].answered
  /\ task' = [task EXCEPT ![w] = NoTask]
  /\ UNCHANGED <<clientVars, wireVars, fdTable, handlerVars, tasks>>

WorkerCloses(w) ==
  /\ task[w] # NoTask /\ task[w].answered
  /\ fdTable' = [fdTable EXCEPT ![task[w].fd] = NoClient]
  /\ task' = [task EXCEPT ![w] = NoTask]
  /\ UNCHANGED <<clientVars, wireVars, handlerVars, tasks>>

Typed == IF rude THEN RudeCommands ELSE Commands

ClientStep(c) ==
  \/ Connect(c) \/ ReceiveResponse(c) \/ ServerClosed(c) \/ InputEnds(c)
  \/ \E cmd \in Typed : SendLine(c, cmd)

HandlerStep ==
  \/ HandlerCallsRecv \/ HandlerReceives \/ HandlerSeesEnd \/ HandlerCloses \/ HandlerEnqueues

WorkerStep(w) == WorkerTakes(w) \/ WorkerAnswers(w) \/ BrokenPipe(w) \/ WorkerCloses(w)

(* The server waits for ever once every client has left. *)
Idle ==
  /\ \A c \in Clients : cpc[c] = "closed"
  /\ UNCHANGED vars

Next ==
  \/ \E c \in Clients : ClientStep(c) \/ ClientDies(c)
  \/ Accept \/ HandlerStep
  \/ \E w \in Workers : WorkerStep(w)
  \/ Idle

(* The threads of the server run; the users of the clients go on typing, and *)
(* in the end leave. (While one does not, every later one waits: main is in  *)
(* join.)                                                                    *)
Fairness ==
  /\ \A c \in Clients : WF_vars(ClientStep(c))
  /\ WF_vars(Accept) /\ WF_vars(HandlerStep)
  /\ \A w \in Workers : WF_vars(WorkerStep(w))

Spec == Init /\ [][Next]_vars /\ Fairness

-------------------------------------------------------------------------------
Pending == ToSet(tasks) \cup ({task[w] : w \in Workers} \ {NoTask})

Requests == [client : Clients, k : 1..MaxRequests, cmd : Typed \cup {"other"}]

(* The variables hold values of their types; a handler is blocked in recv on *)
(* a connection exactly when it is in recv.                                  *)
TypeOK ==
  /\ rude \in Manners
  /\ \A c \in Clients : /\ cpc[c] \in {"start", "prompt", "recv", "closed"}
                        /\ sent[c] \in 0..MaxRequests
                        /\ \A j \in DOMAIN toServer[c] : toServer[c][j] \in Requests
  /\ fdTable \in [Fds -> Clients \cup {NoClient}]
  /\ hpc \in {"none", "loop", "recv", "enqueue", "close", "down"}
  /\ refused \subseteq Clients
  /\ hconn # NoClient <=> hpc = "recv"
  /\ request \in Requests \cup {NoTask} /\ (request # NoTask <=> hpc = "enqueue")
  /\ \A t \in Pending : t.fd \in Fds /\ t.request \in Requests

(* No descriptor leaks: each open one is the current handler's, or a task    *)
(* that will close it is on its way; and no connection has two descriptors.  *)
DescriptorsAreOwned ==
  \A fd \in Fds : fdTable[fd] # NoClient =>
    /\ (hpc # "none" /\ hfd = fd) \/ \E t \in Pending : t.fd = fd /\ Quits(t)
    /\ \A g \in Fds : fdTable[g] = fdTable[fd] => g = fd

(* A client only ever gets the response to the request it waits for. *)
ResponseIsToOwnRequest ==
  \A c \in Clients : \A j \in DOMAIN toClient[c] :
    /\ toClient[c][j] = [client |-> c, k |-> sent[c]]
    /\ j = 1

(* A client that waits for a response gets one, or sees the connection       *)
(* closed: no request is forgotten and nobody waits for ever.                *)
EveryoneAnswered == \A c \in Clients : cpc[c] = "recv" ~> cpc[c] # "recv"

(* While every client is polite, each response reaches the client that waits *)
(* for it, although descriptors are closed by one thread and used by others. *)
PoliteGetOwnResponse == ~rude => ResponseIsToOwnRequest

(* A polite client that leaves does not take the server down with it: at     *)
(* most one response is on its way, so no send follows a refused one.        *)
PoliteKeepServerUp == ~rude => hpc # "down"

(* While every client is polite, each one that waits is answered. *)
PoliteAnswered == \A c \in Clients : cpc[c] = "recv" /\ ~rude ~> cpc[c] # "recv"
================================================================================
