---------------------------- MODULE FibServer_proofs ----------------------------
(***************************************************************************)
(* Proofs about FibServer, for any number of clients, workers, descriptors *)
(* and requests: no descriptor leaks, whatever the clients do; and while   *)
(* they are polite, each response reaches the client that waits for it and *)
(* the server is never taken down.                                         *)
(***************************************************************************)
EXTENDS FibServer, Operators_proofs

ClientPlaces  == {"start", "prompt", "recv", "closed"}
HandlerPlaces == {"none", "loop", "recv", "enqueue", "close", "down"}
Active        == {"loop", "recv", "enqueue", "close"}

Responses == [client : Clients, k : 1..MaxRequests]

Taken == [fd : Fds, request : Requests, answered : BOOLEAN]

ClientsTyped ==
  /\ rude \in Manners
  /\ cpc \in [Clients -> ClientPlaces]
  /\ sent \in [Clients -> 0..MaxRequests]
  /\ lastCmd \in [Clients -> AnyCommand \cup {"none"}]
  /\ toServer \in [Clients -> Seq(Requests)]
  /\ toClient \in [Clients -> Seq(Responses)]
  /\ refused \subseteq Clients
  /\ backlog \in Seq(Clients)

ServerTyped ==
  /\ fdTable \in [Fds -> Clients \cup {NoClient}]
  /\ hpc \in HandlerPlaces
  /\ hpc \in Active => hfd \in Fds
  /\ hconn \in Clients \cup {NoClient} /\ (hconn # NoClient <=> hpc = "recv")
  /\ request \in Requests \cup {NoTask} /\ (request # NoTask <=> hpc = "enqueue")
  /\ tasks \in Seq(Taken)
  /\ task \in [Workers -> Taken \cup {NoTask}]

(* A connection waits for accept once, or has one descriptor. *)
OneConnection ==
  /\ IsInjective(backlog)
  /\ \A c \in Clients : c \in ToSet(backlog) => cpc[c] # "start" /\ \A fd \in Fds : fdTable[fd] # c
  /\ \A fd \in Fds : fdTable[fd] # NoClient =>
       /\ cpc[fdTable[fd]] # "start"
       /\ \A g \in Fds : fdTable[g] = fdTable[fd] => g = fd

(* Some task that is on its way will close the descriptor. *)
WillBeClosed(fd) ==
  \/ \E i \in DOMAIN tasks : tasks[i].fd = fd /\ Quits(tasks[i])
  \/ \E w \in Workers : task[w] # NoTask /\ task[w].fd = fd /\ Quits(task[w])

Owned == \A fd \in Fds : fdTable[fd] # NoClient => (hpc # "none" /\ hfd = fd) \/ WillBeClosed(fd)

Inv == ClientsTyped /\ ServerTyped /\ OneConnection /\ Owned

-------------------------------------------------------------------------------
(* What holds while the clients are polite.                                   *)

(* The request that a client has sent last. *)
Latest(c) == [client |-> c, k |-> sent[c], cmd |-> lastCmd[c]]

Held(c) == c \in ToSet(backlog) \/ \E fd \in Fds : fdTable[fd] = c

(* Client c waits for the response to req, and nothing else of it is on the wires. *)
Waits(req) ==
  /\ req = Latest(req.client)
  /\ cpc[req.client] = "recv" /\ toServer[req.client] = <<>> /\ toClient[req.client] = <<>>

(* A client that waits has one request or one response on its wires, or none; *)
(* the server keeps its connection until it has the response to quit.         *)
OnTheWires ==
  \A c \in Clients :
    /\ toServer[c] \in {<<>>, <<Latest(c)>>} /\ toClient[c] \in {<<>>, <<[client |-> c, k |-> sent[c]]>>}
    /\ toServer[c] # <<>> => cpc[c] = "recv" /\ toClient[c] = <<>>
    /\ toClient[c] # <<>> => cpc[c] = "recv"
    /\ \/ cpc[c] = "prompt"
       \/ cpc[c] = "recv" /\ (toClient[c] = <<>> \/ lastCmd[c] # "quit")
       => Held(c)

(* The handler is the only one to close the descriptor it uses. *)
AtHandler ==
  /\ hpc \in Active => /\ fdTable[hfd] # NoClient
                       /\ \A i \in DOMAIN tasks : tasks[i].fd = hfd => ~Quits(tasks[i])
                       /\ \A w \in Workers : task[w] # NoTask /\ task[w].fd = hfd => ~Quits(task[w])
  /\ hpc = "recv" => hconn = fdTable[hfd]
  /\ hpc = "close" => cpc[fdTable[hfd]] = "closed"
  /\ hpc = "enqueue" =>
       /\ fdTable[hfd] = request.client /\ Waits(request)
       /\ \A i \in DOMAIN tasks : tasks[i].request.client # request.client
       /\ \A w \in Workers : task[w] # NoTask => task[w].request.client # request.client

(* A task is for the client whose connection its descriptor is. *)
InQueue ==
  \A i \in DOMAIN tasks :
    /\ Waits(tasks[i].request) /\ ~tasks[i].answered
    /\ fdTable[tasks[i].fd] = tasks[i].request.client
    /\ \A j \in DOMAIN tasks : tasks[j].request.client = tasks[i].request.client => i = j
    /\ \A w \in Workers : task[w] # NoTask => task[w].request.client # tasks[i].request.client

(* After the response to quit its client has nothing on its way but that. *)
Answered(req) ==
  /\ req = Latest(req.client) /\ req.cmd = "quit" /\ toServer[req.client] = <<>>
  /\ \/ cpc[req.client] = "closed"
     \/ cpc[req.client] = "recv" /\ toClient[req.client] # <<>>

AtWorkers ==
  \A w \in Workers : task[w] # NoTask =>
    /\ IF task[w].answered THEN Answered(task[w].request) ELSE Waits(task[w].request)
    /\ fdTable[task[w].fd] = task[w].request.client
    /\ \A v \in Workers : task[v] # NoTask /\ task[v].request.client = task[w].request.client => v = w

Polite == /\ OnTheWires /\ AtHandler /\ InQueue /\ AtWorkers
          /\ refused = {} /\ hpc # "down"

PoliteInv == ~rude => Polite

-------------------------------------------------------------------------------
(* What a queue holds after Append and Tail, place by place. *)
LEMMA QueueGrows ==
  ASSUME NEW S, NEW q \in Seq(S), NEW x \in S
  PROVE  /\ Append(q, x) \in Seq(S) /\ Len(q) \in Nat
         /\ DOMAIN Append(q, x) = DOMAIN q \cup {Len(q) + 1} /\ Len(q) + 1 \notin DOMAIN q
         /\ \A i \in DOMAIN q : Append(q, x)[i] = q[i] /\ q[i] \in S
         /\ Append(q, x)[Len(q) + 1] = x
<1> DEFINE t == Append(q, x)
<1>1. /\ t \in Seq(S) /\ Len(q) \in Nat /\ Len(t) = Len(q) + 1
      /\ \A i \in 1..Len(q) : t[i] = q[i] /\ q[i] \in S
      /\ t[Len(q) + 1] = x
  BY AppendProperties, LenProperties, ElementOfSeq
<1>2. DOMAIN q = 1..Len(q) /\ DOMAIN t = 1..(Len(q) + 1)
  BY <1>1, LenProperties
<1> HIDE DEF t
<1>3. DOMAIN t = DOMAIN q \cup {Len(q) + 1} /\ Len(q) + 1 \notin DOMAIN q
  BY <1>1, <1>2
<1>4. \A i \in DOMAIN q : t[i] = q[i] /\ q[i] \in S
  BY <1>1, <1>2
<1> QED
  BY <1>1, <1>3, <1>4 DEF t

(* Each place of the rest of a queue is a place of the queue, and no two are *)
(* the same one; its head was at place 1.                                    *)
LEMMA QueueShrinks ==
  ASSUME NEW S, NEW q \in Seq(S), q # <<>>
  PROVE  /\ Tail(q) \in Seq(S) /\ Head(q) \in S /\ 1 \in DOMAIN q /\ Head(q) = q[1]
         /\ \A i \in DOMAIN Tail(q) : /\ i \in Nat \ {0} /\ i + 1 \in DOMAIN q
                                       /\ Tail(q)[i] = q[i + 1] /\ q[i + 1] \in S
         /\ \A i \in DOMAIN q \ {1} : i - 1 \in DOMAIN Tail(q) /\ Tail(q)[i - 1] = q[i]
<1> DEFINE t == Tail(q)
<1>1. /\ t \in Seq(S) /\ Len(q) \in Nat \ {0} /\ Len(t) = Len(q) - 1
      /\ \A i \in 1..Len(t) : t[i] = q[i + 1]
      /\ Head(q) = q[1] /\ Head(q) \in S
  BY HeadTailProperties, EmptySeq, LenProperties
<1>2. /\ DOMAIN q = 1..Len(q) /\ DOMAIN t = 1..(Len(q) - 1)
      /\ \A i \in 1..Len(q) : q[i] \in S
  BY <1>1, LenProperties, ElementOfSeq
<1> HIDE DEF t
<1>3. 1 \in DOMAIN q
  BY <1>1, <1>2
<1>4. ASSUME NEW i \in DOMAIN t
      PROVE  i \in Nat \ {0} /\ i + 1 \in DOMAIN q /\ t[i] = q[i + 1] /\ q[i + 1] \in S
  BY <1>1, <1>2
<1>5. ASSUME NEW i \in DOMAIN q \ {1}
      PROVE  i - 1 \in DOMAIN t /\ t[i - 1] = q[i]
  <2>1. i \in 1..Len(q) /\ i # 1 /\ i - 1 \in 1..Len(t) /\ (i - 1) + 1 = i
    BY <1>1, <1>2
  <2> QED
    BY <2>1, <1>1, <1>2
<1> QED
  BY <1>1, <1>3, <1>4, <1>5 DEF t

(* NoTask is neither a request nor a task, and the next descriptor is free.  *)
LEMMA ConstantsApart ==
  ASSUME rude \in Manners
  PROVE  /\ rude \in BOOLEAN /\ Typed \subseteq AnyCommand /\ Requests \subseteq AnyRequest
         /\ NoTask \notin Requests /\ NoTask \notin Taken /\ NoClient \notin Clients
<1>1. rude \in BOOLEAN /\ Typed \subseteq AnyCommand
  BY ServerAssumption DEF Typed, AnyCommand
<1>2. Requests \subseteq AnyRequest
  BY <1>1 DEF Requests, AnyRequest, AnyCommand
<1> QED
  BY <1>1, <1>2, ServerAssumption DEF Taken

LEMMA NextDescriptor ==
  ASSUME \E fd \in Fds : fdTable[fd] = NoClient
  PROVE  LowestFree \in Fds /\ fdTable[LowestFree] = NoClient
<1>1. {fd \in Fds : fdTable[fd] = NoClient} \in SUBSET Nat
  BY ServerAssumption
<1>2. \E fd \in Fds : fdTable[fd] = NoClient /\ \A g \in Fds : fdTable[g] = NoClient => fd <= g
  BY <1>1, LeastOf
<1> QED
  BY <1>2 DEF LowestFree

(* No step changes the manners of the clients, nor with them the types. *)
LEMMA MannersStay ==
  ASSUME [Next]_vars
  PROVE  rude' = rude /\ Requests' = Requests /\ Taken' = Taken /\ Typed' = Typed
<1>1. rude' = rude
  BY DEF Next, vars, clientVars, ClientStep, Connect, SendLine, Sent, ReceiveResponse, ServerClosed,
         InputEnds, Leaves, ClientDies, Accept, HandlerStep, HandlerCallsRecv, HandlerReceives,
         HandlerSeesEnd, HandlerCloses, HandlerEnqueues, WorkerStep, WorkerTakes, WorkerAnswers,
         Responded, BrokenPipe, WorkerCloses, Idle
<1> QED
  BY <1>1 DEF Requests, Taken, Typed

(* An unanswered task becomes an answered one, or is done. *)
LEMMA TaskAnswered ==
  ASSUME ServerTyped, NEW w \in Workers, task[w] # NoTask
  PROVE  /\ task[w] \in Taken
         /\ [task[w] EXCEPT !.answered = TRUE] \in Taken
         /\ [task[w] EXCEPT !.answered = TRUE].fd = task[w].fd
         /\ [task[w] EXCEPT !.answered = TRUE].request = task[w].request
         /\ [task[w] EXCEPT !.answered = TRUE].answered
<1>1. task[w] \in Taken
  BY DEF ServerTyped
<1> QED
  BY <1>1 DEF Taken

(* What is received in one call becomes a request. *)
LEMMA JoinedIsRequest ==
  ASSUME NEW reqs \in Seq(Requests), NEW worded, NEW i \in DOMAIN reqs
  PROVE  Joined(reqs, worded, i) \in Requests
<1>1. reqs[i] \in Requests
  BY ElementOfSeq, LenProperties
<1> QED
  BY <1>1 DEF Joined, Requests

-------------------------------------------------------------------------------
(* Every step of a client keeps the types. *)
LEMMA ClientKeepsTypes ==
  ASSUME ClientsTyped, ServerTyped, NEW c \in Clients, ClientStep(c) \/ ClientDies(c)
  PROVE  ClientsTyped' /\ ServerTyped'
<1>1. rude' = rude /\ Requests' = Requests /\ Taken' = Taken
  BY MannersStay DEF Next
<1>2. UNCHANGED <<fdTable, handlerVars, poolVars>>
  BY DEF ClientStep, ClientDies, Connect, SendLine, Sent, ReceiveResponse, ServerClosed, InputEnds, Leaves
<1>3. ServerTyped'
  BY <1>1, <1>2 DEF ServerTyped, handlerVars, poolVars
<1>4. \A p \in ClientPlaces : [cpc EXCEPT ![c] = p] \in [Clients -> ClientPlaces]
  BY DEF ClientsTyped
<1>5. Append(backlog, c) \in Seq(Clients)
  BY AppendProperties DEF ClientsTyped
<1>6. CASE Connect(c) \/ ServerClosed(c) \/ InputEnds(c) \/ ClientDies(c)
  <2>1. /\ \E p \in ClientPlaces : cpc' = [cpc EXCEPT ![c] = p]
        /\ backlog' \in {backlog, Append(backlog, c)} /\ refused' \subseteq refused \cup {c}
        /\ UNCHANGED <<sent, lastCmd, toServer, toClient>>
    BY <1>6 DEF Connect, ServerClosed, InputEnds, ClientDies, Leaves, ClientGoes, wireVars, ClientPlaces
  <2>2. cpc' \in [Clients -> ClientPlaces]
    BY <2>1, <1>4, Zenon
  <2> QED
    BY <2>1, <2>2, <1>1, <1>3, <1>5 DEF ClientsTyped
<1>7. CASE ReceiveResponse(c)
  <2>1. [toClient EXCEPT ![c] = <<>>] \in [Clients -> Seq(Responses)]
    BY EmptySeq DEF ClientsTyped
  <2>2. \E p \in ClientPlaces : cpc' = [cpc EXCEPT ![c] = p]
    BY <1>7 DEF ReceiveResponse, ClientPlaces
  <2>3. cpc' \in [Clients -> ClientPlaces]
    BY <2>2, <1>4, Zenon
  <2>4. toClient' \in [Clients -> Seq(Responses)]
    BY <2>1, <1>7, Zenon DEF ReceiveResponse
  <2> QED
    BY <2>3, <2>4, <1>1, <1>3, <1>7 DEF ClientsTyped, ReceiveResponse
<1>8. ASSUME NEW cmd \in Typed, SendLine(c, cmd)
      PROVE  ClientsTyped'
  <2>1. sent[c] \in 0..MaxRequests /\ sent[c] < MaxRequests /\ MaxRequests \in Nat
    BY <1>8, ServerAssumption DEF ClientsTyped, SendLine, Sent
  <2>2. sent[c] + 1 \in 1..MaxRequests /\ sent[c] + 1 \in 0..MaxRequests
    BY <2>1
  <2>3. [client |-> c, k |-> sent[c] + 1, cmd |-> cmd] \in Requests
    BY <2>2 DEF Requests
  <2>4. Append(toServer[c], [client |-> c, k |-> sent[c] + 1, cmd |-> cmd]) \in Seq(Requests)
    BY <2>3, AppendProperties DEF ClientsTyped
  <2>5. toServer' \in [Clients -> Seq(Requests)]
    BY <2>4, <1>8 DEF SendLine, Sent, ClientsTyped
  <2>6. cmd \in AnyCommand
    BY ConstantsApart DEF ClientsTyped
  <2>7. /\ cpc' \in [Clients -> ClientPlaces] /\ sent' \in [Clients -> 0..MaxRequests]
        /\ lastCmd' \in [Clients -> AnyCommand \cup {"none"}]
        /\ UNCHANGED <<toClient, refused, backlog>>
    BY <2>2, <2>6, <1>4, <1>8 DEF SendLine, Sent, ClientGoes, ClientsTyped, ClientPlaces
  <2> QED
    BY <2>5, <2>7, <1>1 DEF ClientsTyped
<1> QED
  BY <1>3, <1>6, <1>7, <1>8 DEF ClientStep

(* Every step of main and of the handler keeps the types. *)
LEMMA HandlerKeepsTypes ==
  ASSUME ClientsTyped, ServerTyped, Accept \/ HandlerStep
  PROVE  ClientsTyped' /\ ServerTyped'
<1>1. rude' = rude /\ Requests' = Requests /\ Taken' = Taken
  BY MannersStay DEF Next
<1>2. NoTask \notin Requests /\ NoTask \notin Taken /\ NoClient \notin Clients
  BY ConstantsApart DEF ClientsTyped
<1> USE <1>1, <1>2 DEF HandlerPlaces, Active, clientVars, wireVars, poolVars
<1>3. CASE Accept
  <2>1. LowestFree \in Fds /\ UNCHANGED <<hconn, request, wireVars, poolVars, cpc, sent, lastCmd>>
    BY <1>3, NextDescriptor DEF Accept
  <2>2. Head(backlog) \in Clients /\ Tail(backlog) \in Seq(Clients)
    BY <1>3, QueueShrinks DEF Accept, ClientsTyped
  <2>3. ClientsTyped'
    BY <2>1, <2>2, <1>3 DEF Accept, ClientsTyped
  <2>4. fdTable' \in [Fds -> Clients \cup {NoClient}] /\ hpc' = "loop" /\ hpc = "none" /\ hfd' \in Fds
    BY <2>1, <2>2, <1>3 DEF Accept, ServerTyped
  <2> QED
    BY <2>1, <2>3, <2>4 DEF ServerTyped
<1>4. CASE HandlerCallsRecv
  <2>1. hfd \in Fds /\ fdTable[hfd] \in Clients \cup {NoClient} /\ hpc = "loop"
    BY <1>4 DEF HandlerCallsRecv, ServerTyped
  <2> QED
    BY <2>1, <1>4 DEF HandlerCallsRecv, ServerTyped, ClientsTyped
<1>5. CASE HandlerReceives
  <2>1. hconn \in Clients /\ toServer[hconn] \in Seq(Requests) /\ hpc = "recv" /\ hfd \in Fds
    BY <1>5 DEF HandlerReceives, ServerTyped, ClientsTyped
  <2>2. \/ hpc' = "loop" /\ request' = request
        \/ hpc' = "enqueue" /\ request' \in Requests
    <3> DEFINE worded == {i \in DOMAIN toServer[hconn] : toServer[hconn][i].cmd # "blank"}
    <3>1. \/ hpc' = "loop" /\ request' = request
          \/ \E i \in worded : hpc' = "enqueue" /\ request' = Joined(toServer[hconn], worded, i)
      BY <1>5 DEF HandlerReceives
    <3> QED
      BY <3>1, <2>1, JoinedIsRequest
  <2>3. toServer' \in [Clients -> Seq(Requests)]
    BY <1>5, EmptySeq DEF HandlerReceives, ClientsTyped
  <2>4. hconn' = NoClient /\ UNCHANGED <<clientVars, toClient, refused, fdTable, hfd, poolVars>>
    BY <1>5 DEF HandlerReceives
  <2>5. ClientsTyped'
    BY <2>3, <2>4 DEF ClientsTyped
  <2> QED
    BY <2>1, <2>2, <2>4, <2>5 DEF ServerTyped
<1>6. CASE HandlerSeesEnd
  BY <1>6 DEF HandlerSeesEnd, ServerTyped, ClientsTyped
<1>7. CASE HandlerCloses
  BY <1>7 DEF HandlerCloses, ServerTyped, ClientsTyped
<1>8. CASE HandlerEnqueues
  <2>1. hfd \in Fds /\ request \in Requests /\ tasks \in Seq(Taken)
    BY <1>8 DEF HandlerEnqueues, ServerTyped
  <2>2. Task(hfd, request) \in Taken
    BY <2>1 DEF Task, Taken
  <2>3. tasks' \in Seq(Taken)
    BY <2>1, <2>2, <1>8, AppendProperties DEF HandlerEnqueues, enqueueTask
  <2> QED
    BY <2>1, <2>3, <1>8 DEF HandlerEnqueues, ServerTyped, ClientsTyped
<1> QED
  BY <1>3, <1>4, <1>5, <1>6, <1>7, <1>8 DEF HandlerStep

(* Every step of a worker keeps the types. *)
LEMMA WorkerKeepsTypes ==
  ASSUME ClientsTyped, ServerTyped, NEW w \in Workers, WorkerStep(w)
  PROVE  ClientsTyped' /\ ServerTyped'
<1>1. rude' = rude /\ Requests' = Requests /\ Taken' = Taken
  BY MannersStay DEF Next
<1>2. NoTask \notin Requests /\ NoTask \notin Taken /\ NoClient \notin Clients
  BY ConstantsApart DEF ClientsTyped
<1> USE <1>1, <1>2 DEF HandlerPlaces, Active, clientVars, wireVars, handlerVars
<1>3. CASE WorkerTakes(w)
  <2>1. Head(tasks) \in Taken /\ Tail(tasks) \in Seq(Taken)
    BY <1>3, QueueShrinks DEF WorkerTakes, ServerTyped
  <2> QED
    BY <2>1, <1>3 DEF WorkerTakes, ServerTyped, ClientsTyped
<1>4. CASE WorkerAnswers(w)
  <2>1. task[w] # NoTask /\ task[w] \in Taken /\ [task[w] EXCEPT !.answered = TRUE] \in Taken
    BY <1>4, TaskAnswered DEF WorkerAnswers
  <2>2. ServerTyped'
    BY <2>1, <1>4 DEF WorkerAnswers, Responded, ServerTyped
  <2>3. PICK conn : conn = fdTable[task[w].fd]
    OBVIOUS
  <2>4. conn \in Clients \cup {NoClient} /\ task[w].request \in Requests
    BY <2>1, <2>3 DEF Taken, ServerTyped
  <2>5. [client |-> task[w].request.client, k |-> task[w].request.k] \in Responses
    BY <2>4 DEF Requests, Responses
  <2>6. \A s \in Seq(Responses) :
          Append(s, [client |-> task[w].request.client, k |-> task[w].request.k]) \in Seq(Responses)
    BY <2>5, AppendProperties
  <2>7. toClient' \in [Clients -> Seq(Responses)] /\ refused' \subseteq Clients
    BY <2>3, <2>4, <2>6, <1>4 DEF WorkerAnswers, Responds, ClientsTyped
  <2>8. UNCHANGED <<clientVars, toServer>>
    BY <1>4 DEF WorkerAnswers, Responded
  <2>9. ClientsTyped'
    BY <2>7, <2>8 DEF ClientsTyped
  <2> QED
    BY <2>2, <2>9
<1>5. CASE BrokenPipe(w)
  BY <1>5, EmptySeq DEF BrokenPipe, ServerTyped, ClientsTyped
<1>6. CASE WorkerCloses(w)
  BY <1>6 DEF WorkerCloses, ServerTyped, ClientsTyped
<1> QED
  BY <1>3, <1>4, <1>5, <1>6 DEF WorkerStep

(* The types are kept by every step. *)
LEMMA TypesKept ==
  ASSUME ClientsTyped, ServerTyped, [Next]_vars
  PROVE  ClientsTyped' /\ ServerTyped'
<1>1. CASE \E c \in Clients : ClientStep(c) \/ ClientDies(c)
  BY <1>1, ClientKeepsTypes
<1>2. CASE Accept \/ HandlerStep
  BY <1>2, HandlerKeepsTypes
<1>3. CASE \E w \in Workers : WorkerStep(w)
  BY <1>3, WorkerKeepsTypes
<1>4. CASE Idle \/ UNCHANGED vars
  <2>1. UNCHANGED vars /\ Requests' = Requests /\ Taken' = Taken
    BY <1>4, MannersStay DEF Idle
  <2> QED
    BY <2>1 DEF ClientsTyped, ServerTyped, vars, clientVars, wireVars, handlerVars, poolVars
<1> QED
  BY <1>1, <1>2, <1>3, <1>4 DEF Next

-------------------------------------------------------------------------------
(* A step of a client moves that client only, which may join the backlog. *)
LEMMA ClientEffect ==
  ASSUME ClientsTyped, NEW c \in Clients, ClientStep(c) \/ ClientDies(c)
  PROVE  /\ \A d \in Clients : cpc'[d] = cpc[d] \/ (d = c /\ cpc'[d] # "start")
         /\ \/ UNCHANGED backlog
            \/ cpc[c] = "start" /\ cpc'[c] # "start" /\ backlog' = Append(backlog, c)
         /\ UNCHANGED <<rude, fdTable, handlerVars, poolVars>>
<1>1. UNCHANGED <<rude, fdTable, handlerVars, poolVars>>
  BY DEF ClientStep, ClientDies, Connect, SendLine, Sent, ReceiveResponse, ServerClosed, InputEnds, Leaves
<1>2. \E p \in ClientPlaces \ {"start"} : cpc' = [cpc EXCEPT ![c] = p]
  BY DEF ClientStep, ClientDies, Connect, SendLine, ReceiveResponse, ServerClosed, InputEnds,
         ClientGoes, ClientPlaces
<1>3. cpc'[c] # "start" /\ \A d \in Clients \ {c} : cpc'[d] = cpc[d]
  BY <1>2 DEF ClientsTyped
<1>4. UNCHANGED backlog \/ (cpc[c] = "start" /\ backlog' = Append(backlog, c))
  BY DEF ClientStep, ClientDies, Connect, SendLine, Sent, ReceiveResponse, ServerClosed, InputEnds,
         Leaves, ClientGoes
<1> QED
  BY <1>1, <1>3, <1>4

(* No connection gets a second descriptor. *)
LEMMA ConnectionsKept ==
  ASSUME ClientsTyped, ServerTyped, OneConnection, [Next]_vars
  PROVE  OneConnection'
<1>0. NoClient \notin Clients /\ backlog \in Seq(Clients)
  BY ConstantsApart DEF ClientsTyped
<1>1. ASSUME NEW c \in Clients, ClientStep(c) \/ ClientDies(c)
      PROVE  OneConnection'
  <2>1. /\ \A d \in Clients : cpc'[d] = cpc[d] \/ (d = c /\ cpc'[d] # "start")
        /\ \/ UNCHANGED backlog
           \/ cpc[c] = "start" /\ cpc'[c] # "start" /\ backlog' = Append(backlog, c)
        /\ UNCHANGED fdTable
    BY <1>1, ClientEffect
  <2>2. CASE UNCHANGED backlog
    BY <2>1, <2>2 DEF OneConnection, ServerTyped
  <2>3. CASE cpc[c] = "start" /\ cpc'[c] # "start" /\ backlog' = Append(backlog, c)
    <3>1. c \notin ToSet(backlog) /\ \A fd \in Fds : fdTable[fd] # c
      BY <2>3, <1>0 DEF OneConnection
    <3>2. IsInjective(backlog') /\ ToSet(backlog') = ToSet(backlog) \cup {c}
      BY <3>1, <2>3, <1>0, OneMoreWaits DEF OneConnection
    <3> QED
      BY <3>1, <3>2, <2>1, <2>3 DEF OneConnection, ServerTyped
  <2> QED
    BY <2>1, <2>2, <2>3
<1>2. CASE Accept
  <2>1. LowestFree \in Fds /\ fdTable[LowestFree] = NoClient
    BY <1>2, NextDescriptor DEF Accept
  <2>2. PICK fd \in Fds : fd = LowestFree
    BY <2>1
  <2>3. PICK c \in Clients : c = Head(backlog)
    BY <1>2, <1>0, QueueShrinks DEF Accept
  <2>4. /\ IsInjective(backlog') /\ ToSet(backlog') = ToSet(backlog) \ {c} /\ c \in ToSet(backlog)
    BY <2>3, <1>2, <1>0, OneLessWaits DEF Accept, OneConnection
  <2>5. fdTable' = [fdTable EXCEPT ![fd] = c] /\ UNCHANGED cpc
    BY <2>2, <2>3, <1>2 DEF Accept
  <2>6. cpc[c] # "start" /\ \A g \in Fds : fdTable[g] # c
    BY <2>4 DEF OneConnection
  <2>7. fdTable'[fd] = c /\ \A g \in Fds \ {fd} : fdTable'[g] = fdTable[g]
    BY <2>5 DEF ServerTyped
  <2> QED
    BY <2>4, <2>5, <2>6, <2>7 DEF OneConnection
<1>3. ASSUME UNCHANGED <<cpc, backlog>>,
             \/ UNCHANGED fdTable
             \/ \E g \in Fds : fdTable' = [fdTable EXCEPT ![g] = NoClient]
      PROVE  OneConnection'
  <2>1. \A fd \in Fds : fdTable'[fd] \in {fdTable[fd], NoClient}
    BY <1>3 DEF ServerTyped
  <2> QED
    BY <2>1, <1>0, <1>3 DEF OneConnection
<1>4. CASE HandlerStep
  <2>1. hpc = "close" => hfd \in Fds
    BY DEF ServerTyped, Active
  <2> QED
    BY <2>1, <1>3, <1>4 DEF HandlerStep, HandlerCallsRecv, HandlerReceives, HandlerSeesEnd, HandlerCloses,
       HandlerEnqueues, clientVars
<1>5. ASSUME NEW w \in Workers, WorkerTakes(w) \/ WorkerAnswers(w) \/ WorkerCloses(w)
      PROVE  OneConnection'
  <2>1. task[w] # NoTask => task[w].fd \in Fds
    BY DEF ServerTyped, Taken
  <2> QED
    BY <2>1, <1>3, <1>5 DEF WorkerTakes, WorkerAnswers, Responded, WorkerCloses, clientVars
<1>6. ASSUME NEW w \in Workers, BrokenPipe(w)
      PROVE  OneConnection'
  <2>1. backlog' = <<>> /\ \A fd \in Fds : fdTable'[fd] = NoClient
    BY <1>6 DEF BrokenPipe
  <2>2. IsInjective(backlog') /\ ToSet(backlog') = {}
    BY <2>1, EmptySeq DEF IsInjective, ToSet
  <2> QED
    BY <2>1, <2>2 DEF OneConnection
<1>7. CASE Idle \/ UNCHANGED vars
  BY <1>3, <1>7 DEF Idle, vars, clientVars
<1> QED
  BY <1>1, <1>2, <1>4, <1>5, <1>6, <1>7 DEF Next, WorkerStep

(* A descriptor that its handler leaves open will be closed by a task. *)
LEMMA OwnersKept ==
  ASSUME ClientsTyped, ServerTyped, Owned, [Next]_vars
  PROVE  Owned'
<1>0. NoClient \notin Clients /\ NoTask \notin Taken /\ NoTask \notin Requests
  BY ConstantsApart DEF ClientsTyped
<1>1. CASE UNCHANGED <<fdTable, handlerVars, poolVars>>
  BY <1>1 DEF Owned, WillBeClosed, Quits, handlerVars, poolVars
<1>2. CASE Accept
  <2>1. LowestFree \in Fds /\ fdTable[LowestFree] = NoClient
    BY <1>2, NextDescriptor DEF Accept
  <2>2. PICK fd \in Fds : fd = LowestFree
    BY <2>1
  <2>3. PICK c : c = Head(backlog)
    OBVIOUS
  <2>4. fdTable' = [fdTable EXCEPT ![fd] = c] /\ hpc = "none" /\ hpc' = "loop" /\ hfd' = fd /\ UNCHANGED poolVars
    BY <2>2, <2>3, <1>2 DEF Accept
  <2>5. \A g \in Fds \ {fd} : fdTable'[g] = fdTable[g]
    BY <2>4 DEF ServerTyped
  <2> QED
    BY <2>4, <2>5 DEF Owned, WillBeClosed, poolVars, Quits
<1>3. CASE HandlerCallsRecv \/ HandlerReceives \/ HandlerSeesEnd
  <2>1. hpc # "none" /\ hpc' # "none" /\ UNCHANGED <<fdTable, hfd, poolVars>>
    BY <1>3 DEF HandlerCallsRecv, HandlerReceives, HandlerSeesEnd
  <2> QED
    BY <2>1 DEF Owned, WillBeClosed, poolVars, Quits
<1>4. CASE HandlerCloses
  <2>1. fdTable' = [fdTable EXCEPT ![hfd] = NoClient] /\ UNCHANGED poolVars
    BY <1>4 DEF HandlerCloses
  <2>2. \A fd \in Fds : fdTable'[fd] = IF fd = hfd THEN NoClient ELSE fdTable[fd]
    BY <2>1 DEF ServerTyped
  <2> QED
    BY <2>1, <2>2 DEF Owned, WillBeClosed, poolVars, Quits
<1>5. CASE HandlerEnqueues
  <2>1. PICK t : t = Task(hfd, request)
    OBVIOUS
  <2>2. hfd \in Fds /\ request \in Requests /\ tasks \in Seq(Taken)
    BY <1>5 DEF HandlerEnqueues, ServerTyped, Active
  <2>3. t \in Taken /\ t.fd = hfd /\ t.request = request
    BY <2>1, <2>2 DEF Task, Taken
  <2>4. tasks' = Append(tasks, t) /\ hpc = "enqueue" /\ UNCHANGED <<fdTable, hfd, task>>
    BY <2>1, <1>5 DEF HandlerEnqueues, enqueueTask
  <2>5. /\ DOMAIN tasks' = DOMAIN tasks \cup {Len(tasks) + 1} /\ tasks'[Len(tasks) + 1] = t
        /\ \A i \in DOMAIN tasks : tasks'[i] = tasks[i]
    BY <2>2, <2>3, <2>4, QueueGrows
  <2>6. hpc' # "none" \/ Quits(t)
    BY <2>3, <1>5 DEF HandlerEnqueues, LeavesAfter, Quits
  <2>7. \A fd \in Fds : WillBeClosed(fd) => WillBeClosed(fd)'
    BY <2>4, <2>5 DEF WillBeClosed, Quits
  <2>8. Quits(t) => WillBeClosed(hfd)'
    <3>1. Len(tasks) + 1 \in DOMAIN tasks' /\ tasks'[Len(tasks) + 1].fd = hfd'
      BY <2>3, <2>4, <2>5
    <3>2. Quits(t) => Quits(tasks'[Len(tasks) + 1])
      BY <2>5 DEF Quits
    <3> QED
      BY <3>1, <3>2 DEF WillBeClosed, Quits
  <2> QED
    BY <2>4, <2>6, <2>7, <2>8 DEF Owned
<1>6. ASSUME NEW w \in Workers, WorkerTakes(w)
      PROVE  Owned'
  <2>1. PICK t : t = Head(tasks)
    OBVIOUS
  <2>2. /\ task[w] = NoTask /\ task' = [task EXCEPT ![w] = t] /\ tasks' = Tail(tasks)
        /\ tasks # <<>> /\ tasks \in Seq(Taken) /\ UNCHANGED <<fdTable, hpc, hfd>>
    BY <2>1, <1>6 DEF WorkerTakes, handlerVars, ServerTyped
  <2>3. /\ t \in Taken /\ t = tasks[1]
        /\ \A i \in DOMAIN tasks \ {1} : i - 1 \in DOMAIN tasks' /\ tasks'[i - 1] = tasks[i]
    BY <2>1, <2>2, QueueShrinks
  <2>4. task'[w] = t /\ \A v \in Workers \ {w} : task'[v] = task[v]
    BY <2>2 DEF ServerTyped
  <2>5. \A fd \in Fds : WillBeClosed(fd) => WillBeClosed(fd)'
    <3> SUFFICES ASSUME NEW fd \in Fds, WillBeClosed(fd) PROVE WillBeClosed(fd)'
      OBVIOUS
    <3>1. CASE \E i \in DOMAIN tasks : tasks[i].fd = fd /\ Quits(tasks[i])
      BY <3>1, <2>3, <2>4, <1>0 DEF WillBeClosed, Quits
    <3>2. CASE \E v \in Workers : task[v] # NoTask /\ task[v].fd = fd /\ Quits(task[v])
      BY <3>2, <2>2, <2>4 DEF WillBeClosed, Quits
    <3> QED
      BY <3>1, <3>2 DEF WillBeClosed
  <2> QED
    BY <2>2, <2>5 DEF Owned
<1>7. ASSUME NEW w \in Workers, WorkerAnswers(w)
      PROVE  Owned'
  <2>1. /\ task[w] # NoTask /\ UNCHANGED <<fdTable, hpc, hfd, tasks>>
        /\ task' = [task EXCEPT ![w] = IF Quits(task[w]) THEN [@ EXCEPT !.answered = TRUE] ELSE NoTask]
    BY <1>7 DEF WorkerAnswers, Responded, handlerVars
  <2>2. PICK t : t = [task[w] EXCEPT !.answered = TRUE]
    OBVIOUS
  <2>3. t \in Taken /\ t.fd = task[w].fd /\ t.request = task[w].request
    BY <2>1, <2>2, TaskAnswered
  <2>4. \A v \in Workers \ {w} : task'[v] = task[v]
    BY <2>1 DEF ServerTyped
  <2>5. task'[w] = IF Quits(task[w]) THEN t ELSE NoTask
    BY <2>1, <2>2 DEF ServerTyped
  <2>6. \A fd \in Fds : WillBeClosed(fd) => WillBeClosed(fd)'
    BY <2>1, <2>3, <2>4, <2>5, <1>0, ZenonT(60) DEF WillBeClosed, Quits
  <2> QED
    BY <2>1, <2>6 DEF Owned
<1>8. ASSUME NEW w \in Workers, WorkerCloses(w)
      PROVE  Owned'
  <2>1. /\ fdTable' = [fdTable EXCEPT ![task[w].fd] = NoClient] /\ UNCHANGED <<hpc, hfd, tasks>>
        /\ task' = [task EXCEPT ![w] = NoTask]
    BY <1>8 DEF WorkerCloses, handlerVars
  <2>2. \A fd \in Fds : fdTable'[fd] = IF fd = task[w].fd THEN NoClient ELSE fdTable[fd]
    BY <2>1 DEF ServerTyped
  <2>3. \A v \in Workers \ {w} : task'[v] = task[v]
    BY <2>1 DEF ServerTyped
  <2>4. \A fd \in Fds \ {task[w].fd} : WillBeClosed(fd) => WillBeClosed(fd)'
    BY <2>1, <2>3 DEF WillBeClosed, Quits
  <2> QED
    BY <2>1, <2>2, <2>4 DEF Owned
<1>9. ASSUME NEW w \in Workers, BrokenPipe(w)
      PROVE  Owned'
  BY <1>9 DEF BrokenPipe, Owned
<1>10. ASSUME NEW c \in Clients, ClientStep(c) \/ ClientDies(c)
       PROVE  Owned'
  BY <1>1, <1>10, ClientEffect
<1>11. CASE Idle \/ UNCHANGED vars
  BY <1>1, <1>11 DEF Idle, vars
<1> QED
  BY <1>2, <1>3, <1>4, <1>5, <1>6, <1>7, <1>8, <1>9, <1>10, <1>11 DEF Next, HandlerStep, WorkerStep

(* Every variable holds a value of its type, no connection has two           *)
(* descriptors, and each open descriptor has somebody to close it.           *)
THEOREM ServerInvariant == Spec => []Inv
<1>1. Init => Inv
  <2> SUFFICES ASSUME Init PROVE Inv
    OBVIOUS
  <2>1. <<>> \in Seq(Clients) /\ <<>> \in Seq(Taken) /\ <<>> \in Seq(Requests) /\ <<>> \in Seq(Responses)
    BY EmptySeq
  <2>2. 0 \in 0..MaxRequests
    BY ServerAssumption
  <2>3. ClientsTyped
    BY <2>1, <2>2 DEF Init, ClientsTyped, ClientPlaces
  <2>4. ServerTyped
    BY <2>1, <2>3, ConstantsApart DEF Init, ServerTyped, HandlerPlaces, Active, ClientsTyped
  <2>5. IsInjective(backlog) /\ ToSet(backlog) = {}
    BY EmptySeq DEF Init, IsInjective, ToSet
  <2> QED
    BY <2>3, <2>4, <2>5 DEF Inv, OneConnection, Owned, Init
<1>2. Inv /\ [Next]_vars => Inv'
  BY TypesKept, ConnectionsKept, OwnersKept DEF Inv
<1> QED
  BY <1>1, <1>2, PTL DEF Spec

(* The types of FibServer: a handler is blocked in recv on a connection      *)
(* exactly when it is in recv, and each task names a descriptor.             *)
THEOREM TypeCorrect == Spec => []TypeOK
<1>1. Inv => TypeOK
  <2> SUFFICES ASSUME Inv PROVE TypeOK
    OBVIOUS
  <2>1. ClientsTyped /\ ServerTyped
    BY DEF Inv
  <2>2. ASSUME NEW c \in Clients
        PROVE  /\ cpc[c] \in {"start", "prompt", "recv", "closed"} /\ sent[c] \in 0..MaxRequests
               /\ \A j \in DOMAIN toServer[c] : toServer[c][j] \in Requests
    <3>1. toServer[c] \in Seq(Requests)
      BY <2>1 DEF ClientsTyped
    <3> QED
      BY <2>1, <3>1, ElementOfSeq, LenProperties DEF ClientsTyped, ClientPlaces
  <2>3. ToSet(tasks) \subseteq Taken
    BY <2>1, ElementOfSeq, LenProperties DEF ServerTyped, ToSet
  <2>4. Pending \subseteq Taken
    BY <2>1, <2>3 DEF Pending, ServerTyped
  <2>5. \A t \in Pending : t.fd \in Fds /\ t.request \in Requests
    BY <2>4 DEF Taken
  <2> QED
    BY <2>1, <2>2, <2>5 DEF TypeOK, ClientsTyped, ServerTyped, HandlerPlaces
<1> QED
  BY <1>1, ServerInvariant, PTL

(* No descriptor leaks, whatever the clients send and whenever they die: the *)
(* handler still uses an open descriptor, or a task will close it.           *)
THEOREM DescriptorsAreOwnedHolds == Spec => []DescriptorsAreOwned
<1>1. Inv => DescriptorsAreOwned
  <2> SUFFICES ASSUME Inv, NEW fd \in Fds, fdTable[fd] # NoClient
               PROVE  /\ (hpc # "none" /\ hfd = fd) \/ \E t \in Pending : t.fd = fd /\ Quits(t)
                      /\ \A g \in Fds : fdTable[g] = fdTable[fd] => g = fd
    BY DEF DescriptorsAreOwned
  <2>1. \A g \in Fds : fdTable[g] = fdTable[fd] => g = fd
    BY DEF Inv, OneConnection
  <2>2. /\ \A i \in DOMAIN tasks : tasks[i] \in Pending
        /\ \A w \in Workers : task[w] # NoTask => task[w] \in Pending
    BY DEF Pending, ToSet
  <2>3. WillBeClosed(fd) => \E t \in Pending : t.fd = fd /\ Quits(t)
    BY <2>2 DEF WillBeClosed
  <2> QED
    BY <2>1, <2>3 DEF Inv, Owned
<1> QED
  BY <1>1, ServerInvariant, PTL

-------------------------------------------------------------------------------
(* What the client and its wires hold stays as it was. *)
Same(d) ==
  /\ cpc'[d] = cpc[d] /\ sent'[d] = sent[d] /\ lastCmd'[d] = lastCmd[d]
  /\ toServer'[d] = toServer[d] /\ toClient'[d] = toClient[d]

LEMMA SameWaits ==
  ASSUME NEW req, Same(req.client)
  PROVE  Waits(req)' = Waits(req) /\ Answered(req)' = Answered(req)
BY DEF Same, Waits, Answered, Latest

(* The tasks of the queue and of the workers are tasks. *)
LEMMA TasksTyped ==
  ASSUME ServerTyped
  PROVE  /\ \A i \in DOMAIN tasks : tasks[i] \in Taken
         /\ \A w \in Workers : task[w] # NoTask => task[w] \in Taken
BY ElementOfSeq, LenProperties DEF ServerTyped

(* A polite client quits with the bare word and sends no empty line. *)
LEMMA PoliteCommands ==
  ASSUME rude \in Manners, ~rude, NEW req \in Requests
  PROVE  /\ req.client \in Clients /\ req.cmd \in {"fib", "quit", "other"}
         /\ req.cmd \in {"quit", "quitArg"} <=> req.cmd = "quit"
BY ServerAssumption DEF Requests, Typed

(* Everybody who is waited for in the server stays so, when no client that a *)
(* task or the handler answers moves and the tasks stay where they are.      *)
LEMMA WaitersKept ==
  ASSUME Inv, ~rude, Polite, NEW c \in Clients,
         \A d \in Clients \ {c} : Same(d),
         UNCHANGED <<fdTable, handlerVars, poolVars, refused>>,
         cpc[c] # "closed",
         ~ (cpc[c] = "recv" /\ toClient[c] = <<>>),
         \A req \in Requests : req.client = c /\ Answered(req) => Answered(req)'
  PROVE  AtHandler' /\ InQueue' /\ AtWorkers' /\ refused' = {} /\ hpc' # "down"
<1> USE DEF handlerVars, poolVars
<1>1. /\ ClientsTyped /\ ServerTyped /\ NoClient \notin Clients
      /\ \A i \in DOMAIN tasks : tasks[i] \in Taken
      /\ \A w \in Workers : task[w] # NoTask => task[w] \in Taken
  BY ConstantsApart, TasksTyped DEF Inv, ClientsTyped
<1>2. \A req \in Requests : req.client \in Clients /\ (Waits(req) => req.client # c)
  BY DEF Waits, Requests
<1>3. ASSUME NEW req \in Requests
      PROVE  (Waits(req) => Waits(req)') /\ (Answered(req) => Answered(req)')
  <2>1. CASE req.client # c
    BY <2>1, <1>2, SameWaits
  <2>2. CASE req.client = c
    BY <2>2, <1>2
  <2> QED
    BY <2>1, <2>2
<1>4. hpc = "close" => cpc[fdTable[hfd]] = "closed" /\ fdTable[hfd] \in Clients
  BY <1>1 DEF Polite, AtHandler, ServerTyped, Active
<1>5. AtHandler'
  <2>1. hpc = "close" => cpc'[fdTable[hfd]] = "closed"
    BY <1>4 DEF Same
  <2>2. hpc = "enqueue" => request \in Requests
    BY <1>1 DEF ServerTyped, Requests
  <2>3. PICK req : req = request
    OBVIOUS
  <2>4. hpc = "enqueue" => Waits(req)'
    BY <2>2, <2>3, <1>3 DEF Polite, AtHandler
  <2>5. hpc' = "enqueue" => Waits(request)'
    BY <2>3, <2>4 DEF Waits, Latest
  <2> QED
    BY <2>1, <2>5 DEF Polite, AtHandler, Quits
<1>6. InQueue'
  <2> SUFFICES ASSUME NEW i \in DOMAIN tasks
               PROVE  /\ Waits(tasks[i].request)' /\ ~tasks'[i].answered
                      /\ fdTable'[tasks'[i].fd] = tasks'[i].request.client
                      /\ \A j \in DOMAIN tasks' : tasks'[j].request.client = tasks'[i].request.client => i = j
                      /\ \A w \in Workers : task'[w] # NoTask => task'[w].request.client # tasks'[i].request.client
    BY DEF InQueue, Waits
  <2>1. PICK req \in Requests : req = tasks[i].request
    BY <1>1 DEF Taken
  <2>2. Waits(req)'
    BY <2>1, <1>3 DEF Polite, InQueue
  <2>3. Waits(tasks[i].request)'
    BY <2>1, <2>2 DEF Waits
  <2> QED
    BY <2>3 DEF Polite, InQueue
<1>7. AtWorkers'
  <2> SUFFICES ASSUME NEW w \in Workers, task[w] # NoTask
               PROVE  /\ IF task'[w].answered THEN Answered(task[w].request)' ELSE Waits(task[w].request)'
                      /\ fdTable'[task'[w].fd] = task'[w].request.client
                      /\ \A v \in Workers : task'[v] # NoTask /\ task'[v].request.client = task'[w].request.client => v = w
    BY DEF AtWorkers, Waits, Answered
  <2>1. PICK req \in Requests : req = task[w].request
    BY <1>1 DEF Taken
  <2>2. IF task[w].answered THEN Answered(req)' ELSE Waits(req)'
    BY <2>1, <1>3 DEF Polite, AtWorkers
  <2>3. IF task'[w].answered THEN Answered(task[w].request)' ELSE Waits(task[w].request)'
    BY <2>1, <2>2 DEF Waits, Answered
  <2> QED
    BY <2>3 DEF Polite, AtWorkers
<1> QED
  BY <1>5, <1>6, <1>7 DEF Polite

(* What is on the wires of the clients that do not move stays right. *)
LEMMA WiresKept ==
  ASSUME Inv, Polite, NEW c \in Clients,
         \A d \in Clients \ {c} : Same(d) /\ (Held(d) => Held(d)'),
         /\ toServer'[c] \in {<<>>, <<Latest(c)'>>}
         /\ toClient'[c] \in {<<>>, <<[client |-> c, k |-> sent'[c]]>>},
         toServer'[c] # <<>> => cpc'[c] = "recv" /\ toClient'[c] = <<>>,
         toClient'[c] # <<>> => cpc'[c] = "recv",
         \/ cpc'[c] = "prompt"
         \/ cpc'[c] = "recv" /\ (toClient'[c] = <<>> \/ lastCmd'[c] # "quit")
         => Held(c)'
  PROVE  OnTheWires'
<1> SUFFICES ASSUME NEW d \in Clients
             PROVE  /\ toServer'[d] \in {<<>>, <<Latest(d)'>>} /\ toClient'[d] \in {<<>>, <<[client |-> d, k |-> sent'[d]]>>}
                    /\ toServer'[d] # <<>> => cpc'[d] = "recv" /\ toClient'[d] = <<>>
                    /\ toClient'[d] # <<>> => cpc'[d] = "recv"
                    /\ \/ cpc'[d] = "prompt"
                       \/ cpc'[d] = "recv" /\ (toClient'[d] = <<>> \/ lastCmd'[d] # "quit")
                       => Held(d)'
  BY DEF OnTheWires
<1>1. CASE d = c
  BY <1>1
<1>2. CASE d # c
  <2>1. Same(d) /\ (Held(d) => Held(d)')
    BY <1>2
  <2>2. Latest(d)' = Latest(d)
    BY <2>1 DEF Latest, Same
  <2> QED
    BY <2>1, <2>2 DEF Polite, OnTheWires, Same
<1> QED
  BY <1>1, <1>2

(* Only what moves c changes. *)
LEMMA OnlyOneMoves ==
  ASSUME ClientsTyped, NEW c \in Clients,
         \E p \in ClientPlaces : cpc' = [cpc EXCEPT ![c] = p],
         sent' = sent \/ \E n : sent' = [sent EXCEPT ![c] = n],
         lastCmd' = lastCmd \/ \E n : lastCmd' = [lastCmd EXCEPT ![c] = n],
         toServer' = toServer \/ \E n : toServer' = [toServer EXCEPT ![c] = n],
         toClient' = toClient \/ \E n : toClient' = [toClient EXCEPT ![c] = n]
  PROVE  \A d \in Clients \ {c} : Same(d)
<1> SUFFICES ASSUME NEW d \in Clients \ {c} PROVE Same(d)
  OBVIOUS
<1>1. cpc'[d] = cpc[d]
  BY DEF ClientsTyped
<1>2. sent'[d] = sent[d] /\ lastCmd'[d] = lastCmd[d]
  BY DEF ClientsTyped
<1>3. toServer'[d] = toServer[d] /\ toClient'[d] = toClient[d]
  BY DEF ClientsTyped
<1> QED
  BY <1>1, <1>2, <1>3 DEF Same

LEMMA ConnectIsPolite ==
  ASSUME Inv, ~rude, Polite, NEW c \in Clients, Connect(c)
  PROVE  Polite'
<1>1. /\ ClientsTyped /\ cpc[c] = "start" /\ cpc' = [cpc EXCEPT ![c] = "prompt"]
      /\ backlog' = Append(backlog, c)
      /\ UNCHANGED <<sent, lastCmd, toServer, toClient, refused, fdTable, handlerVars, poolVars>>
  BY DEF Inv, Polite, Connect, ClientGoes, wireVars
<1>2. \A d \in Clients \ {c} : Same(d)
  BY <1>1, OnlyOneMoves DEF ClientPlaces
<1>3. ToSet(backlog') = ToSet(backlog) \cup {c}
  <2>1. backlog \in Seq(Clients) /\ IsInjective(backlog) /\ c \notin ToSet(backlog)
    BY <1>1 DEF ClientsTyped, Inv, OneConnection
  <2> QED
    BY <2>1, <1>1, OneMoreWaits
<1>4. Held(c)' /\ \A d \in Clients : Held(d) => Held(d)'
  BY <1>1, <1>3 DEF Held
<1>5. toServer[c] = <<>> /\ toClient[c] = <<>> /\ cpc'[c] = "prompt"
  BY <1>1 DEF Polite, OnTheWires, ClientsTyped
<1>6. OnTheWires'
  BY <1>1, <1>2, <1>4, <1>5, WiresKept
<1>7. AtHandler' /\ InQueue' /\ AtWorkers' /\ refused' = {} /\ hpc' # "down"
  <2>1. \A req \in Requests : req.client = c => ~ Answered(req)
    BY <1>1, <1>5 DEF Answered
  <2> QED
    BY <2>1, <1>1, <1>2, WaitersKept
<1> QED
  BY <1>6, <1>7 DEF Polite

LEMMA SendLineIsPolite ==
  ASSUME Inv, ~rude, Polite, NEW c \in Clients, NEW cmd \in Typed, SendLine(c, cmd)
  PROVE  Polite'
<1>1. /\ ClientsTyped /\ cpc[c] = "prompt" /\ cpc' = [cpc EXCEPT ![c] = "recv"]
      /\ sent' = [sent EXCEPT ![c] = @ + 1] /\ lastCmd' = [lastCmd EXCEPT ![c] = cmd]
      /\ UNCHANGED <<backlog, toClient, refused, fdTable, handlerVars, poolVars>>
  BY DEF Inv, SendLine, Sent, ClientGoes
<1>2. toServer[c] = <<>> /\ toClient[c] = <<>> /\ Held(c)
  BY <1>1 DEF Polite, OnTheWires
<1>3. ServerHolds(c)
  BY <1>2 DEF Held, ServerHolds
<1>4. toServer' = [toServer EXCEPT ![c] = Append(@, [client |-> c, k |-> sent[c] + 1, cmd |-> cmd])]
  BY <1>3 DEF SendLine, Sent
<1>5. \A d \in Clients \ {c} : Same(d)
  BY <1>1, <1>4, OnlyOneMoves DEF ClientPlaces
<1>6. cpc'[c] = "recv" /\ sent'[c] = sent[c] + 1 /\ lastCmd'[c] = cmd /\ toClient'[c] = <<>>
  BY <1>1, <1>2 DEF ClientsTyped
<1>7. toServer'[c] = <<Latest(c)'>>
  <2>1. PICK req : req = [client |-> c, k |-> sent[c] + 1, cmd |-> cmd]
    OBVIOUS
  <2>2. toServer' = [toServer EXCEPT ![c] = Append(toServer[c], req)]
    BY <1>4, <2>1, Zenon
  <2>3. toServer'[c] = Append(toServer[c], req)
    BY <1>1, <2>2, Zenon DEF ClientsTyped
  <2>4. Latest(c)' = req
    BY <1>6, <2>1 DEF Latest
  <2>5. Append(<<>>, req) = <<req>>
    OBVIOUS
  <2> QED
    BY <1>2, <2>3, <2>4, <2>5
<1>8. \A d \in Clients : Held(d) => Held(d)'
  BY <1>1 DEF Held
<1>9. OnTheWires'
  BY <1>1, <1>2, <1>5, <1>6, <1>7, <1>8, WiresKept
<1>10. AtHandler' /\ InQueue' /\ AtWorkers' /\ refused' = {} /\ hpc' # "down"
  <2>1. \A req \in Requests : req.client = c => ~ Answered(req)
    BY <1>1, <1>2 DEF Answered
  <2> QED
    BY <2>1, <1>1, <1>5, WaitersKept
<1> QED
  BY <1>9, <1>10 DEF Polite

LEMMA ReceiveResponseIsPolite ==
  ASSUME Inv, ~rude, Polite, NEW c \in Clients, ReceiveResponse(c)
  PROVE  Polite'
<1>1. /\ ClientsTyped /\ cpc[c] = "recv" /\ toClient[c] # <<>>
      /\ toClient' = [toClient EXCEPT ![c] = <<>>]
      /\ UNCHANGED <<sent, lastCmd, backlog, toServer, refused, fdTable, handlerVars, poolVars>>
  BY DEF Inv, ReceiveResponse
<1>2. PICK p \in {"closed", "prompt"} : /\ p = IF lastCmd[c] = "quit" THEN "closed" ELSE "prompt"
                                       /\ cpc' = [cpc EXCEPT ![c] = p]
  BY DEF ReceiveResponse
<1>3. \A d \in Clients \ {c} : Same(d)
  BY <1>1, <1>2, OnlyOneMoves DEF ClientPlaces
<1>4. toServer[c] = <<>> /\ toClient'[c] = <<>> /\ cpc'[c] = p /\ (p = "prompt" => Held(c))
  BY <1>1, <1>2 DEF Polite, OnTheWires, ClientsTyped
<1>5. \A d \in Clients : Held(d) => Held(d)'
  BY <1>1 DEF Held
<1>6. OnTheWires'
  BY <1>1, <1>3, <1>4, <1>5, WiresKept
<1>7. AtHandler' /\ InQueue' /\ AtWorkers' /\ refused' = {} /\ hpc' # "down"
  <2>1. ASSUME NEW req \in Requests, req.client = c, Answered(req)
        PROVE  Answered(req)'
    <3>1. lastCmd[c] = "quit" /\ req = Latest(c)
      BY <2>1 DEF Answered, Latest
    <3>2. p = "closed" /\ Latest(c)' = Latest(c)
      BY <3>1, <1>1, <1>2 DEF Latest
    <3> QED
      BY <2>1, <3>1, <3>2, <1>1, <1>4 DEF Answered
  <2> QED
    BY <2>1, <1>1, <1>3, WaitersKept
<1> QED
  BY <1>6, <1>7 DEF Polite

LEMMA InputEndsIsPolite ==
  ASSUME Inv, ~rude, Polite, NEW c \in Clients, InputEnds(c)
  PROVE  Polite'
<1>1. /\ ClientsTyped /\ cpc[c] = "prompt" /\ cpc' = [cpc EXCEPT ![c] = "closed"]
      /\ UNCHANGED <<sent, lastCmd, backlog, toServer, toClient, fdTable, handlerVars, poolVars>>
  BY DEF Inv, InputEnds, Leaves, ClientGoes
<1>2. toServer[c] = <<>> /\ toClient[c] = <<>> /\ cpc'[c] = "closed"
  BY <1>1 DEF Polite, OnTheWires, ClientsTyped
<1>3. refused' = refused
  BY <1>2 DEF InputEnds, Leaves
<1>4. \A d \in Clients \ {c} : Same(d)
  BY <1>1, OnlyOneMoves DEF ClientPlaces
<1>5. \A d \in Clients : Held(d) => Held(d)'
  BY <1>1 DEF Held
<1>6. OnTheWires'
  BY <1>1, <1>2, <1>4, <1>5, WiresKept
<1>7. AtHandler' /\ InQueue' /\ AtWorkers' /\ refused' = {} /\ hpc' # "down"
  <2>1. \A req \in Requests : req.client = c => ~ Answered(req)
    BY <1>1, <1>2 DEF Answered
  <2> QED
    BY <2>1, <1>1, <1>3, <1>4, WaitersKept
<1> QED
  BY <1>6, <1>7 DEF Polite

(* A polite client that waits does not see its connection closed, and none   *)
(* is killed: the other steps of the clients keep the invariant too.         *)
LEMMA ClientStepIsPolite ==
  ASSUME Inv, ~rude, Polite, NEW c \in Clients, ClientStep(c) \/ ClientDies(c)
  PROVE  Polite'
<1>1. ~ ClientDies(c)
  BY DEF ClientDies
<1>2. ~ ServerClosed(c)
  <2> SUFFICES ASSUME ServerClosed(c) PROVE FALSE
    OBVIOUS
  <2>1. cpc[c] = "recv" /\ toClient[c] = <<>> /\ ~ServerHolds(c)
    BY DEF ServerClosed, ClientGoes
  <2>2. Held(c)
    BY <2>1 DEF Polite, OnTheWires
  <2> QED
    BY <2>1, <2>2 DEF Held, ServerHolds
<1> QED
  BY <1>1, <1>2, ConnectIsPolite, SendLineIsPolite, ReceiveResponseIsPolite, InputEndsIsPolite DEF ClientStep

-------------------------------------------------------------------------------
(* Where the clients and their wires stay as they are, what waits goes on to. *)
LEMMA WaitersStay ==
  ASSUME UNCHANGED <<cpc, sent, lastCmd, wireVars>>
  PROVE  \A req : (Waits(req)' = Waits(req)) /\ (Answered(req)' = Answered(req))
BY DEF wireVars, Waits, Answered, Latest

(* Where no client's connection goes but that of one that has left, or has   *)
(* been sent the response to quit, the wires stay right.                     *)
LEMMA WiresStay ==
  ASSUME Polite, UNCHANGED <<cpc, sent, lastCmd, wireVars>>,
         \A c \in Clients : Held(c) => \/ Held(c)' \/ cpc[c] = "closed"
                                       \/ cpc[c] = "recv" /\ toClient[c] # <<>> /\ lastCmd[c] = "quit"
  PROVE  OnTheWires' /\ refused' = {}
<1>1. \A c \in Clients : Latest(c)' = Latest(c)
  BY DEF Latest
<1> QED
  BY <1>1 DEF Polite, OnTheWires, wireVars

LEMMA AcceptIsPolite ==
  ASSUME Inv, ~rude, Polite, Accept
  PROVE  Polite'
<1>1. PICK fd \in Fds : fd = LowestFree /\ fdTable[fd] = NoClient
  BY NextDescriptor DEF Accept
<1>2. PICK c \in Clients : c = Head(backlog)
  BY QueueShrinks DEF Accept, Inv, ClientsTyped
<1>3. /\ fdTable' = [fdTable EXCEPT ![fd] = c] /\ backlog' = Tail(backlog) /\ backlog # <<>>
      /\ hpc = "none" /\ hpc' = "loop" /\ hfd' = fd
      /\ UNCHANGED <<cpc, sent, lastCmd, wireVars, hconn, request, tasks, task>>
  BY <1>1, <1>2 DEF Accept, poolVars
<1>4. /\ fdTable'[fd] = c /\ \A g \in Fds \ {fd} : fdTable'[g] = fdTable[g]
      /\ ServerTyped /\ NoClient \notin Clients
  BY <1>3, ConstantsApart DEF Inv, ServerTyped, ClientsTyped
<1>5. ToSet(backlog') = ToSet(backlog) \ {c}
  BY <1>2, <1>3, OneLessWaits DEF Inv, ClientsTyped, OneConnection
<1>6. \A d \in Clients : Held(d) => Held(d)'
  BY <1>1, <1>4, <1>5 DEF Held
<1>7. /\ \A i \in DOMAIN tasks : tasks[i] \in Taken
      /\ \A w \in Workers : task[w] # NoTask => task[w] \in Taken
  BY <1>4, TasksTyped
<1>8. /\ \A i \in DOMAIN tasks : tasks[i].fd \in Fds /\ fdTable[tasks[i].fd] \in Clients
      /\ \A w \in Workers : task[w] # NoTask => task[w].fd \in Fds /\ fdTable[task[w].fd] \in Clients
  BY <1>7 DEF Polite, InQueue, AtWorkers, Taken, Requests
<1>9. /\ \A i \in DOMAIN tasks : tasks[i].fd # fd /\ fdTable'[tasks[i].fd] = fdTable[tasks[i].fd]
      /\ \A w \in Workers : task[w] # NoTask => task[w].fd # fd /\ fdTable'[task[w].fd] = fdTable[task[w].fd]
  BY <1>1, <1>4, <1>8
<1>10. OnTheWires' /\ refused' = {}
  BY <1>3, <1>6, WiresStay
<1>11. AtHandler'
  BY <1>3, <1>4, <1>9 DEF AtHandler
<1>12. InQueue' /\ AtWorkers'
  BY <1>3, <1>9, WaitersStay DEF Polite, InQueue, AtWorkers
<1> QED
  BY <1>3, <1>10, <1>11, <1>12 DEF Polite

LEMMA CallsRecvIsPolite ==
  ASSUME Inv, ~rude, Polite, HandlerCallsRecv
  PROVE  Polite'
<1>1. hpc = "loop" /\ fdTable[hfd] # NoClient
  BY DEF HandlerCallsRecv, Polite, AtHandler, Active
<1>2. /\ hpc' = "recv" /\ hconn' = fdTable[hfd]
      /\ UNCHANGED <<cpc, sent, lastCmd, backlog, wireVars, fdTable, hfd, request, tasks, task>>
  BY <1>1 DEF HandlerCallsRecv, clientVars, poolVars
<1>3. OnTheWires' /\ refused' = {}
  BY <1>2, WiresStay DEF Held
<1>4. AtHandler'
  BY <1>1, <1>2 DEF Polite, AtHandler, Active, Quits
<1>5. InQueue' /\ AtWorkers'
  BY <1>2, WaitersStay DEF Polite, InQueue, AtWorkers
<1> QED
  BY <1>2, <1>3, <1>4, <1>5 DEF Polite

(* The one request of the client becomes the handler's, as it is. *)
LEMMA ReceivesIsPolite ==
  ASSUME Inv, ~rude, Polite, HandlerReceives
  PROVE  Polite'
<1>1. PICK c \in Clients : c = hconn
  BY DEF HandlerReceives, Inv, ServerTyped
<1>2. /\ hpc = "recv" /\ toServer[c] # <<>> /\ toServer' = [toServer EXCEPT ![c] = <<>>] /\ ClientsTyped
      /\ fdTable[hfd] = c
      /\ UNCHANGED <<cpc, sent, lastCmd, backlog, toClient, refused, fdTable, hfd, tasks, task>>
  BY <1>1 DEF HandlerReceives, clientVars, poolVars, Polite, AtHandler, Inv
<1>3. PICK req : req = Latest(c)
  OBVIOUS
<1>4. toServer[c] = <<req>> /\ cpc[c] = "recv" /\ toClient[c] = <<>>
  BY <1>2, <1>3 DEF Polite, OnTheWires
<1>5. toServer'[c] = <<>> /\ \A d \in Clients \ {c} : toServer'[d] = toServer[d]
  BY <1>2 DEF ClientsTyped
<1>6. req \in Requests /\ req.cmd # "blank" /\ req.client = c
  <2>1. <<req>> \in Seq(Requests)
    BY <1>2, <1>4, ZenonT(30) DEF ClientsTyped
  <2>2. req \in Requests
    BY <2>1, ElementOfSeq
  <2> QED
    BY <2>2, <1>2, <1>3, PoliteCommands DEF ClientsTyped, Latest
<1>7. hpc' = "enqueue" /\ request' = req
  <2> DEFINE worded == {i \in DOMAIN toServer[hconn] : toServer[hconn][i].cmd # "blank"}
  <2>1. DOMAIN <<req>> = {1} /\ <<req>>[1] = req
    OBVIOUS
  <2>2. toServer[hconn] = <<req>>
    BY <1>1, <1>4
  <2>3. worded = {1}
    BY <2>1, <2>2, <1>6
  <2>4. \E i \in worded : hpc' = "enqueue" /\ request' = Joined(toServer[hconn], worded, i)
    BY <2>3 DEF HandlerReceives
  <2>5. Joined(toServer[hconn], worded, 1) = req
    BY <2>1, <2>2, <2>3 DEF Joined
  <2> QED
    BY <2>3, <2>4, <2>5
<1>8. \A d \in Clients : toServer'[d] = <<>> \/ toServer'[d] = toServer[d]
  BY <1>5
<1>9. OnTheWires' /\ refused' = {}
  BY <1>2, <1>8 DEF Polite, OnTheWires, Held, Latest
<1>10. /\ \A r \in Requests : Waits(r) \/ Answered(r) => r.client # c
       /\ \A r \in Requests : (Waits(r) => Waits(r)') /\ (Answered(r) => Answered(r)')
  <2> SUFFICES ASSUME NEW r \in Requests
               PROVE  /\ Waits(r) \/ Answered(r) => r.client # c
                      /\ (Waits(r) => Waits(r)') /\ (Answered(r) => Answered(r)')
    BY Zenon
  <2>1. Waits(r) \/ Answered(r) => r.client # c
    BY <1>2 DEF Waits, Answered
  <2>2. r.client \in Clients
    BY DEF Requests
  <2> QED
    BY <2>1, <2>2, <1>2, <1>5 DEF Waits, Answered, Latest
<1>11. /\ \A i \in DOMAIN tasks : tasks[i].request \in Requests
       /\ \A w \in Workers : task[w] # NoTask => task[w].request \in Requests
  BY TasksTyped DEF Inv, Taken
<1>12. /\ \A i \in DOMAIN tasks : tasks[i].request.client # c
       /\ \A w \in Workers : task[w] # NoTask => task[w].request.client # c
  BY <1>10, <1>11 DEF Polite, InQueue, AtWorkers
<1>13. AtHandler'
  <2>1. Waits(req)'
    BY <1>2, <1>3, <1>4, <1>5, <1>6 DEF Waits, Latest
  <2>2. Waits(request)'
    BY <2>1, <1>7 DEF Waits, Latest
  <2> QED
    BY <2>2, <1>2, <1>6, <1>7, <1>12 DEF Polite, AtHandler, Active, Quits
<1>14. InQueue' /\ AtWorkers'
  BY <1>2, <1>10, <1>11 DEF Polite, InQueue, AtWorkers
<1> QED
  BY <1>7, <1>9, <1>13, <1>14 DEF Polite

LEMMA SeesEndIsPolite ==
  ASSUME Inv, ~rude, Polite, HandlerSeesEnd
  PROVE  Polite'
<1>1. /\ hpc = "recv" /\ hpc' = "close" /\ cpc[fdTable[hfd]] = "closed"
      /\ UNCHANGED <<cpc, sent, lastCmd, backlog, wireVars, fdTable, hfd, request, tasks, task>>
  BY DEF HandlerSeesEnd, clientVars, poolVars, Polite, AtHandler
<1>2. OnTheWires' /\ refused' = {}
  BY <1>1, WiresStay DEF Held
<1>3. AtHandler'
  BY <1>1 DEF Polite, AtHandler, Active, Quits
<1>4. InQueue' /\ AtWorkers'
  BY <1>1, WaitersStay DEF Polite, InQueue, AtWorkers
<1> QED
  BY <1>1, <1>2, <1>3, <1>4 DEF Polite

(* The handler closes the descriptor of a client that has left, for which no *)
(* task is on its way.                                                       *)
LEMMA ClosesIsPolite ==
  ASSUME Inv, ~rude, Polite, HandlerCloses
  PROVE  Polite'
<1>1. PICK fd \in Fds : fd = hfd
  BY DEF HandlerCloses, Inv, ServerTyped, Active
<1>2. PICK c \in Clients : c = fdTable[fd]
  BY <1>1 DEF HandlerCloses, Inv, ServerTyped, Polite, AtHandler, Active
<1>3. /\ hpc = "close" /\ hpc' = "none" /\ fdTable' = [fdTable EXCEPT ![fd] = NoClient] /\ cpc[c] = "closed"
      /\ UNCHANGED <<cpc, sent, lastCmd, backlog, wireVars, hfd, request, tasks, task>>
  BY <1>1, <1>2 DEF HandlerCloses, clientVars, poolVars, Polite, AtHandler
<1>4. /\ \A g \in Fds \ {fd} : fdTable'[g] = fdTable[g]
      /\ \A i \in DOMAIN tasks : tasks[i] \in Taken
      /\ \A w \in Workers : task[w] # NoTask => task[w] \in Taken
  BY <1>3, TasksTyped DEF Inv, ServerTyped
<1>5. \A d \in Clients \ {c} : Held(d) => Held(d)'
  BY <1>2, <1>3, <1>4 DEF Held
<1>6. OnTheWires' /\ refused' = {}
  BY <1>3, <1>5, WiresStay
<1>7. /\ \A i \in DOMAIN tasks : tasks[i].fd \in Fds \ {fd}
      /\ \A w \in Workers : task[w] # NoTask => task[w].fd \in Fds \ {fd}
  <2>1. ASSUME NEW i \in DOMAIN tasks
        PROVE  tasks[i].fd \in Fds \ {fd}
    BY <1>2, <1>3, <1>4 DEF Polite, InQueue, Waits, Taken
  <2>2. ASSUME NEW w \in Workers, task[w] # NoTask, task[w].fd = fd
        PROVE  FALSE
    <3>1. ~ Quits(task[w])
      BY <2>2, <1>1, <1>3 DEF Polite, AtHandler, Active
    <3>2. task[w].answered /\ Answered(task[w].request)
      BY <2>2, <1>2, <1>3 DEF Polite, AtWorkers, Waits
    <3> QED
      BY <3>1, <3>2 DEF Answered, Quits
  <2> QED
    BY <2>1, <2>2, <1>4 DEF Taken
<1>8. AtHandler'
  BY <1>3 DEF AtHandler, Active
<1>9. InQueue' /\ AtWorkers'
  BY <1>3, <1>4, <1>7, WaitersStay DEF Polite, InQueue, AtWorkers
<1> QED
  BY <1>3, <1>6, <1>8, <1>9 DEF Polite

LEMMA EnqueuesIsPolite ==
  ASSUME Inv, ~rude, Polite, HandlerEnqueues
  PROVE  Polite'
<1>1. PICK req \in Requests : req = request
  BY DEF HandlerEnqueues, Inv, ServerTyped
<1>2. PICK t : t = Task(hfd, req)
  OBVIOUS
<1>3. /\ hpc = "enqueue" /\ hpc' = (IF req.cmd = "quit" THEN "none" ELSE "loop") /\ request' = NoTask
      /\ tasks' = Append(tasks, t) /\ tasks \in Seq(Taken) /\ hfd \in Fds
      /\ UNCHANGED <<cpc, sent, lastCmd, backlog, wireVars, fdTable, hfd, task>>
  BY <1>1, <1>2 DEF HandlerEnqueues, LeavesAfter, enqueueTask, clientVars, Inv, ServerTyped, Active
<1>4. t \in Taken /\ t.fd = hfd /\ t.request = req /\ ~t.answered
  BY <1>2, <1>3 DEF Task, Taken
<1>5. /\ DOMAIN tasks' = DOMAIN tasks \cup {Len(tasks) + 1} /\ tasks'[Len(tasks) + 1] = t
      /\ \A i \in DOMAIN tasks : tasks'[i] = tasks[i]
      /\ Len(tasks) + 1 \notin DOMAIN tasks
  BY <1>3, <1>4, QueueGrows
<1>6. /\ fdTable[hfd] = req.client /\ Waits(req) /\ fdTable[hfd] # NoClient
      /\ \A i \in DOMAIN tasks : tasks[i].request.client # req.client
      /\ \A w \in Workers : task[w] # NoTask => task[w].request.client # req.client
      /\ \A i \in DOMAIN tasks : tasks[i].fd = hfd => ~Quits(tasks[i])
      /\ \A w \in Workers : task[w] # NoTask /\ task[w].fd = hfd => ~Quits(task[w])
  BY <1>1, <1>3 DEF Polite, AtHandler, Active
<1>7. OnTheWires' /\ refused' = {}
  BY <1>3, WiresStay DEF Held
<1>8. AtHandler'
  <2>1. req.cmd # "quit" => ~ Quits(t)
    BY <1>1, <1>4, PoliteCommands DEF Inv, ClientsTyped, Quits
  <2>2. ASSUME NEW i \in DOMAIN tasks', req.cmd # "quit", tasks'[i].fd = hfd
        PROVE  ~ Quits(tasks[i])'
    BY <2>1, <2>2, <1>5, <1>6 DEF Quits
  <2> QED
    BY <2>2, <1>3, <1>6 DEF AtHandler, Active, Quits
<1>9. InQueue'
  <2> SUFFICES ASSUME NEW i \in DOMAIN tasks'
               PROVE  /\ Waits(tasks[i].request)' /\ ~tasks'[i].answered
                      /\ fdTable[tasks'[i].fd] = tasks'[i].request.client
                      /\ \A j \in DOMAIN tasks' : tasks'[j].request.client = tasks'[i].request.client => i = j
                      /\ \A w \in Workers : task[w] # NoTask => task[w].request.client # tasks'[i].request.client
    BY <1>3 DEF InQueue
  <2>1. CASE i \in DOMAIN tasks
    <3>1. Waits(tasks[i].request)
      BY <2>1 DEF Polite, InQueue
    <3>2. Waits(tasks[i].request)'
      BY <3>1, <2>1, <1>3, <1>5 DEF Waits, Latest, wireVars
    <3> QED
      BY <3>2, <2>1, <1>4, <1>5, <1>6 DEF Polite, InQueue
  <2>2. CASE i = Len(tasks) + 1
    <3>1. Waits(tasks[i].request)'
      BY <2>2, <1>3, <1>4, <1>5, <1>6 DEF Waits, Latest, wireVars
    <3> QED
      BY <3>1, <2>2, <1>4, <1>5, <1>6
  <2> QED
    BY <2>1, <2>2, <1>5
<1>10. AtWorkers'
  BY <1>3, WaitersStay DEF Polite, AtWorkers
<1> QED
  BY <1>3, <1>7, <1>8, <1>9, <1>10 DEF Polite

(* A worker takes the first task over as it is. *)
LEMMA TakesIsPolite ==
  ASSUME Inv, ~rude, Polite, NEW w \in Workers, WorkerTakes(w)
  PROVE  Polite'
<1>1. PICK t : t = Head(tasks)
  OBVIOUS
<1>2. /\ task[w] = NoTask /\ task' = [task EXCEPT ![w] = t] /\ tasks' = Tail(tasks)
      /\ tasks # <<>> /\ tasks \in Seq(Taken)
      /\ UNCHANGED <<cpc, sent, lastCmd, backlog, wireVars, fdTable, hpc, hfd, hconn, request>>
  BY <1>1 DEF WorkerTakes, clientVars, handlerVars, Inv, ServerTyped
<1>3. /\ t \in Taken /\ 1 \in DOMAIN tasks /\ t = tasks[1] /\ NoTask \notin Taken
      /\ \A i \in DOMAIN tasks' : i \in Nat \ {0} /\ i + 1 \in DOMAIN tasks /\ tasks'[i] = tasks[i + 1]
  BY <1>1, <1>2, QueueShrinks, ConstantsApart DEF Inv, ClientsTyped
<1>4. task'[w] = t /\ \A v \in Workers \ {w} : task'[v] = task[v]
  BY <1>2 DEF Inv, ServerTyped
<1>5. \A i \in DOMAIN tasks' : i + 1 # 1 /\ \A j \in DOMAIN tasks' : i + 1 = j + 1 => i = j
  BY <1>3
<1>6. OnTheWires' /\ refused' = {}
  BY <1>2, WiresStay DEF Held
<1>7. AtHandler'
  <2>1. hpc \in Active =>
          /\ \A i \in DOMAIN tasks' : tasks'[i].fd = hfd => ~Quits(tasks[i])'
          /\ \A v \in Workers : task'[v] # NoTask /\ task'[v].fd = hfd => ~Quits(task[v])'
    BY <1>3, <1>4 DEF Polite, AtHandler, Quits
  <2>2. hpc = "enqueue" =>
          /\ \A i \in DOMAIN tasks' : tasks'[i].request.client # request.client
          /\ \A v \in Workers : task'[v] # NoTask => task'[v].request.client # request.client
    BY <1>3, <1>4 DEF Polite, AtHandler
  <2>3. hpc = "enqueue" => Waits(request)'
    BY <1>2 DEF Polite, AtHandler, Waits, Latest, wireVars
  <2> QED
    BY <2>1, <2>2, <2>3, <1>2 DEF Polite, AtHandler
<1>8. InQueue'
  <2> SUFFICES ASSUME NEW i \in DOMAIN tasks'
               PROVE  /\ Waits(tasks[i].request)' /\ ~tasks'[i].answered
                      /\ fdTable[tasks'[i].fd] = tasks'[i].request.client
                      /\ \A j \in DOMAIN tasks' : tasks'[j].request.client = tasks'[i].request.client => i = j
                      /\ \A v \in Workers : task'[v] # NoTask => task'[v].request.client # tasks'[i].request.client
    BY <1>2 DEF InQueue
  <2>1. i + 1 \in DOMAIN tasks /\ tasks'[i] = tasks[i + 1]
    BY <1>3
  <2>2. Waits(tasks[i + 1].request)
    BY <2>1 DEF Polite, InQueue
  <2>3. Waits(tasks[i].request)'
    BY <2>1, <2>2, <1>2 DEF Waits, Latest, wireVars
  <2>4. \A j \in DOMAIN tasks' : tasks'[j].request.client = tasks'[i].request.client => i = j
    BY <2>1, <1>3, <1>5 DEF Polite, InQueue
  <2>5. \A v \in Workers : task'[v] # NoTask => task'[v].request.client # tasks'[i].request.client
    BY <2>1, <1>3, <1>4, <1>5 DEF Polite, InQueue
  <2> QED
    BY <2>1, <2>3, <2>4, <2>5 DEF Polite, InQueue
<1>9. AtWorkers'
  <2> SUFFICES ASSUME NEW v \in Workers, task'[v] # NoTask
               PROVE  /\ IF task'[v].answered THEN Answered(task[v].request)' ELSE Waits(task[v].request)'
                      /\ fdTable[task'[v].fd] = task'[v].request.client
                      /\ \A u \in Workers : task'[u] # NoTask /\ task'[u].request.client = task'[v].request.client => u = v
    BY <1>2 DEF AtWorkers
  <2>1. CASE v = w
    <3>1. Waits(t.request) /\ ~t.answered /\ fdTable[t.fd] = t.request.client
      BY <1>3 DEF Polite, InQueue
    <3>2. Waits(task[v].request)'
      BY <3>1, <2>1, <1>2, <1>4 DEF Waits, Latest, wireVars
    <3> QED
      BY <3>1, <3>2, <2>1, <1>3, <1>4 DEF Polite, InQueue
  <2>2. CASE v # w
    <3>1. task'[v] = task[v] /\ task[v] # NoTask
      BY <2>2, <1>4
    <3>2. IF task'[v].answered THEN Answered(task[v].request)' ELSE Waits(task[v].request)'
      BY <3>1, <1>2 DEF Polite, AtWorkers, Waits, Answered, Latest, wireVars
    <3> QED
      BY <3>1, <3>2, <2>2, <1>3, <1>4 DEF Polite, AtWorkers, InQueue
  <2> QED
    BY <2>1, <2>2
<1> QED
  BY <1>2, <1>6, <1>7, <1>8, <1>9 DEF Polite

(* The response goes to the client whose request it is, which waits for it.  *)
LEMMA AnswersIsPolite ==
  ASSUME Inv, ~rude, Polite, NEW w \in Workers, WorkerAnswers(w)
  PROVE  Polite'
<1>1. PICK t \in Taken : t = task[w]
  BY TasksTyped DEF WorkerAnswers, Inv
<1>2. PICK c \in Clients : c = t.request.client
  BY <1>1 DEF Taken, Requests
<1>3. PICK res : res = [client |-> c, k |-> sent[c]]
  OBVIOUS
<1>4. PICK done : done = [task[w] EXCEPT !.answered = TRUE]
  OBVIOUS
<1>5. /\ t # NoTask /\ ~t.answered /\ Waits(t.request) /\ fdTable[t.fd] = c /\ ClientsTyped /\ ServerTyped
      /\ NoTask \notin Taken /\ NoClient \notin Clients
  BY <1>1, <1>2, ConstantsApart DEF WorkerAnswers, Polite, AtWorkers, Inv, ClientsTyped
<1>6. cpc[c] = "recv" /\ toServer[c] = <<>> /\ toClient[c] = <<>> /\ t.request = Latest(c) /\ Held(c)
  BY <1>2, <1>5 DEF Waits, Polite, OnTheWires
<1>7. /\ task' = [task EXCEPT ![w] = IF Quits(t) THEN done ELSE NoTask]
      /\ UNCHANGED <<cpc, sent, lastCmd, backlog, toServer, fdTable, hpc, hfd, hconn, request, tasks>>
  BY <1>1, <1>4 DEF WorkerAnswers, Responded, clientVars, handlerVars
<1>8. done \in Taken /\ done.fd = t.fd /\ done.request = t.request /\ done.answered
  BY <1>1, <1>4, <1>5, TaskAnswered, SMTT(30)
<1>9. toClient' = [toClient EXCEPT ![c] = Append(@, res)] /\ refused' = refused
  <2>1. t.request.k = sent[c]
    BY <1>6 DEF Latest
  <2> QED
    BY <2>1, <1>1, <1>2, <1>3, <1>5, <1>6 DEF WorkerAnswers, Responds
<1>10. toClient'[c] = <<res>> /\ \A d \in Clients \ {c} : toClient'[d] = toClient[d]
  <2>1. toClient'[c] = Append(toClient[c], res)
    BY <1>5, <1>9, Zenon DEF ClientsTyped
  <2>2. Append(<<>>, res) = <<res>>
    OBVIOUS
  <2>3. \A d \in Clients \ {c} : toClient'[d] = toClient[d]
    BY <1>5, <1>9 DEF ClientsTyped
  <2> QED
    BY <2>1, <2>2, <2>3, <1>6
<1>11. task'[w] = (IF Quits(t) THEN done ELSE NoTask) /\ \A v \in Workers \ {w} : task'[v] = task[v]
  BY <1>5, <1>7 DEF ServerTyped
<1>12. \A d \in Clients \ {c} : Same(d)
  BY <1>7, <1>10 DEF Same
<1>13. OnTheWires'
  <2>1. /\ toServer'[c] = <<>> /\ toClient'[c] = <<[client |-> c, k |-> sent'[c]]>> /\ cpc'[c] = "recv"
        /\ Held(c)' /\ \A d \in Clients : Held(d) => Held(d)'
    BY <1>3, <1>6, <1>7, <1>10 DEF Held
  <2> QED
    BY <2>1, <1>12, WiresKept
<1>14. ASSUME NEW req \in Requests, req.client # c
       PROVE  Waits(req)' = Waits(req) /\ Answered(req)' = Answered(req)
  <2>1. req.client \in Clients
    BY DEF Requests
  <2> QED
    BY <2>1, <1>12, <1>14, SameWaits
<1>15. /\ \A i \in DOMAIN tasks : tasks[i].request \in Requests /\ tasks[i].request.client # c
       /\ \A v \in Workers \ {w} : task[v] # NoTask => task[v].request \in Requests /\ task[v].request.client # c
       /\ hpc = "enqueue" => request \in Requests /\ request.client # c
  <2>1. /\ \A i \in DOMAIN tasks : tasks[i].request \in Requests
        /\ \A v \in Workers : task[v] # NoTask => task[v].request \in Requests
        /\ hpc = "enqueue" => request \in Requests
    BY <1>5, TasksTyped DEF Taken, ServerTyped
  <2> QED
    BY <2>1, <1>1, <1>2, <1>5 DEF Polite, InQueue, AtWorkers, AtHandler
<1>16. AtHandler'
  <2>1. hpc \in Active =>
          /\ \A i \in DOMAIN tasks : tasks[i].fd = hfd => ~Quits(tasks[i])'
          /\ \A v \in Workers : task'[v] # NoTask /\ task'[v].fd = hfd => ~Quits(task[v])'
    BY <1>1, <1>5, <1>7, <1>8, <1>11 DEF Polite, AtHandler, Quits
  <2>2. hpc = "enqueue" => \A v \in Workers : task'[v] # NoTask => task'[v].request.client # request.client
    BY <1>2, <1>8, <1>11, <1>15 DEF Polite, AtHandler
  <2>3. PICK req : req = request
    OBVIOUS
  <2>4. hpc = "enqueue" => Waits(req)'
    BY <2>3, <1>14, <1>15 DEF Polite, AtHandler
  <2>5. hpc = "enqueue" => Waits(request)'
    BY <2>3, <2>4, <1>7 DEF Waits, Latest
  <2> QED
    BY <2>1, <2>2, <2>5, <1>7 DEF Polite, AtHandler
<1>17. InQueue'
  <2> SUFFICES ASSUME NEW i \in DOMAIN tasks
               PROVE  /\ Waits(tasks[i].request)'
                      /\ \A v \in Workers : task'[v] # NoTask => task'[v].request.client # tasks[i].request.client
    BY <1>7 DEF Polite, InQueue
  <2>1. PICK req \in Requests : req = tasks[i].request /\ req.client # c
    BY <1>15
  <2>2. Waits(req)'
    BY <2>1, <1>14 DEF Polite, InQueue
  <2>3. Waits(tasks[i].request)'
    BY <2>1, <2>2, <1>7 DEF Waits, Latest
  <2> QED
    BY <2>1, <2>3, <1>2, <1>8, <1>11 DEF Polite, InQueue
<1>18. AtWorkers'
  <2> SUFFICES ASSUME NEW v \in Workers, task'[v] # NoTask
               PROVE  /\ IF task'[v].answered THEN Answered(task[v].request)' ELSE Waits(task[v].request)'
                      /\ fdTable[task'[v].fd] = task'[v].request.client
                      /\ \A u \in Workers : task'[u] # NoTask /\ task'[u].request.client = task'[v].request.client => u = v
    BY <1>7 DEF AtWorkers
  <2>1. CASE v = w
    <3>1. task'[v] = done /\ Quits(t)
      BY <2>1, <1>11
    <3>2. t.request.cmd = "quit"
      BY <3>1, <1>5, PoliteCommands DEF Quits, Taken, ClientsTyped
    <3>3. Answered(done.request)'
      BY <3>2, <1>2, <1>6, <1>7, <1>8, <1>10 DEF Answered, Latest
    <3>4. Answered(task[v].request)'
      BY <3>1, <3>3 DEF Answered, Latest
    <3> QED
      BY <3>1, <3>4, <2>1, <1>2, <1>5, <1>8, <1>11, <1>15
  <2>2. CASE v # w
    <3>1. task'[v] = task[v] /\ task[v] # NoTask
      BY <2>2, <1>11
    <3>2. PICK req \in Requests : req = task[v].request /\ req.client # c
      BY <3>1, <2>2, <1>15
    <3>3. IF task[v].answered THEN Answered(req)' ELSE Waits(req)'
      BY <3>1, <3>2, <1>14 DEF Polite, AtWorkers
    <3>4. IF task'[v].answered THEN Answered(task[v].request)' ELSE Waits(task[v].request)'
      BY <3>1, <3>2, <3>3 DEF Waits, Answered, Latest
    <3> QED
      BY <3>1, <3>2, <3>4, <2>2, <1>2, <1>8, <1>11 DEF Polite, AtWorkers
  <2> QED
    BY <2>1, <2>2
<1> QED
  BY <1>7, <1>9, <1>13, <1>16, <1>17, <1>18 DEF Polite

(* The worker that closes is the last to use the descriptor. *)
LEMMA WorkerClosesIsPolite ==
  ASSUME Inv, ~rude, Polite, NEW w \in Workers, WorkerCloses(w)
  PROVE  Polite'
<1>1. PICK t \in Taken : t = task[w]
  BY TasksTyped DEF WorkerCloses, Inv
<1>2. PICK c \in Clients : c = t.request.client
  BY <1>1 DEF Taken, Requests
<1>3. PICK fd \in Fds : fd = t.fd
  BY DEF Taken
<1>4. /\ fdTable' = [fdTable EXCEPT ![fd] = NoClient] /\ task' = [task EXCEPT ![w] = NoTask]
      /\ t # NoTask /\ t.answered
      /\ UNCHANGED <<cpc, sent, lastCmd, backlog, wireVars, hpc, hfd, hconn, request, tasks>>
  BY <1>1, <1>3 DEF WorkerCloses, clientVars, handlerVars
<1>5. fdTable[fd] = c /\ Answered(t.request) /\ ServerTyped /\ NoClient \notin Clients /\ ClientsTyped
  BY <1>1, <1>2, <1>3, <1>4, ConstantsApart DEF Polite, AtWorkers, Inv, ClientsTyped
<1>6. /\ t.request.cmd = "quit" /\ lastCmd[c] = "quit" /\ Quits(t)
      /\ cpc[c] = "closed" \/ (cpc[c] = "recv" /\ toClient[c] # <<>>)
  BY <1>2, <1>5 DEF Answered, Latest, Quits
<1>7. \A g \in Fds \ {fd} : fdTable'[g] = fdTable[g]
  BY <1>4, <1>5 DEF ServerTyped
<1>8. task'[w] = NoTask /\ \A v \in Workers \ {w} : task'[v] = task[v]
  BY <1>4, <1>5 DEF ServerTyped
<1>9. \A d \in Clients \ {c} : Held(d) => Held(d)'
  BY <1>4, <1>5, <1>7 DEF Held
<1>10. OnTheWires' /\ refused' = {}
  BY <1>4, <1>6, <1>9, WiresStay
<1>11. /\ \A i \in DOMAIN tasks : tasks[i].fd \in Fds \ {fd}
       /\ \A v \in Workers \ {w} : task[v] # NoTask => task[v].fd \in Fds \ {fd}
       /\ hpc \in Active => hfd \in Fds \ {fd}
  <2>1. /\ \A i \in DOMAIN tasks : tasks[i].fd \in Fds
        /\ \A v \in Workers : task[v] # NoTask => task[v].fd \in Fds
    BY <1>5, TasksTyped DEF Taken
  <2>2. \A i \in DOMAIN tasks : tasks[i].fd # fd
    BY <1>1, <1>2, <1>4, <1>5 DEF Polite, InQueue
  <2>3. \A v \in Workers \ {w} : task[v] # NoTask => task[v].fd # fd
    BY <1>1, <1>2, <1>4, <1>5 DEF Polite, AtWorkers
  <2>4. hpc \in Active => hfd \in Fds \ {fd}
    BY <1>1, <1>3, <1>4, <1>5, <1>6 DEF Polite, AtHandler, ServerTyped
  <2> QED
    BY <2>1, <2>2, <2>3, <2>4
<1>12. AtHandler'
  <2>1. hpc \in Active => fdTable'[hfd] = fdTable[hfd]
    BY <1>7, <1>11
  <2>2. hpc = "enqueue" => Waits(request)'
    BY <1>4 DEF Polite, AtHandler, Waits, Latest, wireVars
  <2> QED
    BY <2>1, <2>2, <1>4, <1>8 DEF Polite, AtHandler, Active, Quits
<1>13. InQueue'
  BY <1>4, <1>7, <1>8, <1>11, WaitersStay DEF Polite, InQueue
<1>14. AtWorkers'
  <2> SUFFICES ASSUME NEW v \in Workers, task'[v] # NoTask
               PROVE  /\ IF task'[v].answered THEN Answered(task[v].request)' ELSE Waits(task[v].request)'
                      /\ fdTable'[task'[v].fd] = task'[v].request.client
                      /\ \A u \in Workers : task'[u] # NoTask /\ task'[u].request.client = task'[v].request.client => u = v
    BY DEF AtWorkers
  <2>1. v # w /\ task'[v] = task[v] /\ fdTable'[task[v].fd] = fdTable[task[v].fd]
    BY <1>7, <1>8, <1>11
  <2>2. IF task'[v].answered THEN Answered(task[v].request)' ELSE Waits(task[v].request)'
    BY <2>1, <1>4 DEF Polite, AtWorkers, Waits, Answered, Latest, wireVars
  <2> QED
    BY <2>1, <2>2, <1>8 DEF Polite, AtWorkers
<1> QED
  BY <1>4, <1>10, <1>12, <1>13, <1>14 DEF Polite

-------------------------------------------------------------------------------
(* While the clients are polite every step keeps what holds of them. *)
LEMMA PoliteKept ==
  ASSUME Inv, PoliteInv, [Next]_vars
  PROVE  PoliteInv'
<1> SUFFICES ASSUME ~rude PROVE Polite'
  BY MannersStay DEF PoliteInv
<1>1. Polite
  BY DEF PoliteInv
<1>2. ASSUME NEW c \in Clients, ClientStep(c) \/ ClientDies(c)
      PROVE  Polite'
  BY <1>1, <1>2, ClientStepIsPolite
<1>3. CASE Accept \/ HandlerStep
  BY <1>1, <1>3, AcceptIsPolite, CallsRecvIsPolite, ReceivesIsPolite, SeesEndIsPolite, ClosesIsPolite,
     EnqueuesIsPolite DEF HandlerStep
<1>4. ASSUME NEW w \in Workers, WorkerStep(w)
      PROVE  Polite'
  <2>1. ~ BrokenPipe(w)
    BY <1>1 DEF BrokenPipe, Polite
  <2> QED
    BY <2>1, <1>1, <1>4, TakesIsPolite, AnswersIsPolite, WorkerClosesIsPolite DEF WorkerStep
<1>5. CASE Idle \/ UNCHANGED vars
  <2>1. UNCHANGED <<cpc, sent, lastCmd, wireVars, backlog, fdTable, hpc, hfd, hconn, request, tasks, task>>
    BY <1>5 DEF Idle, vars, clientVars, handlerVars, poolVars
  <2>2. OnTheWires' /\ refused' = {}
    BY <2>1, <1>1, WiresStay DEF Held
  <2>3. AtHandler' /\ InQueue' /\ AtWorkers'
    BY <2>1, <1>1, WaitersStay DEF Polite, AtHandler, InQueue, AtWorkers, Active, Quits
  <2> QED
    BY <2>1, <2>2, <2>3, <1>1 DEF Polite
<1> QED
  BY <1>2, <1>3, <1>4, <1>5 DEF Next

(* While the clients are polite, each has one request at most under way,     *)
(* and the task that carries it names the descriptor of its connection.      *)
THEOREM PoliteInvariant == Spec => [](Inv /\ PoliteInv)
<1>1. Init => PoliteInv
  <2> SUFFICES ASSUME Init PROVE Polite
    BY DEF PoliteInv
  <2>1. DOMAIN tasks = {}
    BY DEF Init
  <2> QED
    BY <2>1 DEF Init, Polite, OnTheWires, AtHandler, InQueue, AtWorkers, Active
<1>2. Inv /\ PoliteInv /\ [Next]_vars => PoliteInv'
  BY PoliteKept
<1> QED
  BY <1>1, <1>2, ServerInvariant, PTL DEF Spec

(* A polite client only gets the response to the request it waits for,       *)
(* although the workers close descriptors that accept returns again.         *)
THEOREM PoliteGetOwnResponseHolds == Spec => []PoliteGetOwnResponse
<1>1. PoliteInv => PoliteGetOwnResponse
  <2> SUFFICES ASSUME PoliteInv, ~rude, NEW c \in Clients, NEW j \in DOMAIN toClient[c]
               PROVE  toClient[c][j] = [client |-> c, k |-> sent[c]] /\ j = 1
    BY DEF PoliteGetOwnResponse, ResponseIsToOwnRequest
  <2>1. PICK res : res = [client |-> c, k |-> sent[c]]
    OBVIOUS
  <2>2. toClient[c] \in {<<>>, <<res>>}
    BY <2>1 DEF PoliteInv, Polite, OnTheWires
  <2>3. DOMAIN <<res>> = {1} /\ <<res>>[1] = res /\ DOMAIN <<>> = {}
    OBVIOUS
  <2>4. toClient[c] = <<res>> /\ j = 1
    BY <2>2, <2>3
  <2> QED
    BY <2>1, <2>3, <2>4
<1> QED
  BY <1>1, PoliteInvariant, PTL

(* Polite clients never take the server down: nothing is sent to one that    *)
(* has left, so its system refuses nothing and no send raises SIGPIPE.       *)
THEOREM PoliteKeepServerUpHolds == Spec => []PoliteKeepServerUp
<1>1. PoliteInv => PoliteKeepServerUp
  BY DEF PoliteInv, Polite, PoliteKeepServerUp
<1> QED
  BY <1>1, PoliteInvariant, PTL

================================================================================
