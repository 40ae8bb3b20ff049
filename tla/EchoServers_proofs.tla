-------------------------- MODULE EchoServers_proofs --------------------------
(***************************************************************************)
(* Proofs about EchoServers, for any number of clients, lines, descriptors *)
(* and faults of the network: what a process or a thread works on is its   *)
(* own, no zombie is forgotten, and every echo goes to whose line it is.   *)
(***************************************************************************)
EXTENDS EchoServers, Operators_proofs

MaybeClient == Clients \cup {NoClient}
MaybeFd     == Fds \cup {Thread!NoFd}

ClientPlaces == {"start", "prompt", "recv", "closed", "connect", "poll", "reset"}
ThreadPlaces == {"none", "start", "recv", "blocked", "send", "close", "failed", "ended"}
Working      == {"recv", "blocked", "send", "close"}

WireTyped ==
  /\ cpc \in [Clients -> ClientPlaces] /\ lines \in Nat
  /\ requests \in [Clients -> Nat] /\ responses \in [Clients -> Seq(MaybeClient)]
  /\ refused \subseteq Clients /\ backlog \in Seq(Clients)

ForkTyped ==
  /\ spc \in {"off", "accept", "fork", "close", "down"}
  /\ spc \in {"fork", "close"} => newfd \in Clients
  /\ child \in [Clients -> {"none", "start", "recv", "send", "zombie", "reaped"}]
  /\ holds \in [Clients \cup {"server"} -> SUBSET Clients]
  /\ pending \in BOOLEAN /\ handling \in BOOLEAN

LoopTyped ==
  /\ lpc \in {"off", "accept", "recv", "send", "down"}
  /\ lpc \in {"recv", "send"} => served \in Clients

ThreadTyped ==
  /\ mpc \in {"off", "accept", "create", "down"}
  /\ table \in [Fds -> MaybeClient]
  /\ buf \in [newfd : MaybeFd, cin : MaybeClient]
  /\ threadFd \in [Clients -> MaybeFd]
  /\ tpc \in [Clients -> ThreadPlaces]
  /\ blocked \in [Clients -> MaybeClient] /\ threadBuf \in [Clients -> MaybeClient]
  /\ raced \in BOOLEAN

Typed == WireTyped /\ ForkTyped /\ LoopTyped /\ ThreadTyped

(* One TCP server at most is started; what belongs to the others stays as it was. *)
OneServer ==
  /\ spc = "off" \/ (lpc = "off" /\ mpc = "off")
  /\ lpc = "off" \/ mpc = "off"
  /\ spc = "off" => \A c \in Clients : child[c] = "none"
  /\ mpc = "off" => \A c \in Clients : tpc[c] = "none"

(* Client c has not been accepted, or has not even connected. *)
Fresh(c) == c \in ToSet(backlog) \/ cpc[c] \in {"start", "connect"}

(* The backlog has nobody twice, and nobody who has been accepted. *)
FreshAreNew ==
  /\ IsInjective(backlog)
  /\ \A c \in ToSet(backlog) : cpc[c] \notin {"start", "connect"}
  /\ spc \in {"fork", "close"} => ~Fresh(newfd)
  /\ lpc \in {"recv", "send"} => ~Fresh(served)
  /\ \A c \in Clients : Fresh(c) =>
       /\ child[c] = "none" /\ tpc[c] = (IF mpc = "down" THEN "ended" ELSE "none")
       /\ \A f \in Fds : table[f] # c

(* A process has its own connection open as long as it runs, and no other. *)
OwnConnection ==
  /\ \A c \in Clients : holds[c] = IF child[c] \in {"start", "recv", "send"} THEN {c} ELSE {}
  /\ holds["server"] = IF spc \in {"fork", "close"} THEN {newfd} ELSE {}
  /\ spc = "fork" => child[newfd] = "none"

NoZombieForgotten ==
  /\ ZombiesAreNoticed
  /\ spc = "down" => ~pending /\ ~handling /\ \A c \in Clients : child[c] # "zombie"

(* The connection that main has accepted has one descriptor. *)
OneDescriptor ==
  /\ \A f, g \in Fds : table[f] # NoClient /\ table[f] = table[g] => f = g
  /\ mpc = "create" =>
       /\ buf.newfd \in Fds /\ buf.cin \in Clients /\ ~Fresh(buf.cin)
       /\ tpc[buf.cin] = "none"
  /\ mpc = "down" => \A t \in Clients : tpc[t] = "ended"
  /\ \A t \in Clients : /\ tpc[t] = "start" => buf.newfd \in Fds
                        /\ tpc[t] \in Working => threadFd[t] \in Fds
                        /\ tpc[t] = "blocked" <=> blocked[t] \in Clients

(* As long as no thread has read the descriptor of another. *)
Apart ==
  ~raced =>
    /\ ThreadsKeepApart
    /\ mpc = "create" => table[buf.newfd] = buf.cin
    /\ \A t \in Clients : /\ tpc[t] = "start" /\ buf.cin = t => table[buf.newfd] = t
                          /\ tpc[t] = "blocked" => blocked[t] = t
                          /\ tpc[t] = "send" => threadBuf[t] = t \/ t \in refused

Inv == /\ Typed /\ OneServer /\ FreshAreNew /\ OwnConnection /\ NoZombieForgotten
       /\ OneDescriptor /\ Apart

-------------------------------------------------------------------------------
(* The variables of the servers and of the network stay as they are. *)
ServersStay == UNCHANGED <<forkVars, loopVars, threadVars, udpVars>>

AnyClientStep(c) == \/ ClientStep(c, ListenerOpen, Connected(c))
                    \/ PollStep(c, ListenerOpen, Connected(c))

(* What a step of a client changes: its place, and what is on its wires; and  *)
(* it joins the backlog when it connects.                                     *)
Goes(c) ==
  /\ WireTyped' /\ refused \subseteq refused'
  /\ \E to \in ClientPlaces \ {"start", "connect"} : cpc' = [cpc EXCEPT ![c] = to]
  /\ \/ backlog' = backlog
     \/ backlog' = Append(backlog, c) /\ cpc[c] \in {"start", "connect"}

(* Every step of a client is one of these. *)
LEMMA ClientEffect ==
  ASSUME Inv, NEW c \in Clients, AnyClientStep(c)
  PROVE  Goes(c)
<1>1. WireTyped
  BY DEF Inv, Typed
<1>2. Append(backlog, c) \in Seq(Clients)
  BY <1>1, AppendProperties DEF WireTyped
<1>3. <<>> \in Seq(MaybeClient)
  BY EmptySeq
<1>4. [requests EXCEPT ![c] = @ + 1] \in [Clients -> Nat]
  BY <1>1 DEF WireTyped
<1>5. [responses EXCEPT ![c] = <<>>] \in [Clients -> Seq(MaybeClient)]
  BY <1>1, <1>3 DEF WireTyped
<1>6. cpc[c] \in ClientPlaces /\ [cpc EXCEPT ![c] = cpc[c]] = cpc
  BY <1>1 DEF WireTyped
<1> USE <1>1, <1>2, <1>4, <1>5, <1>6 DEF Goes, WireTyped, ClientPlaces, ClientGoes, clientVars, wireVars
<1>7. CASE Connect(c, ListenerOpen) \/ PollConnect(c, ListenerOpen)
  BY <1>7 DEF Connect, PollConnect
<1>8. CASE SendLine(c, Connected(c)) \/ PollSendLine(c, Connected(c))
  <2>1. /\ lines' \in Nat /\ requests' \in {requests, [requests EXCEPT ![c] = @ + 1]}
        /\ UNCHANGED <<responses, refused, backlog>>
    BY <1>8 DEF SendLine, PollSendLine
  <2>2. \E to \in {"recv", "poll"} : cpc' = [cpc EXCEPT ![c] = to]
    BY <1>8 DEF SendLine, PollSendLine
  <2> QED
    BY <2>1, <2>2
<1>9. CASE SendIsBroken(c, Connected(c)) \/ PollSendIsBroken(c)
  BY <1>9 DEF SendIsBroken, PollSendIsBroken
<1>10. CASE ReceiveResponse(c) \/ PollReceive(c)
  BY <1>10 DEF ReceiveResponse, PollReceive
<1>11. CASE ServerClosed(c, Connected(c)) \/ PollServerClosed(c, Connected(c))
  BY <1>11 DEF ServerClosed, PollServerClosed
<1>12. CASE ClientDies(c) \/ PollClientDies(c)
  BY <1>12 DEF ClientDies, PollClientDies
<1> QED
  BY <1>7, <1>8, <1>9, <1>10, <1>11, <1>12 DEF AnyClientStep, ClientStep, PollStep, PollReceives

(* A step of a client keeps Inv. *)
LEMMA ClientKeepsInv ==
  ASSUME Inv, NEW c \in Clients, AnyClientStep(c), ServersStay
  PROVE  Inv'
<1>1. Goes(c) /\ Inv
  BY ClientEffect
<1> USE DEF ServersStay, forkVars, loopVars, threadVars
<1>2. Typed'
  BY <1>1 DEF Inv, Goes, Typed, ForkTyped, LoopTyped, ThreadTyped
<1>3. OneServer'
  BY <1>1 DEF Inv, OneServer
<1>4. /\ IsInjective(backlog')
      /\ \A d \in Clients : (Fresh(d)' => Fresh(d))
      /\ \A d \in ToSet(backlog') : d \in Clients /\ cpc'[d] \notin {"start", "connect"}
  <2>1. PICK to \in ClientPlaces \ {"start", "connect"} : cpc' = [cpc EXCEPT ![c] = to]
    BY <1>1 DEF Goes
  <2>2. \A d \in Clients : cpc'[d] = IF d = c THEN to ELSE cpc[d]
    BY <1>1, <2>1 DEF Inv, Typed, WireTyped
  <2>3. \A d \in ToSet(backlog) : d \in Clients
    BY <1>1 DEF Inv, Typed, WireTyped, ToSet
  <2>4. CASE backlog' = backlog
    BY <1>1, <2>2, <2>3, <2>4 DEF Inv, FreshAreNew, Fresh
  <2>5. CASE backlog' = Append(backlog, c) /\ cpc[c] \in {"start", "connect"}
    <3>1. c \notin ToSet(backlog) /\ IsInjective(backlog) /\ backlog \in Seq(Clients)
      BY <1>1, <2>5 DEF Inv, FreshAreNew, Typed, WireTyped
    <3>2. IsInjective(backlog') /\ ToSet(backlog') = ToSet(backlog) \cup {c}
      BY <2>5, <3>1, OneMoreWaits
    <3>3. ToSet(backlog)' = ToSet(backlog) \cup {c}
      BY <3>2
    <3> QED
      BY <1>1, <2>2, <2>3, <2>5, <3>2, <3>3 DEF Inv, FreshAreNew, Fresh
  <2> QED
    BY <1>1, <2>4, <2>5 DEF Goes
<1>5. FreshAreNew'
  <2>1. /\ spc' \in {"fork", "close"} => ~Fresh(newfd)'
        /\ lpc' \in {"recv", "send"} => ~Fresh(served)'
    BY <1>1, <1>4 DEF Inv, FreshAreNew, Typed, ForkTyped, LoopTyped
  <2>2. \A d \in Clients : Fresh(d)' => /\ child[d] = "none"
                                        /\ tpc[d] = (IF mpc = "down" THEN "ended" ELSE "none")
                                        /\ \A f \in Fds : table[f] # d
    BY <1>1, <1>4 DEF Inv, FreshAreNew
  <2> QED
    BY <1>4, <2>1, <2>2 DEF FreshAreNew
<1>6. OwnConnection' /\ NoZombieForgotten'
  BY <1>1 DEF Inv, OwnConnection, NoZombieForgotten, ZombiesAreNoticed, Fork!ZombiesAreNoticed
<1>7. OneDescriptor'
  BY <1>1, <1>4 DEF Inv, OneDescriptor, Typed
<1>8. Apart'
  BY <1>1 DEF Inv, Apart, ThreadsKeepApart, Thread!ThreadsKeepApart, Goes
<1> QED
  BY <1>2, <1>3, <1>5, <1>6, <1>7, <1>8 DEF Inv

-------------------------------------------------------------------------------
(* A step of a server takes the first of the backlog or leaves it as it is:   *)
(* nobody becomes fresh.                                                      *)
LEMMA BacklogShrinks ==
  ASSUME Inv, cpc' = cpc,
         backlog' = backlog \/ (backlog # <<>> /\ backlog' = Tail(backlog))
  PROVE  /\ backlog' \in Seq(Clients) /\ IsInjective(backlog')
         /\ \A d \in Clients : Fresh(d)' => Fresh(d)
         /\ \A d \in ToSet(backlog)' : d \in Clients /\ cpc'[d] \notin {"start", "connect"}
<1>1. /\ backlog \in Seq(Clients) /\ IsInjective(backlog)
      /\ \A d \in ToSet(backlog) : d \in Clients /\ cpc[d] \notin {"start", "connect"}
  BY DEF Inv, Typed, WireTyped, FreshAreNew, ToSet
<1>2. CASE backlog' = backlog
  BY <1>1, <1>2 DEF Fresh
<1>3. CASE backlog # <<>> /\ backlog' = Tail(backlog)
  <2>1. /\ backlog' \in Seq(Clients) /\ IsInjective(backlog')
        /\ ToSet(backlog') = ToSet(backlog) \ {Head(backlog)}
    BY <1>1, <1>3, OneLessWaits
  <2>2. ToSet(backlog)' = ToSet(backlog) \ {Head(backlog)}
    BY <2>1
  <2> QED
    BY <1>1, <2>1, <2>2 DEF Fresh
<1> QED
  BY <1>2, <1>3

(* Whom accept takes was fresh and is not any more. *)
LEMMA Accepted ==
  ASSUME Inv, cpc' = cpc, NEW c, c = Head(backlog), backlog # <<>>, backlog' = Tail(backlog)
  PROVE  c \in Clients /\ Fresh(c) /\ ~Fresh(c)'
<1>1. /\ backlog \in Seq(Clients) /\ IsInjective(backlog)
      /\ \A d \in ToSet(backlog) : cpc[d] \notin {"start", "connect"}
  BY DEF Inv, Typed, WireTyped, FreshAreNew
<1>2. c \in Clients /\ c \in ToSet(backlog) /\ ToSet(backlog') = ToSet(backlog) \ {c}
  BY <1>1, OneLessWaits
<1>3. ToSet(backlog)' = ToSet(backlog) \ {c}
  BY <1>2
<1> QED
  BY <1>1, <1>2, <1>3 DEF Fresh

(* What a step of a server may do to the clients and their wires. *)
Serves ==
  /\ WireTyped' /\ cpc' = cpc /\ refused \subseteq refused'
  /\ backlog' = backlog \/ (backlog # <<>> /\ backlog' = Tail(backlog))

(* recv takes a request from the connection of c. *)
LEMMA RequestTaken ==
  ASSUME Inv, NEW c \in Clients, requests[c] > 0,
         requests' = [requests EXCEPT ![c] = @ - 1],
         UNCHANGED <<clientVars, responses, refused, backlog>>
  PROVE  Serves
BY DEF Serves, Inv, Typed, WireTyped, clientVars

(* An echo goes to c. *)
LEMMA EchoGoes ==
  ASSUME Inv, NEW c \in Clients, NEW d \in MaybeClient, Echo(c, d),
         UNCHANGED <<clientVars, requests, backlog>>
  PROVE  Serves
<1>1. Append(responses[c], d) \in Seq(MaybeClient)
  BY AppendProperties DEF Inv, Typed, WireTyped
<1> QED
  BY <1>1 DEF Serves, Inv, Typed, WireTyped, clientVars, Echo

(* accept takes the first of the backlog. *)
LEMMA FirstTaken ==
  ASSUME Inv, backlog # <<>>, backlog' = Tail(backlog), UNCHANGED <<clientVars, wireVars>>
  PROVE  Serves
<1>1. Tail(backlog) \in Seq(Clients)
  BY HeadTailProperties DEF Inv, Typed, WireTyped
<1> QED
  BY <1>1 DEF Serves, Inv, Typed, WireTyped, clientVars, wireVars

(* Nothing happens to the clients. *)
LEMMA NothingServed ==
  ASSUME Inv, UNCHANGED echoVars
  PROVE  Serves
BY DEF Serves, Inv, Typed, WireTyped, echoVars, clientVars, wireVars

(* The other servers do nothing. *)
OthersStay == UNCHANGED <<loopVars, threadVars, udpVars>>

(* What a step of the forking server does to the clients. *)
LEMMA ForkServes ==
  ASSUME Inv, Fork!ServerStep
  PROVE  Serves
<1> USE DEF Fork!clientVars, Fork!wireVars, Fork!signalVars, clientVars, wireVars, Fork!Echo, Echo
<1>1. CASE Fork!Accept
  BY <1>1, FirstTaken DEF Fork!Accept
<1>2. ASSUME NEW c \in Clients, Fork!ChildReceives(c)
      PROVE  Serves
  BY <1>2, RequestTaken DEF Fork!ChildReceives
<1>3. ASSUME NEW c \in Clients, Fork!ChildSends(c)
      PROVE  Serves
  BY <1>3, EchoGoes DEF Fork!ChildSends, MaybeClient
<1>4. CASE Fork!Fork \/ Fork!ServerCloses \/ Fork!ServerFails \/ Fork!HandlerStep
  BY <1>4, NothingServed DEF Fork!Fork, Fork!ServerCloses, Fork!ServerFails, Fork!HandlerStep,
     Fork!HandlerStarts, Fork!HandlerReaps, Fork!HandlerReturns, echoVars
<1>5. ASSUME NEW c \in Clients,
             \/ Fork!ChildClosesListener(c) \/ Fork!ChildFailsToReceive(c)
             \/ Fork!ChildExits(c) \/ Fork!ChildIsKilled(c)
      PROVE  Serves
  BY <1>5, NothingServed DEF Fork!ChildClosesListener, Fork!ChildFailsToReceive,
     Fork!ChildExits, Fork!ChildIsKilled, Fork!Ends, echoVars
<1> QED
  BY <1>1, <1>2, <1>3, <1>4, <1>5 DEF Fork!ServerStep, Fork!ChildStep, Fork!MainStep

(* A step of the forking server keeps Inv. *)
LEMMA ForkKeepsInv ==
  ASSUME Inv, Fork!ServerStep, OthersStay
  PROVE  Inv'
<1>1. Serves
  BY ForkServes
<1> USE DEF OthersStay, loopVars, threadVars, Fork!signalVars
<1> DEFINE Parts == /\ ForkTyped' /\ (spc' = "off" <=> spc = "off")
                    /\ OwnConnection' /\ NoZombieForgotten'
                    /\ spc = "off" => child' = child
                    /\ \A d \in Clients : Fresh(d) => child'[d] = "none"
                    /\ spc' \in {"fork", "close"} => ~Fresh(newfd)'
<1>0. /\ ForkTyped /\ OwnConnection /\ NoZombieForgotten
      /\ spc = "off" => \A d \in Clients : child[d] = "none"
      /\ \A d \in Clients : Fresh(d) => child[d] = "none"
      /\ spc \in {"fork", "close"} => ~Fresh(newfd)
      /\ \A d \in Clients : d # "server"
  BY EchoClientAssumption DEF Inv, Typed, OneServer, FreshAreNew
<1>2. Parts
  <2> USE <1>0 DEF ForkTyped, OwnConnection, NoZombieForgotten, ZombiesAreNoticed,
          Fork!ZombiesAreNoticed, Fork!ServerGoes
  <2>1. CASE Fork!Accept
    <3>1. cpc' = cpc /\ backlog # <<>> /\ backlog' = Tail(backlog) /\ newfd' = Head(backlog)
          /\ spc = "accept" /\ spc' = "fork" /\ UNCHANGED <<child, pending, handling>>
          /\ holds' = [holds EXCEPT !["server"] = @ \cup {newfd'}]
      BY <2>1 DEF Fork!Accept, Fork!clientVars
    <3>2. newfd' \in Clients /\ Fresh(newfd') /\ ~Fresh(newfd)'
      <4>1. PICK c : c = Head(backlog)
        OBVIOUS
      <4>2. c \in Clients /\ Fresh(c) /\ ~Fresh(c)'
        BY <3>1, <4>1, Accepted
      <4> QED
        BY <3>1, <4>1, <4>2 DEF Fresh
    <3>3. ForkTyped'
      BY <3>1, <3>2
    <3>4. holds' = [holds EXCEPT !["server"] = {newfd'}]
      BY <3>1
    <3>5. OwnConnection'
      BY <3>1, <3>2, <3>4
    <3> QED
      BY <3>1, <3>2, <3>3, <3>5
  <2>2. CASE Fork!Fork
    <3>1. /\ spc = "fork" /\ spc' = "close" /\ newfd \in Clients /\ newfd' = newfd
          /\ child' = [child EXCEPT ![newfd] = "start"]
          /\ holds' = [holds EXCEPT ![newfd] = {newfd}]
          /\ UNCHANGED <<cpc, backlog, pending, handling>>
      BY <2>2 DEF Fork!Fork, Fork!clientVars
    <3>2. ~Fresh(newfd)'
      BY <3>1 DEF Fresh
    <3> QED
      BY <3>1, <3>2
  <2>3. CASE Fork!ServerCloses
    BY <2>3, SMTT(30) DEF Fork!ServerCloses
  <2>4. CASE Fork!ServerFails
    BY <2>4 DEF Fork!ServerFails
  <2>5. CASE Fork!HandlerStep
    BY <2>5, ZenonT(60) DEF Fork!HandlerStep, Fork!HandlerStarts, Fork!HandlerReaps, Fork!HandlerReturns,
       Fork!clientVars, Fresh
  <2>6. ASSUME NEW c \in Clients, Fork!ChildStep(c)
        PROVE  Parts
    <3>1. /\ c # "server" /\ UNCHANGED <<spc, newfd, handling>> /\ child[c] # "none"
          /\ \E to \in {"recv", "send", "zombie", "reaped"} : child' = [child EXCEPT ![c] = to]
          /\ spc = "down" => child'[c] # "zombie"
          /\ \/ child[c] \in {"start", "recv", "send"} /\ child'[c] \in {"recv", "send"}
                /\ holds' = holds /\ pending' = pending
             \/ child'[c] \in {"zombie", "reaped"} /\ holds' = [holds EXCEPT ![c] = {}]
                /\ pending' \in BOOLEAN /\ (pending' <=> spc # "down")
      BY <2>6 DEF Fork!ChildStep, Fork!ChildGoes, Fork!ChildReceives, Fork!ChildSends,
         Fork!ChildClosesListener, Fork!ChildFailsToReceive, Fork!ChildExits,
         Fork!ChildIsKilled, Fork!Ends
    <3>2. Fresh(newfd)' => Fresh(newfd)
      BY <2>6, <3>1 DEF Fork!ChildStep, Fork!ChildReceives, Fork!ChildSends,
         Fork!ChildClosesListener, Fork!ChildFailsToReceive, Fork!ChildExits,
         Fork!ChildIsKilled, Fork!Ends, Fork!clientVars, Fresh
    <3>3. ForkTyped'
      BY <3>1
    <3>4. OwnConnection'
      BY <3>1
    <3>5. NoZombieForgotten'
      BY <3>1
    <3> QED
      BY <3>1, <3>2, <3>3, <3>4, <3>5
  <2> QED
    BY <2>1, <2>2, <2>3, <2>4, <2>5, <2>6 DEF Fork!ServerStep, Fork!MainStep
<1>3. Typed' /\ OneServer'
  BY <1>1, <1>2 DEF Inv, Serves, Typed, LoopTyped, ThreadTyped, OneServer
<1>4. FreshAreNew'
  BY <1>1, <1>2, <1>3, BacklogShrinks DEF Inv, FreshAreNew, Serves, Typed, LoopTyped
<1>5. OneDescriptor'
  BY <1>1, BacklogShrinks DEF Inv, OneDescriptor, Typed, Serves
<1>6. Apart'
  BY <1>1 DEF Inv, Apart, ThreadsKeepApart, Thread!ThreadsKeepApart, Serves
<1> QED
  BY <1>2, <1>3, <1>4, <1>5, <1>6 DEF Inv

(* What a step of a sequential server does to the clients. *)
LEMMA LoopServes ==
  ASSUME Inv, Loop!ServerStep
  PROVE  Serves
<1> USE DEF Loop!clientVars, Loop!wireVars, Loop!echoVars, echoVars, clientVars, wireVars,
            Loop!Echo, Echo, Loop!ServerGoes
<1>1. CASE Loop!Accept
  BY <1>1, FirstTaken DEF Loop!Accept
<1>2. lpc \in {"recv", "send"} => served \in Clients
  BY DEF Inv, Typed, LoopTyped
<1>3. CASE Loop!Receive
  BY <1>2, <1>3, RequestTaken DEF Loop!Receive
<1>4. CASE Loop!Send
  BY <1>2, <1>4, EchoGoes DEF Loop!Send, MaybeClient
<1>5. CASE Loop!ReceiveFails \/ Loop!PeerLeft \/ Loop!ServerFails
  BY <1>5, NothingServed DEF Loop!ReceiveFails, Loop!PeerLeft, Loop!ServerFails
<1> QED
  BY <1>1, <1>3, <1>4, <1>5 DEF Loop!ServerStep, Loop!Serve

(* A step of a sequential server keeps Inv. *)
LEMMA LoopKeepsInv ==
  ASSUME Inv, Loop!ServerStep, UNCHANGED <<forkVars, threadVars, udpVars>>
  PROVE  Inv'
<1>1. Serves
  BY LoopServes
<1>2. /\ LoopTyped' /\ (lpc' = "off" <=> lpc = "off")
      /\ lpc' \in {"recv", "send"} => ~Fresh(served)'
  <2> USE DEF Loop!ServerGoes, LoopTyped
  <2>1. LoopTyped /\ (lpc \in {"recv", "send"} => ~Fresh(served))
    BY DEF Inv, Typed, FreshAreNew
  <2>2. CASE Loop!Accept
    <3>1. PICK c : c = Head(backlog)
      OBVIOUS
    <3>2. cpc' = cpc /\ backlog # <<>> /\ backlog' = Tail(backlog) /\ served' = c
      BY <2>2, <3>1 DEF Loop!Accept, Loop!clientVars
    <3>3. c \in Clients /\ ~Fresh(c)'
      BY <3>1, <3>2, Accepted
    <3> QED
      BY <2>2, <3>2, <3>3 DEF Loop!Accept, Fresh
  <2>3. CASE Loop!Serve \/ Loop!ServerFails
    BY <2>1, <2>3 DEF Loop!Serve, Loop!Receive, Loop!ReceiveFails, Loop!Send, Loop!PeerLeft,
       Loop!ServerFails, Loop!echoVars, Loop!clientVars, Fresh
  <2> QED
    BY <2>2, <2>3 DEF Loop!ServerStep
<1> USE DEF forkVars, threadVars
<1>3. Typed' /\ OneServer'
  BY <1>1, <1>2 DEF Inv, Serves, Typed, ForkTyped, ThreadTyped, OneServer
<1>4. FreshAreNew'
  BY <1>1, <1>2, <1>3, BacklogShrinks DEF Inv, FreshAreNew, Serves, Typed, ForkTyped
<1>5. OwnConnection' /\ NoZombieForgotten'
  BY DEF Inv, OwnConnection, NoZombieForgotten, ZombiesAreNoticed, Fork!ZombiesAreNoticed
<1>6. OneDescriptor'
  BY <1>1, BacklogShrinks DEF Inv, OneDescriptor, Typed, Serves
<1>7. Apart'
  BY <1>1 DEF Inv, Apart, ThreadsKeepApart, Thread!ThreadsKeepApart, Serves
<1> QED
  BY <1>3, <1>4, <1>5, <1>6, <1>7 DEF Inv

(* accept takes a free descriptor. *)
LEMMA FreeIsTaken ==
  ASSUME Thread!Free # {}
  PROVE  Thread!Min(Thread!Free) \in Fds /\ table[Thread!Min(Thread!Free)] = NoClient
<1>1. Thread!Free \in SUBSET Nat
  BY EchoServersAssumption DEF Thread!Free, Thread!ThreadTcpAssumption
<1>2. \E x \in Thread!Free : \A y \in Thread!Free : x <= y
  BY <1>1, LeastOf
<1>3. Thread!Min(Thread!Free) \in Thread!Free
  BY <1>2 DEF Thread!Min
<1> QED
  BY <1>3 DEF Thread!Free

(* What a step of the threaded server does to the clients. *)
LEMMA ThreadServes ==
  ASSUME Inv, Thread!ServerStep
  PROVE  Serves
<1> USE DEF Thread!clientVars, Thread!wireVars, Thread!echoVars, echoVars, clientVars, wireVars,
            Thread!Echo, Echo
<1>1. CASE Thread!Accept
  BY <1>1, FirstTaken DEF Thread!Accept
<1>2. ASSUME NEW t \in Clients, Thread!Receive(t)
      PROVE  Serves
  <2>1. blocked[t] \in Clients
    BY <1>2 DEF Thread!Receive, Inv, OneDescriptor
  <2> QED
    BY <1>2, <2>1, RequestTaken DEF Thread!Receive
<1>3. ASSUME NEW t \in Clients, Thread!Send(t)
      PROVE  Serves
  <2>1. threadFd[t] \in Fds /\ threadBuf[t] \in MaybeClient
    BY <1>3 DEF Thread!Send, Inv, OneDescriptor, Working, Typed, ThreadTyped
  <2>2. Thread!Peer(t) \in Clients
    BY <1>3, <2>1 DEF Thread!Send, Thread!Peer, Inv, Typed, ThreadTyped, MaybeClient
  <2> QED
    BY <1>3, <2>1, <2>2, EchoGoes DEF Thread!Send
<1>4. CASE Thread!CreateThread \/ Thread!AcceptFindsNoDescriptor \/ Thread!MainFails
  BY <1>4, NothingServed DEF Thread!CreateThread, Thread!AcceptFindsNoDescriptor,
     Thread!MainFails
<1>5. ASSUME NEW t \in Clients,
             \/ Thread!ThreadStarts(t) \/ Thread!CallRecv(t) \/ Thread!ReceiveNothing(t)
             \/ Thread!SendFails(t) \/ Thread!SendBreaksPipe(t) \/ Thread!Close(t)
      PROVE  Serves
  BY <1>5, NothingServed DEF Thread!ThreadStarts, Thread!CallRecv, Thread!ReceiveNothing,
     Thread!SendFails, Thread!SendBreaksPipe, Thread!Close
<1> QED
  BY <1>1, <1>2, <1>3, <1>4, <1>5 DEF Thread!ServerStep, Thread!MainStep, Thread!ThreadStep

(* What Inv says of the threaded server, and that the step keeps it. *)
ThreadPart ==
  /\ ThreadTyped /\ OneDescriptor /\ Apart
  /\ mpc = "off" => \A c \in Clients : tpc[c] = "none"
  /\ \A c \in Clients : Fresh(c) =>
       /\ tpc[c] = (IF mpc = "down" THEN "ended" ELSE "none")
       /\ \A f \in Fds : table[f] # c

(* The end of the process keeps it. *)
LEMMA DownKeepsThreads ==
  ASSUME Inv, Thread!Down
  PROVE  ThreadPart'
<1>1. /\ raced \in BOOLEAN /\ NoClient \in MaybeClient /\ Thread!NoFd \in MaybeFd
      /\ NoClient \notin Clients
  BY EchoClientAssumption DEF Inv, Typed, ThreadTyped, MaybeClient, MaybeFd
<1>2. ThreadTyped'
  BY <1>1 DEF Thread!Down, ThreadTyped, ThreadPlaces
<1>3. /\ mpc' = "down" /\ UNCHANGED raced
      /\ \A f \in Fds : table'[f] = NoClient
      /\ \A t \in Clients : tpc'[t] = "ended" /\ blocked'[t] = NoClient
  BY DEF Thread!Down
<1>4. OneDescriptor'
  BY <1>1, <1>3 DEF OneDescriptor, Working
<1>5. Apart'
  BY <1>1, <1>3 DEF Apart, ThreadsKeepApart, Thread!ThreadsKeepApart
<1> QED
  BY <1>1, <1>2, <1>3, <1>4, <1>5 DEF ThreadPart

(* main keeps it. *)
LEMMA MainKeepsThreads ==
  ASSUME Inv, Thread!Accept \/ Thread!CreateThread
  PROVE  ThreadPart'
<1>1. ThreadPart /\ (\A c \in Clients : Fresh(c)' => Fresh(c))
  <2>1. Thread!ServerStep
    BY DEF Thread!ServerStep, Thread!MainStep
  <2> QED
    BY <2>1, ThreadServes, BacklogShrinks
       DEF Inv, Serves, Typed, OneServer, FreshAreNew, ThreadPart
<1> USE DEF ThreadPart, ThreadTyped, OneDescriptor, Apart, ThreadsKeepApart, Thread!ThreadsKeepApart,
            ThreadPlaces, Working
<1>2. NoClient \notin Clients
  BY EchoClientAssumption
<1>3. CASE Thread!Accept
  <2>1. PICK f, c : f = Thread!Min(Thread!Free) /\ c = Head(backlog)
    OBVIOUS
  <2>2. /\ mpc = "accept" /\ mpc' = "create"
        /\ buf' = [newfd |-> f, cin |-> c] /\ table' = [table EXCEPT ![f] = c]
        /\ UNCHANGED <<refused, threadFd, tpc, blocked, threadBuf, raced>>
    BY <1>3, <2>1 DEF Thread!Accept, Thread!wireVars
  <2>3. f \in Fds /\ table[f] = NoClient
    BY <1>3, <2>1, FreeIsTaken DEF Thread!Accept
  <2>4. c \in Clients /\ Fresh(c) /\ ~Fresh(c)'
    BY <1>3, <2>1, Accepted DEF Thread!Accept, Thread!clientVars
  <2>5. ThreadTyped'
    BY <1>1, <2>2, <2>3, <2>4 DEF MaybeClient, MaybeFd
  <2>6. tpc[c] = "none" /\ \A g \in Fds : table[g] # c
    BY <1>1, <2>2, <2>4
  <2>7. \A g \in Fds : table'[g] = IF g = f THEN c ELSE table[g]
    BY <1>1, <2>2, <2>3
  <2>8. buf'.newfd = f /\ buf'.cin = c
    BY <2>2
  <2>9. ~Fresh(buf.cin)'
    BY <2>4, <2>8 DEF Fresh
  <2>10. OneDescriptor'
    BY <1>1, <1>2, <2>2, <2>3, <2>4, <2>6, <2>7, <2>8, <2>9
  <2>11. Apart'
    BY <1>1, <1>2, <2>2, <2>3, <2>4, <2>6, <2>7, <2>8
  <2> QED
    BY <1>1, <2>2, <2>4, <2>5, <2>7, <2>10, <2>11
<1>4. CASE Thread!CreateThread
  <2>1. /\ mpc = "create" /\ mpc' = "accept" /\ tpc' = [tpc EXCEPT ![buf.cin] = "start"]
        /\ UNCHANGED <<cpc, backlog, refused, table, buf, threadFd, blocked, threadBuf, raced>>
    BY <1>4 DEF Thread!CreateThread, Thread!echoVars, Thread!wireVars, Thread!clientVars
  <2>2. buf.cin \in Clients /\ buf.newfd \in Fds /\ ~Fresh(buf.cin) /\ tpc[buf.cin] = "none"
    BY <1>1, <2>1
  <2>3. ThreadTyped' /\ OneDescriptor'
    BY <1>1, <2>1, <2>2
  <2>4. Apart'
    BY <1>1, <2>1, <2>2
  <2> QED
    BY <1>1, <2>1, <2>2, <2>3, <2>4
<1> QED
  BY <1>3, <1>4

(* A thread goes from one place to the next; it may give back its descriptor. *)
Moves(t, to) ==
  /\ tpc' = [tpc EXCEPT ![t] = to] /\ tpc[t] \in {"start", "recv", "blocked", "send", "close"}
  /\ UNCHANGED <<cpc, backlog, mpc, buf>>
  /\ table' = table \/ table' = [table EXCEPT ![threadFd[t]] = NoClient]

(* Every step of a thread is one of these, unless it ends the process. *)
LEMMA ThreadMoves ==
  ASSUME NEW t, Thread!ThreadStep(t), ~Thread!SendBreaksPipe(t)
  PROVE  \E to \in Working \cup {"failed", "ended"} : Moves(t, to)
<1> USE DEF Thread!ThreadGoes, Moves, Working, Thread!echoVars, Thread!clientVars
<1>1. CASE Thread!ThreadStarts(t) \/ Thread!Close(t) \/ Thread!SendFails(t)
  BY <1>1 DEF Thread!ThreadStarts, Thread!Close, Thread!SendFails
<1>2. CASE Thread!CallRecv(t) \/ Thread!Receive(t)
  BY <1>2 DEF Thread!CallRecv, Thread!Receive
<1>3. CASE Thread!ReceiveNothing(t) \/ Thread!Send(t)
  BY <1>3 DEF Thread!ReceiveNothing, Thread!Send
<1> QED
  BY <1>1, <1>2, <1>3 DEF Thread!ThreadStep

(* The threads keep what is said of those not accepted. *)
LEMMA ThreadKeepsFresh ==
  ASSUME Inv, NEW t \in Clients, NEW to \in Working \cup {"failed", "ended"}, Moves(t, to)
  PROVE  /\ mpc' = "off" => \A c \in Clients : tpc'[c] = "none"
         /\ \A c \in Clients : Fresh(c)' =>
              /\ tpc'[c] = (IF mpc' = "down" THEN "ended" ELSE "none")
              /\ \A f \in Fds : table'[f] # c
         /\ Fresh(buf.cin)' => Fresh(buf.cin)
         /\ tpc' \in [Clients -> ThreadPlaces] /\ table' \in [Fds -> MaybeClient]
         /\ tpc'[t] = to /\ \A u \in Clients \ {t} : tpc'[u] = tpc[u]
<1>1. /\ mpc = "off" => tpc[t] = "none"
      /\ \A c \in Clients : Fresh(c) => /\ tpc[c] = (IF mpc = "down" THEN "ended" ELSE "none")
                                        /\ \A f \in Fds : table[f] # c
      /\ tpc \in [Clients -> ThreadPlaces] /\ table \in [Fds -> MaybeClient]
  BY DEF Inv, OneServer, FreshAreNew, Typed, ThreadTyped
<1>2. \A c : Fresh(c)' <=> Fresh(c)
  BY DEF Moves, Fresh
<1>3. Fresh(buf.cin)' <=> Fresh(buf.cin)
  BY DEF Moves, Fresh
<1>4. \A c \in Clients : Fresh(c) => c # t
  BY <1>1 DEF Moves
<1>5. NoClient \notin Clients /\ NoClient \in MaybeClient
  BY EchoClientAssumption DEF MaybeClient
<1>6. /\ table' \in [Fds -> MaybeClient]
      /\ \A f \in Fds : table'[f] \in {table[f], NoClient}
  BY <1>1, <1>5 DEF Moves
<1>7. to \in ThreadPlaces
  BY DEF ThreadPlaces, Working
<1> QED
  BY <1>1, <1>2, <1>3, <1>4, <1>5, <1>6, <1>7 DEF Moves

(* The threads keep it. *)
LEMMA ThreadKeepsThreads ==
  ASSUME Inv, NEW t \in Clients, Thread!ThreadStep(t)
  PROVE  ThreadPart'
<1>1. /\ ThreadTyped /\ OneDescriptor /\ Apart
      /\ refused \subseteq refused'
      /\ NoClient \notin Clients /\ NoClient \in MaybeClient
  <2>1. Thread!ServerStep
    BY DEF Thread!ServerStep
  <2> QED
    BY <2>1, ThreadServes, EchoClientAssumption DEF Inv, Serves, Typed, MaybeClient
<1>2. CASE Thread!SendBreaksPipe(t)
  BY <1>2, DownKeepsThreads DEF Thread!SendBreaksPipe
<1>3. CASE ~Thread!SendBreaksPipe(t)
  <2>1. PICK to \in Working \cup {"failed", "ended"} : Moves(t, to)
    BY <1>3, ThreadMoves
  <2>2. /\ mpc' = "off" => \A c \in Clients : tpc'[c] = "none"
        /\ \A c \in Clients : Fresh(c)' =>
             /\ tpc'[c] = (IF mpc' = "down" THEN "ended" ELSE "none")
             /\ \A f \in Fds : table'[f] # c
        /\ Fresh(buf.cin)' => Fresh(buf.cin)
        /\ tpc' \in [Clients -> ThreadPlaces] /\ table' \in [Fds -> MaybeClient]
        /\ tpc'[t] = to /\ \A u \in Clients \ {t} : tpc'[u] = tpc[u]
    BY <2>1, ThreadKeepsFresh
  <2>3. mpc' = mpc /\ buf' = buf
    BY <2>1 DEF Moves
  <2> DEFINE Kept == /\ ThreadsKeepApart'
                     /\ mpc = "create" => table'[buf.newfd] = buf.cin
                     /\ \A u \in Clients : /\ tpc'[u] = "start" /\ buf.cin = u => table'[buf.newfd] = u
                                           /\ tpc'[u] = "blocked" => blocked'[u] = u
                                           /\ tpc'[u] = "send" => threadBuf'[u] = u \/ u \in refused'
  <2>12. (~raced' => Kept) => Apart'
    BY <2>3 DEF Apart
  <2> USE <1>1, <2>2, <2>3 DEF ThreadTyped, OneDescriptor, Apart, ThreadsKeepApart, Thread!ThreadsKeepApart,
            Working, Thread!ThreadGoes
  <2>4. CASE Thread!ThreadStarts(t)
    <3>1. /\ tpc[t] = "start" /\ tpc'[t] = "recv" /\ buf.newfd \in Fds
          /\ threadFd' = [threadFd EXCEPT ![t] = buf.newfd]
          /\ threadFd'[t] = buf.newfd /\ (\A u \in Clients \ {t} : threadFd'[u] = threadFd[u])
          /\ raced' = (raced \/ buf.cin # t) /\ UNCHANGED <<refused, table, blocked, threadBuf>>
      BY <2>4 DEF Thread!ThreadStarts, Thread!echoVars, Thread!wireVars
    <3>2. ThreadTyped'
      BY <3>1
    <3>3. OneDescriptor'
      BY <3>1
    <3>4. ~raced' => ~raced /\ buf.cin = t
      BY <3>1, Zenon
    <3>5. ~raced' => Kept
      <4> HAVE ~raced'
      <4>1. ~raced /\ buf.cin = t
        BY <3>4, Zenon
      <4> QED
        BY <3>1, <4>1 DEF MaybeClient
    <3> QED
      BY <2>12, <3>2, <3>3, <3>5 DEF ThreadPart
  <2>5. CASE Thread!CallRecv(t)
    <3>1. /\ tpc[t] = "recv" /\ threadFd[t] \in Fds
          /\ tpc'[t] = (IF table[threadFd[t]] = NoClient THEN "send" ELSE "blocked")
          /\ blocked' = [blocked EXCEPT ![t] = table[threadFd[t]]]
          /\ table[threadFd[t]] \in Clients \/ table[threadFd[t]] = NoClient
          /\ UNCHANGED <<refused, table, threadFd, threadBuf, raced>>
      BY <2>5 DEF Thread!CallRecv, MaybeClient, Thread!echoVars, Thread!wireVars
    <3>2. ThreadTyped'
      BY <3>1
    <3>3. OneDescriptor'
      BY <3>1
    <3>4. ~raced' => Kept
      BY <3>1 DEF MaybeClient
    <3> QED
      BY <2>12, <3>2, <3>3, <3>4 DEF ThreadPart
  <2>6. CASE Thread!Receive(t)
    <3>1. /\ tpc[t] = "blocked" /\ tpc'[t] = "send" /\ blocked[t] \in Clients
          /\ threadBuf' = [threadBuf EXCEPT ![t] = blocked[t]]
          /\ blocked' = [blocked EXCEPT ![t] = NoClient]
          /\ UNCHANGED <<refused, table, threadFd, raced>>
      BY <2>6 DEF Thread!Receive, Thread!echoVars, Thread!wireVars
    <3>2. ThreadTyped'
      BY <3>1
    <3>3. OneDescriptor'
      BY <3>1
    <3>4. ~raced' => Kept
      BY <3>1 DEF MaybeClient
    <3> QED
      BY <2>12, <3>2, <3>3, <3>4 DEF ThreadPart
  <2>7. CASE Thread!ReceiveNothing(t)
    <3>1. /\ tpc[t] = "blocked" /\ blocked' = [blocked EXCEPT ![t] = NoClient]
          /\ tpc'[t] = "close" \/ (tpc'[t] = "send" /\ blocked[t] \in refused)
          /\ UNCHANGED <<refused, table, threadFd, threadBuf, raced>>
      BY <2>7 DEF Thread!ReceiveNothing, Thread!echoVars, Thread!wireVars
    <3>2. ThreadTyped'
      BY <3>1
    <3>3. OneDescriptor'
      BY <3>1
    <3>4. ~raced' => Kept
      BY <3>1 DEF MaybeClient
    <3> QED
      BY <2>12, <3>2, <3>3, <3>4 DEF ThreadPart
  <2>8. CASE Thread!Send(t)
    <3>1. /\ tpc[t] = "send" /\ tpc'[t] = "recv"
          /\ threadBuf' = [threadBuf EXCEPT ![t] = NoClient]
          /\ UNCHANGED <<table, threadFd, blocked, raced>>
      BY <2>8 DEF Thread!Send, Thread!echoVars, Thread!wireVars
    <3>2. ThreadTyped'
      BY <3>1
    <3>3. OneDescriptor'
      BY <3>1
    <3>4. ~raced' => Kept
      BY <3>1 DEF MaybeClient
    <3> QED
      BY <2>12, <3>2, <3>3, <3>4 DEF ThreadPart
  <2>9. CASE Thread!SendFails(t)
    <3>1. /\ tpc[t] = "send" /\ tpc'[t] = "failed"
          /\ UNCHANGED <<refused, table, threadFd, blocked, threadBuf, raced>>
      BY <2>9 DEF Thread!SendFails, Thread!echoVars, Thread!wireVars
    <3>2. ThreadTyped'
      BY <3>1
    <3>3. OneDescriptor'
      BY <3>1
    <3>4. ~raced' => Kept
      BY <3>1 DEF MaybeClient
    <3> QED
      BY <2>12, <3>2, <3>3, <3>4 DEF ThreadPart
  <2>10. CASE Thread!Close(t)
    <3>1. /\ tpc[t] = "close" /\ tpc'[t] = "ended" /\ threadFd[t] \in Fds
          /\ table' = [table EXCEPT ![threadFd[t]] = NoClient]
          /\ UNCHANGED <<refused, threadFd, blocked, threadBuf, raced>>
      BY <2>10 DEF Thread!Close, Thread!echoVars, Thread!wireVars
    <3>2. ThreadTyped'
      BY <3>1
    <3>3. OneDescriptor'
      BY <3>1
    <3>4. ~raced' => Kept
      BY <3>1 DEF MaybeClient
    <3> QED
      BY <2>12, <3>2, <3>3, <3>4 DEF ThreadPart
  <2> QED
    BY <1>3, <2>4, <2>5, <2>6, <2>7, <2>8, <2>9, <2>10 DEF Thread!ThreadStep
<1> QED
  BY <1>2, <1>3

(* A step of the threaded server keeps Inv. *)
LEMMA ThreadKeepsInv ==
  ASSUME Inv, Thread!ServerStep, UNCHANGED <<forkVars, loopVars, udpVars>>
  PROVE  Inv'
<1> USE DEF forkVars, loopVars
<1>1. Serves
  BY ThreadServes
<1>2. ThreadPart'
  <2>1. CASE Thread!AcceptFindsNoDescriptor \/ Thread!MainFails
    BY <2>1, DownKeepsThreads DEF Thread!AcceptFindsNoDescriptor, Thread!MainFails
  <2> QED
    BY <2>1, MainKeepsThreads, ThreadKeepsThreads DEF Thread!ServerStep, Thread!MainStep
<1>3. mpc # "off" /\ mpc' # "off"
  <2>1. mpc = "off" => \A c \in Clients : tpc[c] = "none"
    BY DEF Inv, OneServer
  <2>2. ASSUME NEW t \in Clients, Thread!ThreadStep(t)
        PROVE  mpc # "off" /\ mpc' # "off"
    <3>1. CASE Thread!SendBreaksPipe(t)
      BY <2>1, <3>1 DEF Thread!SendBreaksPipe, Thread!Down
    <3>2. CASE ~Thread!SendBreaksPipe(t)
      BY <2>1, <2>2, <3>2, ThreadMoves DEF Moves
    <3> QED
      BY <3>1, <3>2
  <2>3. CASE Thread!MainStep \/ Thread!MainFails
    BY <2>3 DEF Thread!MainStep, Thread!Accept, Thread!CreateThread,
       Thread!AcceptFindsNoDescriptor, Thread!MainFails, Thread!Down
  <2> QED
    BY <2>2, <2>3 DEF Thread!ServerStep
<1>4. Typed' /\ OneServer'
  BY <1>1, <1>2, <1>3 DEF Inv, Serves, Typed, ForkTyped, LoopTyped, OneServer, ThreadPart
<1>5. FreshAreNew'
  BY <1>1, <1>2, <1>4, BacklogShrinks
     DEF Inv, FreshAreNew, Serves, Typed, ForkTyped, LoopTyped, ThreadPart
<1>6. OwnConnection' /\ NoZombieForgotten'
  BY DEF Inv, OwnConnection, NoZombieForgotten, ZombiesAreNoticed, Fork!ZombiesAreNoticed
<1> QED
  BY <1>2, <1>4, <1>5, <1>6 DEF Inv, ThreadPart

(* Inv speaks of the programs over TCP only. *)
LEMMA NothingKeepsInv ==
  ASSUME Inv, UNCHANGED <<echoVars, forkVars, loopVars, threadVars>>
  PROVE  Inv'
<1> USE DEF echoVars, clientVars, wireVars, forkVars, loopVars, threadVars
<1>1. Typed' /\ OneServer'
  BY DEF Inv, Typed, WireTyped, ForkTyped, LoopTyped, ThreadTyped, OneServer
<1>2. FreshAreNew' /\ OwnConnection' /\ NoZombieForgotten'
  BY DEF Inv, FreshAreNew, Fresh, OwnConnection, NoZombieForgotten, ZombiesAreNoticed,
     Fork!ZombiesAreNoticed
<1>3. OneDescriptor' /\ Apart'
  BY DEF Inv, OneDescriptor, Fresh, Apart, ThreadsKeepApart, Thread!ThreadsKeepApart
<1> QED
  BY <1>1, <1>2, <1>3 DEF Inv

(* Every step keeps Inv. *)
LEMMA InvStep ==
  ASSUME Inv, [Next]_vars
  PROVE  Inv'
<1>1. ASSUME NEW c \in Clients, AnyClientStep(c), ServersStay
      PROVE  Inv'
  BY <1>1, ClientKeepsInv
<1>2. CASE Udp!UdpStep /\ UNCHANGED <<echoVars, forkVars, loopVars, threadVars>>
  BY <1>2, NothingKeepsInv
<1>3. CASE UNCHANGED vars
  BY <1>3, NothingKeepsInv DEF vars
<1> QED
  BY <1>1, <1>2, <1>3, ForkKeepsInv, LoopKeepsInv, ThreadKeepsInv
     DEF Next, AnyClientStep, ServersStay, OthersStay

(* Whoever is started, Inv holds. *)
LEMMA InvInit ==
  ASSUME Init
  PROVE  Inv
<1>1. PICK server \in {"fork", "loop", "thread", "udp"} :
        /\ CASE server = "udp" -> EchoInit({}, 0)
             [] server = "thread" -> EchoInit(Few, MaxLines) \/ EchoInitWaiting(MaxLinesWaiting)
             [] server = "loop" -> /\ \E first \in {"start", "connect"} : EchoInitAt(first, Few, MaxLines)
                                   /\ backlog = <<>>
             [] OTHER -> EchoInit(Few, MaxLines)
        /\ Fork!ForkInit /\ spc = If(server = "fork", "accept")
        /\ Loop!LoopInit /\ lpc = If(server = "loop", "accept")
        /\ Thread!ThreadInit /\ mpc = If(server = "thread", "accept")
  BY DEF Init
<1>2. \/ \E first \in {"start", "connect"}, coming \in SUBSET Clients, n \in Nat :
           EchoInitAt(first, coming, n) /\ backlog = <<>>
      \/ EchoInitAt("prompt", Clients, MaxLinesWaiting) /\ backlog = SetToSeq(Clients)
  <2>1. 0 \in Nat /\ MaxLines \in Nat /\ {} \in SUBSET Clients /\ Few \in SUBSET Clients
    BY EchoClientAssumption, EchoServersAssumption
  <2>2. CASE server = "udp"
    BY <1>1, <2>1, <2>2 DEF EchoInit
  <2>3. CASE server = "thread"
    BY <1>1, <2>1, <2>3 DEF EchoInit, EchoInitWaiting
  <2>4. CASE server = "loop"
    BY <1>1, <2>1, <2>4
  <2>5. CASE server = "fork"
    BY <1>1, <2>1, <2>5 DEF EchoInit
  <2> QED
    BY <1>1, <2>2, <2>3, <2>4, <2>5
<1>3. /\ backlog \in Seq(Clients) /\ IsInjective(backlog)
      /\ \A c \in ToSet(backlog) : c \in Clients /\ cpc[c] \notin {"start", "connect"}
  <2>1. CASE backlog = <<>>
    <3>1. backlog \in Seq(Clients) /\ DOMAIN backlog = {}
      BY <2>1, EmptySeq
    <3> QED
      BY <3>1 DEF IsInjective, ToSet
  <2>2. CASE EchoInitAt("prompt", Clients, MaxLinesWaiting) /\ backlog = SetToSeq(Clients)
    <3>1. /\ Cardinality(Clients) \in Nat
          /\ backlog \in Bijection(1..Cardinality(Clients), Clients)
      BY <2>2, SetInOrder, EchoClientAssumption
    <3>2. backlog \in [1..Cardinality(Clients) -> Clients]
      BY <3>1 DEF Bijection, Injection
    <3>3. IsInjective(backlog)
      BY <3>1 DEF Bijection, Injection
    <3>4. backlog \in Seq(Clients)
      BY <3>1, <3>2
    <3>5. \A c \in Clients : cpc[c] = "prompt"
      BY <2>2 DEF EchoInitAt
    <3> QED
      BY <3>2, <3>3, <3>4, <3>5 DEF ToSet
  <2> QED
    BY <1>2, <2>1, <2>2
<1>4. /\ cpc \in [Clients -> ClientPlaces] /\ requests = [c \in Clients |-> 0]
      /\ responses = [c \in Clients |-> <<>>] /\ refused = {} /\ lines \in Nat
  <2>1. ASSUME NEW first \in {"start", "connect", "prompt"}, NEW coming \in SUBSET Clients,
               NEW n \in Nat, EchoInitAt(first, coming, n)
        PROVE  /\ cpc \in [Clients -> ClientPlaces] /\ requests = [c \in Clients |-> 0]
               /\ responses = [c \in Clients |-> <<>>] /\ refused = {} /\ lines \in Nat
    BY <2>1 DEF EchoInitAt, ClientPlaces
  <2> QED
    BY <1>2, <2>1, EchoServersAssumption
<1>5. Typed
  <2>1. WireTyped
    <3>1. <<>> \in Seq(MaybeClient)
      BY EmptySeq
    <3> QED
      BY <1>3, <1>4, <3>1 DEF WireTyped
  <2>2. ForkTyped /\ LoopTyped
    BY <1>1 DEF ForkTyped, LoopTyped, If, Fork!ForkInit
  <2>3. ThreadTyped
    BY <1>1 DEF ThreadTyped, If, Thread!ThreadInit, MaybeClient, MaybeFd, ThreadPlaces
  <2> QED
    BY <2>1, <2>2, <2>3 DEF Typed
<1>6. OneServer
  BY <1>1 DEF OneServer, If, Fork!ForkInit, Thread!ThreadInit
<1>7. FreshAreNew
  <2>1. /\ \A c \in Clients : child[c] = "none" /\ tpc[c] = "none"
        /\ \A f \in Fds : table[f] = NoClient
        /\ spc \notin {"fork", "close"} /\ lpc \notin {"recv", "send"} /\ mpc # "down"
    BY <1>1 DEF If, Fork!ForkInit, Thread!ThreadInit
  <2> QED
    BY <1>3, <2>1, EchoClientAssumption DEF FreshAreNew
<1>8. OwnConnection
  BY <1>1, EchoClientAssumption DEF OwnConnection, If, Fork!ForkInit
<1>9. NoZombieForgotten
  BY <1>1 DEF NoZombieForgotten, ZombiesAreNoticed, Fork!ZombiesAreNoticed, If, Fork!ForkInit
<1>10. OneDescriptor /\ Apart
  BY <1>1, EchoClientAssumption
     DEF OneDescriptor, Apart, ThreadsKeepApart, Thread!ThreadsKeepApart, Working, If, Thread!ThreadInit
<1> QED
  BY <1>5, <1>6, <1>7, <1>8, <1>9, <1>10 DEF Inv

(* Inv holds in every state of every run.                                     *)
THEOREM EchoInvariant == Spec => []Inv
<1>1. Init => Inv
  BY InvInit
<1>2. Inv /\ [Next]_vars => Inv'
  BY InvStep
<1> QED
  BY <1>1, <1>2, PTL DEF Spec

(* No process of the forking server has a descriptor of a connection that is  *)
(* not its own: sfd and newfd are closed where the code closes them, in the    *)
(* parent and in the child (06forktcp.cpp).                                    *)
THEOREM ConnectionsArePrivateHolds == Spec => []ConnectionsArePrivate
<1>1. Inv => ConnectionsArePrivate
  BY DEF Inv, OwnConnection, ConnectionsArePrivate, Fork!ConnectionsArePrivate
<1> QED
  BY <1>1, EchoInvariant, PTL

(* While a child waits to be reaped, SIGCHLD is pending or its handler runs,   *)
(* however many children end at once (06forktcp.cpp, handler).                 *)
THEOREM ZombiesAreNoticedHolds == Spec => []ZombiesAreNoticed
<1>1. Inv => ZombiesAreNoticed
  BY DEF Inv, NoZombieForgotten
<1> QED
  BY <1>1, EchoInvariant, PTL

(* Threads work on descriptors of their own as long as none has read that of   *)
(* another from the buffer of main (07threadtcp.cpp).                          *)
THEOREM ThreadsKeepApartHolds == Spec => []ThreadsKeepApart
<1>1. Inv => ThreadsKeepApart
  BY DEF Inv, Apart, ThreadsKeepApart, Thread!ThreadsKeepApart
<1> QED
  BY <1>1, EchoInvariant, PTL

-------------------------------------------------------------------------------
(* A server is about to send an echo to client c. *)
Sending(c) == child[c] = "send" \/ (lpc = "send" /\ served = c) \/ tpc[c] = "send"

Underway(c) == requests[c] + Len(responses[c]) + (IF Sending(c) THEN 1 ELSE 0)

(* Only its own echoes are on their way to client c, and one at most if it     *)
(* does not poll.                                                             *)
Returns(c) ==
  /\ ToSet(responses[c]) \subseteq {c}
  /\ cpc[c] \in {"start", "prompt", "connect", "reset", "closed"} => responses[c] = <<>>
  /\ cpc[c] \in {"start", "connect"} => requests[c] = 0 /\ ~Sending(c)
  /\ cpc[c] = "recv" => Len(responses[c]) <= 1
  /\ cpc[c] = "recv" /\ Connected(c) => Underway(c) <= 1
  /\ cpc[c] = "prompt" /\ Connected(c) => Underway(c) = 0
  /\ cpc[c] = "reset" => ~Connected(c)

EchoesReturn ==
  /\ \A c \in refused : cpc[c] = "closed"
  /\ ~raced => \A c \in Clients : Returns(c)

(* Connected, in terms of the variables of all servers. *)
Open(c) ==
  \/ ListenerOpen /\ c \in ToSet(backlog)
  \/ \E q \in Clients \cup {"server"} : c \in holds[q]
  \/ lpc \in {"recv", "send"} /\ served = c
  \/ \E f \in Fds : table[f] = c
  \/ \E t \in Clients : blocked[t] = c

(* It is the same. *)
LEMMA ConnectedIsOpen ==
  ASSUME Inv, Inv', NEW c
  PROVE  (Connected(c) <=> Open(c)) /\ (Connected(c)' <=> Open(c)')
<1>1. /\ holds \in [Clients \cup {"server"} -> SUBSET Clients]
      /\ holds' \in [Clients \cup {"server"} -> SUBSET Clients]
  BY DEF Inv, Typed, ForkTyped
<1>2. /\ (spc = "off" => \A d \in Clients : child[d] = "none")
      /\ (spc' = "off" => \A d \in Clients : child'[d] = "none")
      /\ (spc = "off" \/ (lpc = "off" /\ mpc = "off")) /\ (lpc = "off" \/ mpc = "off")
      /\ (spc' = "off" \/ (lpc' = "off" /\ mpc' = "off")) /\ (lpc' = "off" \/ mpc' = "off")
  BY DEF Inv, OneServer
<1> QED
  BY <1>1, <1>2 DEF Connected, Open, ListenerOpen, Fork!Connected, Loop!Connected, Thread!Connected,
     Fork!ListenerOpen, Loop!ListenerOpen, Thread!ListenerOpen, Fork!ToSet, Loop!ToSet, Thread!ToSet,
     ToSet

(* No step opens the connection of a client that has connected before.        *)
LEMMA StaysClosed ==
  ASSUME Inv, [Next]_vars, NEW c \in Clients, cpc[c] \notin {"start", "connect"}, Open(c)'
  PROVE  Open(c)
<1> USE DEF Open, ListenerOpen, Fork!ListenerOpen, Loop!ListenerOpen, Thread!ListenerOpen
<1>1. ASSUME NEW d \in Clients, AnyClientStep(d), ServersStay
      PROVE  Open(c)
  <2>1. UNCHANGED <<spc, child, holds, lpc, served, mpc, table, blocked>>
    BY <1>1 DEF ServersStay, forkVars, loopVars, threadVars
  <2>2. c \in ToSet(backlog)' => c \in ToSet(backlog)
    <3>1. Goes(d)
      BY <1>1, ClientEffect
    <3>2. CASE backlog' = backlog
      BY <3>2
    <3>3. CASE backlog' = Append(backlog, d) /\ cpc[d] \in {"start", "connect"}
      <4>1. backlog \in Seq(Clients) /\ IsInjective(backlog) /\ d \notin ToSet(backlog)
        BY <3>3 DEF Inv, FreshAreNew, Typed, WireTyped
      <4>2. ToSet(Append(backlog, d)) = ToSet(backlog) \cup {d}
        BY <4>1, OneMoreWaits
      <4>3. ToSet(backlog)' = ToSet(backlog) \cup {d}
        BY <3>3, <4>2
      <4> QED
        BY <3>3, <4>3
    <3> QED
      BY <3>1, <3>2, <3>3 DEF Goes
  <2> QED
    BY <2>1, <2>2
<1>2. ASSUME Serves
      PROVE  /\ c \in ToSet(backlog)' => c \in ToSet(backlog)
             /\ backlog # <<>> /\ backlog' = Tail(backlog) /\ c = Head(backlog) => c \in ToSet(backlog)
  BY <1>2, BacklogShrinks, Accepted DEF Serves, Fresh
<1>3. CASE Fork!ServerStep /\ OthersStay
  <2>1. /\ c \in ToSet(backlog)' => c \in ToSet(backlog)
        /\ backlog # <<>> /\ backlog' = Tail(backlog) /\ c = Head(backlog) => c \in ToSet(backlog)
    BY <1>2, <1>3, ForkServes
  <2>2. UNCHANGED <<lpc, served, mpc, table, blocked>>
    BY <1>3 DEF OthersStay, loopVars, threadVars
  <2>3. /\ holds \in [Clients \cup {"server"} -> SUBSET Clients]
        /\ spc \in {"fork", "close"} => newfd \in Clients
    BY DEF Inv, Typed, ForkTyped
  <2>4. /\ (spc' \notin {"off", "down"} => spc \notin {"off", "down"})
        /\ \A d \in Clients : child'[d] = "start" => child[d] = "start" \/ spc \notin {"off", "down"}
        /\ \A q \in Clients \cup {"server"} : c \in holds'[q] =>
             (\E r \in Clients \cup {"server"} : c \in holds[r])
             \/ (spc = "accept" /\ backlog # <<>> /\ backlog' = Tail(backlog) /\ c = Head(backlog))
    <3> USE <2>3 DEF Fork!ServerGoes, Fork!ChildGoes, Fork!signalVars
    <3>1. child \in [Clients -> {"none", "start", "recv", "send", "zombie", "reaped"}]
      BY DEF Inv, Typed, ForkTyped
    <3>2. CASE Fork!Accept
      BY <3>1, <3>2 DEF Fork!Accept
    <3>3. CASE Fork!Fork
      BY <3>1, <3>3 DEF Fork!Fork
    <3>4. CASE Fork!ServerCloses \/ Fork!ServerFails
      BY <3>1, <3>4 DEF Fork!ServerCloses, Fork!ServerFails
    <3>5. CASE Fork!HandlerStep
      BY <3>1, <3>5 DEF Fork!HandlerStep, Fork!HandlerStarts, Fork!HandlerReaps, Fork!HandlerReturns
    <3>6. ASSUME NEW d \in Clients, Fork!ChildStep(d)
          PROVE  /\ spc' = spc
                 /\ \A e \in Clients : child'[e] = "start" => child[e] = "start"
                 /\ \A q \in Clients \cup {"server"} : holds'[q] \subseteq holds[q]
      BY <3>1, <3>6 DEF Fork!ChildStep, Fork!ChildReceives, Fork!ChildSends,
         Fork!ChildClosesListener, Fork!ChildFailsToReceive, Fork!ChildExits,
         Fork!ChildIsKilled, Fork!Ends
    <3> QED
      BY <1>3, <3>2, <3>3, <3>4, <3>5, <3>6 DEF Fork!ServerStep, Fork!MainStep
  <2> QED
    BY <2>1, <2>2, <2>4
<1>4. CASE Loop!ServerStep /\ UNCHANGED <<forkVars, threadVars, udpVars>>
  <2>1. /\ c \in ToSet(backlog)' => c \in ToSet(backlog)
        /\ backlog # <<>> /\ backlog' = Tail(backlog) /\ c = Head(backlog) => c \in ToSet(backlog)
    BY <1>2, <1>4, LoopServes
  <2>2. UNCHANGED <<spc, child, holds, mpc, table, blocked>>
    BY <1>4 DEF forkVars, threadVars
  <2>3. CASE Loop!Accept
    BY <2>1, <2>2, <2>3 DEF Loop!Accept, Loop!ServerGoes
  <2>4. CASE Loop!Serve \/ Loop!ServerFails
    BY <2>1, <2>2, <2>4 DEF Loop!Serve, Loop!Receive, Loop!ReceiveFails, Loop!Send, Loop!PeerLeft,
       Loop!ServerFails, Loop!ServerGoes
  <2> QED
    BY <1>4, <2>3, <2>4 DEF Loop!ServerStep
<1>6. CASE Thread!ServerStep /\ UNCHANGED <<forkVars, loopVars, udpVars>>
  <2>1. /\ c \in ToSet(backlog)' => c \in ToSet(backlog)
        /\ backlog # <<>> /\ backlog' = Tail(backlog) /\ c = Head(backlog) => c \in ToSet(backlog)
    BY <1>2, <1>6, ThreadServes
  <2>2. UNCHANGED <<spc, child, holds, lpc, served>>
    BY <1>6 DEF forkVars, loopVars
  <2>3. /\ table \in [Fds -> MaybeClient] /\ blocked \in [Clients -> MaybeClient]
        /\ NoClient \notin Clients
        /\ \A t \in Clients : tpc[t] = "recv" => threadFd[t] \in Fds
    BY EchoClientAssumption DEF Inv, Typed, ThreadTyped, OneDescriptor, Working
  <2>4. /\ (mpc' \notin {"off", "down"} => mpc \notin {"off", "down"})
        /\ \A f \in Fds : table'[f] = c => table[f] = c \/
             (mpc = "accept" /\ backlog # <<>> /\ backlog' = Tail(backlog) /\ c = Head(backlog))
        /\ \A t \in Clients : blocked'[t] = c =>
             blocked[t] = c \/ \E f \in Fds : table[f] = c
    <3> USE <2>3 DEF Thread!ThreadGoes
    <3>1. CASE Thread!Accept \/ Thread!CreateThread
      BY <3>1 DEF Thread!Accept, Thread!CreateThread
    <3>2. CASE Thread!AcceptFindsNoDescriptor \/ Thread!MainFails
      BY <3>2 DEF Thread!AcceptFindsNoDescriptor, Thread!MainFails, Thread!Down
    <3>3. ASSUME NEW t \in Clients, Thread!ThreadStep(t)
          PROVE  /\ (mpc' \notin {"off", "down"} => mpc \notin {"off", "down"})
                 /\ \A f \in Fds : table'[f] = c => table[f] = c
                 /\ \A u \in Clients : blocked'[u] = c =>
                      blocked[u] = c \/ \E f \in Fds : table[f] = c
      <4>1. CASE Thread!ThreadStarts(t) \/ Thread!CallRecv(t)
        BY <4>1 DEF Thread!ThreadStarts, Thread!CallRecv
      <4>2. CASE Thread!Receive(t) \/ Thread!ReceiveNothing(t)
        BY <4>2 DEF Thread!Receive, Thread!ReceiveNothing
      <4>3. CASE Thread!Send(t) \/ Thread!SendFails(t) \/ Thread!SendBreaksPipe(t) \/ Thread!Close(t)
        BY <4>3 DEF Thread!Send, Thread!SendFails, Thread!SendBreaksPipe, Thread!Close, Thread!Down
      <4> QED
        BY <3>3, <4>1, <4>2, <4>3 DEF Thread!ThreadStep
    <3> QED
      BY <1>6, <3>1, <3>2, <3>3 DEF Thread!ServerStep, Thread!MainStep
  <2> QED
    BY <2>1, <2>2, <2>4
<1>5. CASE UNCHANGED <<echoVars, forkVars, loopVars, threadVars>>
  BY <1>5 DEF echoVars, forkVars, loopVars, threadVars
<1> QED
  BY <1>1, <1>3, <1>4, <1>5, <1>6 DEF Next, vars, AnyClientStep, ServersStay, OthersStay

(* The same for Connected. *)
LEMMA StaysUnconnected ==
  ASSUME Inv, Inv', [Next]_vars, NEW c \in Clients, cpc[c] \notin {"start", "connect"}
  PROVE  Connected(c)' => Connected(c)
BY ConnectedIsOpen, StaysClosed

(* What is on the wires of a client are numbers and a sequence. *)
LEMMA WiresTyped ==
  ASSUME Inv, NEW c \in Clients
  PROVE  /\ requests[c] \in Nat /\ responses[c] \in Seq(MaybeClient) /\ Len(responses[c]) \in Nat
         /\ (responses[c] = <<>> <=> Len(responses[c]) = 0)
         /\ cpc[c] \in ClientPlaces
<1>1. requests[c] \in Nat /\ responses[c] \in Seq(MaybeClient) /\ cpc[c] \in ClientPlaces
  BY DEF Inv, Typed, WireTyped
<1> QED
  BY <1>1, LenProperties, EmptySeq

(* Returns stays true of a client to which nothing happens. *)
LEMMA ReturnsStays ==
  ASSUME Inv, Inv', [Next]_vars, NEW c \in Clients, Returns(c), cpc'[c] = cpc[c],
         requests'[c] = requests[c], responses'[c] = responses[c], Sending(c)' => Sending(c)
  PROVE  Returns(c)'
<1>1. cpc[c] \notin {"start", "connect"} => (Connected(c)' => Connected(c))
  BY StaysUnconnected
<1>2. requests[c] \in Nat /\ Len(responses[c]) \in Nat
  BY WiresTyped
<1>3. Underway(c)' <= Underway(c) /\ Underway(c)' \in Nat /\ Underway(c) \in Nat
  BY <1>2 DEF Underway
<1>4. (ToSet(responses[c]) \subseteq {c})'
  BY DEF Returns, ToSet
<1>5. \/ cpc[c] \in {"start", "connect"}
      \/ cpc[c] \notin {"start", "connect"} /\ (Connected(c)' => Connected(c))
  BY <1>1
<1> QED
  BY <1>2, <1>3, <1>4, <1>5 DEF Returns

(* A step of a client keeps what is said of the echoes. *)
LEMMA ClientKeepsEchoes ==
  ASSUME Inv, Inv', EchoesReturn, [Next]_vars, NEW c \in Clients, AnyClientStep(c), ServersStay
  PROVE  EchoesReturn'
<1>1. \A d \in Clients : Sending(d)' <=> Sending(d)
  BY DEF Sending, ServersStay, forkVars, loopVars, threadVars
<1>2. /\ WireTyped /\ cpc[c] \in ClientPlaces /\ responses[c] \in Seq(MaybeClient)
      /\ requests[c] \in Nat /\ Len(responses[c]) \in Nat
      /\ (responses[c] = <<>> <=> Len(responses[c]) = 0) /\ raced' = raced
  BY WiresTyped DEF Inv, Typed, ServersStay, threadVars
<1> USE DEF ClientGoes, clientVars, wireVars
<1> DEFINE Others == /\ \A d \in Clients \ {c} :
                          /\ cpc'[d] = cpc[d] /\ requests'[d] = requests[d]
                          /\ responses'[d] = responses[d] /\ (d \in refused' => d \in refused)
                     /\ c \in refused' => c \in refused \/ cpc'[c] = "closed"
                     /\ cpc[c] = "closed" => cpc'[c] = "closed"
<1>3. Others
  <2> USE <1>2 DEF WireTyped
  <2>1. CASE Connect(c, ListenerOpen) \/ PollConnect(c, ListenerOpen)
    BY <2>1 DEF Connect, PollConnect
  <2>2. CASE SendLine(c, Connected(c)) \/ PollSendLine(c, Connected(c))
    <3>1. requests' \in {requests, [requests EXCEPT ![c] = @ + 1]}
      BY <2>2 DEF SendLine, PollSendLine
    <3> QED
      BY <2>2, <3>1 DEF SendLine, PollSendLine
  <2>3. CASE SendIsBroken(c, Connected(c)) \/ PollSendIsBroken(c)
    BY <2>3 DEF SendIsBroken, PollSendIsBroken
  <2>4. CASE ReceiveResponse(c) \/ PollReceive(c)
    BY <2>4 DEF ReceiveResponse, PollReceive
  <2>5. CASE ServerClosed(c, Connected(c)) \/ PollServerClosed(c, Connected(c))
    BY <2>5 DEF ServerClosed, PollServerClosed
  <2>6. CASE ClientDies(c) \/ PollClientDies(c)
    BY <2>6 DEF ClientDies, PollClientDies
  <2> QED
    BY <2>1, <2>2, <2>3, <2>4, <2>5, <2>6 DEF AnyClientStep, ClientStep, PollStep, PollReceives
<1>4. \A d \in refused' : cpc'[d] = "closed"
  BY <1>2, <1>3 DEF EchoesReturn, Inv, Typed, WireTyped
<1>5. ASSUME ~raced, NEW d \in Clients \ {c}
      PROVE  Returns(d)'
  BY <1>1, <1>3, <1>5, ReturnsStays DEF EchoesReturn
<1>6. ASSUME ~raced
      PROVE  Returns(c)'
  <2>1. Returns(c) /\ (cpc[c] \notin {"start", "connect"} => (Connected(c)' => Connected(c)))
    BY <1>6, StaysUnconnected DEF EchoesReturn
  <2>2. /\ Underway(c) = requests[c] + Len(responses[c]) + (IF Sending(c) THEN 1 ELSE 0)
        /\ Underway(c)' = requests'[c] + Len(responses'[c]) + (IF Sending(c) THEN 1 ELSE 0)
    BY <1>1 DEF Underway
  <2>3. Len(<<>>) = 0 /\ ToSet(<<>>) = {}
    BY EmptySeq, LenProperties DEF ToSet
  <2>4. ToSet(responses[c])' = ToSet(responses'[c])
    BY DEF ToSet
  <2> USE <1>2, <2>1, <2>2, <2>3, <2>4 DEF Returns, WireTyped
  <2>5. CASE Connect(c, ListenerOpen) \/ PollConnect(c, ListenerOpen)
    <3>1. cpc'[c] \in {"prompt", "poll", "closed"} /\ cpc[c] \in {"start", "connect"}
          /\ requests' = requests /\ responses' = responses
      BY <2>5 DEF Connect, PollConnect
    <3>2. responses[c] = <<>> /\ requests[c] = 0 /\ ~Sending(c)
      BY <3>1
    <3>3. Underway(c)' = 0
      BY <3>1, <3>2
    <3> QED
      BY <3>1, <3>2, <3>3
  <2>6. CASE SendLine(c, Connected(c))
    BY <2>6 DEF SendLine
  <2>7. CASE PollSendLine(c, Connected(c))
    BY <2>7 DEF PollSendLine
  <2>8. CASE SendIsBroken(c, Connected(c)) \/ PollSendIsBroken(c)
    BY <2>8 DEF SendIsBroken, PollSendIsBroken
  <2>9. CASE ReceiveResponse(c)
    BY <2>9 DEF ReceiveResponse
  <2>10. CASE PollReceive(c)
    BY <2>10 DEF PollReceive
  <2>11. CASE ServerClosed(c, Connected(c)) \/ PollServerClosed(c, Connected(c))
    BY <2>11 DEF ServerClosed, PollServerClosed
  <2>12. CASE ClientDies(c) \/ PollClientDies(c)
    BY <2>12 DEF ClientDies, PollClientDies
  <2> QED
    BY <2>5, <2>6, <2>7, <2>8, <2>9, <2>10, <2>11, <2>12 DEF AnyClientStep, ClientStep, PollStep,
       PollReceives
<1> QED
  BY <1>2, <1>4, <1>5, <1>6 DEF EchoesReturn

(* Who sends to a client has its connection open. *)
LEMMA SenderConnected ==
  ASSUME Inv, Inv', ~raced, NEW c \in Clients, Sending(c)
  PROVE  Connected(c) /\ cpc[c] \notin {"start", "connect"}
<1>1. CASE child[c] = "send"
  BY <1>1, ConnectedIsOpen DEF Open, Inv, OwnConnection, FreshAreNew, Fresh
<1>2. CASE lpc = "send" /\ served = c
  BY <1>2, ConnectedIsOpen DEF Open, Inv, FreshAreNew, Fresh
<1>3. CASE tpc[c] = "send"
  BY <1>3, ConnectedIsOpen DEF Open, Inv, FreshAreNew, Fresh, Apart, ThreadsKeepApart,
     Thread!ThreadsKeepApart, OneDescriptor, Working
<1> QED
  BY <1>1, <1>2, <1>3 DEF Sending

(* What a step of a server does for client c: nothing, or it receives a        *)
(* request, or it sends the echo. After a reset it has nothing to send.       *)
Effect(c) ==
  \/ /\ requests'[c] = requests[c] /\ responses'[c] = responses[c]
     /\ Sending(c)' => Sending(c) \/ c \in refused
  \/ /\ requests[c] > 0 /\ requests'[c] = requests[c] - 1 /\ responses'[c] = responses[c]
     /\ ~Sending(c) /\ cpc[c] \notin {"start", "connect"}
  \/ /\ Sending(c) /\ ~Sending(c)' /\ requests'[c] = requests[c]
     /\ responses'[c] = IF cpc[c] = "closed" THEN responses[c] ELSE Append(responses[c], c)

(* Each of them keeps Returns. *)
LEMMA EffectKeepsReturns ==
  ASSUME Inv, Inv', EchoesReturn, ~raced, [Next]_vars, NEW c \in Clients, cpc' = cpc, Effect(c)
  PROVE  Returns(c)'
<1>1. /\ Returns(c) /\ (c \in refused => cpc[c] = "closed")
      /\ requests[c] \in Nat /\ responses[c] \in Seq(MaybeClient) /\ Len(responses[c]) \in Nat
      /\ (responses[c] = <<>> <=> Len(responses[c]) = 0)
  BY WiresTyped DEF EchoesReturn
<1>2. /\ Underway(c) = requests[c] + Len(responses[c]) + (IF Sending(c) THEN 1 ELSE 0)
      /\ Underway(c)' = requests'[c] + Len(responses'[c]) + (IF Sending(c)' THEN 1 ELSE 0)
      /\ ToSet(responses[c])' = ToSet(responses'[c])
  BY DEF Underway, ToSet
<1>3. /\ cpc[c] \notin {"start", "connect"} => (Connected(c)' => Connected(c))
      /\ Sending(c) => Connected(c) /\ cpc[c] \notin {"start", "connect"}
  BY SenderConnected, StaysUnconnected
<1> USE <1>1, <1>2, <1>3 DEF Returns
<1>4. CASE /\ requests'[c] = requests[c] /\ responses'[c] = responses[c]
           /\ Sending(c)' => Sending(c) \/ c \in refused
  <2>1. ToSet(responses[c])' = ToSet(responses[c]) /\ cpc'[c] = cpc[c]
    BY <1>4 DEF ToSet
  <2>2. CASE c \in refused
    BY <1>4, <2>1, <2>2
  <2>3. CASE c \notin refused
    <3>1. Sending(c)' => Sending(c)
      BY <1>4, <2>3
    <3>2. Underway(c)' <= Underway(c) /\ Underway(c)' \in Nat /\ Underway(c) \in Nat
      BY <1>4, <3>1
    <3> HIDE <1>2
    <3> QED
      BY <1>4, <2>1, <3>1, <3>2
  <2> QED
    BY <2>2, <2>3
<1>5. CASE /\ requests[c] > 0 /\ requests'[c] = requests[c] - 1 /\ responses'[c] = responses[c]
           /\ ~Sending(c) /\ cpc[c] \notin {"start", "connect"}
  <2>1. Underway(c)' <= Underway(c) /\ Underway(c)' \in Nat /\ Underway(c) > 0
    BY <1>5
  <2> HIDE <1>2
  <2>2. ToSet(responses[c])' = ToSet(responses[c])
    BY <1>5 DEF ToSet
  <2>3. Underway(c) \in Nat
    BY <1>1, <1>2
  <2>4. cpc[c] = "recv" /\ Connected(c)' => Underway(c)' <= 1
    BY <2>1, <2>3
  <2>5. ~(cpc[c] = "prompt" /\ Connected(c)')
    BY <2>1, <2>3
  <2> QED
    BY <1>5, <2>2, <2>4, <2>5
<1>6. CASE /\ Sending(c) /\ ~Sending(c)' /\ requests'[c] = requests[c]
           /\ responses'[c] = IF cpc[c] = "closed" THEN responses[c] ELSE Append(responses[c], c)
  <2>1. CASE cpc[c] = "closed"
    BY <1>6, <2>1
  <2>2. CASE cpc[c] # "closed"
    <3>1. c \in MaybeClient
      BY DEF MaybeClient
    <3>2. /\ responses'[c] = Append(responses[c], c) /\ Len(responses'[c]) = Len(responses[c]) + 1
          /\ DOMAIN responses'[c] = 1..(Len(responses[c]) + 1)
          /\ DOMAIN responses[c] = 1..Len(responses[c])
          /\ \A i \in 1..Len(responses[c]) : responses'[c][i] = responses[c][i]
          /\ responses'[c][Len(responses[c]) + 1] = c
      BY <1>6, <2>2, <3>1, AppendProperties, LenProperties
    <3>3. ToSet(responses'[c]) \subseteq {c}
      <4>1. \A i \in 1..Len(responses[c]) : responses[c][i] = c
        BY <3>2 DEF ToSet
      <4>2. \A i \in 1..(Len(responses[c]) + 1) : responses'[c][i] = c
        BY <3>2, <4>1
      <4> QED
        BY <3>2, <4>2 DEF ToSet
    <3> QED
      BY <1>6, <2>2, <3>2, <3>3
  <2> QED
    BY <2>1, <2>2
<1> QED
  BY <1>4, <1>5, <1>6 DEF Effect

(* Every step of the forking server is one of these for every client, and only *)
(* clients that have left refuse an echo.                                     *)
LEMMA ForkEffect ==
  ASSUME Inv, Fork!ServerStep, OthersStay, NEW c \in Clients
  PROVE  Effect(c) /\ (c \in refused' => c \in refused \/ cpc[c] = "closed")
<1>1. /\ WireTyped /\ child \in [Clients -> {"none", "start", "recv", "send", "zombie", "reaped"}]
      /\ UNCHANGED <<lpc, served, tpc>>
  BY DEF Inv, Typed, ForkTyped, OthersStay, loopVars, threadVars
<1> USE <1>1 DEF WireTyped, Fork!ServerGoes, Fork!ChildGoes, Fork!clientVars, Fork!wireVars, Fork!signalVars
<1>2. ASSUME UNCHANGED <<requests, responses, refused>>, child'[c] = "send" => child[c] = "send"
      PROVE  Effect(c) /\ (c \in refused' => c \in refused)
  BY <1>2 DEF Effect, Sending
<1>3. CASE Fork!Accept \/ Fork!ServerCloses
  BY <1>2, <1>3 DEF Fork!Accept, Fork!ServerCloses
<1>4. CASE Fork!Fork \/ Fork!ServerFails
  BY <1>2, <1>4 DEF Fork!Fork, Fork!ServerFails
<1>5. CASE Fork!HandlerStep
  BY <1>2, <1>5 DEF Fork!HandlerStep, Fork!HandlerStarts, Fork!HandlerReaps, Fork!HandlerReturns
<1>6. ASSUME NEW d \in Clients, Fork!ChildStep(d)
      PROVE  Effect(c) /\ (c \in refused' => c \in refused \/ cpc[c] = "closed")
  <2>1. child[d] # "none"
    BY <1>6 DEF Fork!ChildStep, Fork!ChildReceives, Fork!ChildSends, Fork!ChildClosesListener,
       Fork!ChildFailsToReceive, Fork!ChildExits, Fork!ChildIsKilled, Fork!Ends
  <2>2. lpc = "off" /\ tpc[d] # "send" /\ cpc[d] \notin {"start", "connect"}
    BY <2>1 DEF Inv, OneServer, FreshAreNew, Fresh
  <2>3. (Sending(d) <=> child[d] = "send") /\ (Sending(d)' <=> child'[d] = "send")
    BY <2>2 DEF Sending
  <2>4. Sending(c)' => child'[c] = "send" \/ Sending(c)
    BY DEF Sending
  <2>5. CASE Fork!ChildReceives(d)
    <3>1. /\ requests[d] > 0 /\ requests' = [requests EXCEPT ![d] = @ - 1]
          /\ child[d] = "recv" /\ child' = [child EXCEPT ![d] = "send"]
          /\ UNCHANGED <<responses, refused>>
      BY <2>5 DEF Fork!ChildReceives
    <3>2. CASE c = d
      BY <2>2, <2>3, <3>1, <3>2 DEF Effect
    <3>3. CASE c # d
      <4>1. requests'[c] = requests[c] /\ child'[c] = child[c]
        BY <3>1, <3>3
      <4> QED
        BY <3>1, <4>1 DEF Effect, Sending
    <3> QED
      BY <3>1, <3>2, <3>3
  <2>6. CASE Fork!ChildSends(d)
    <3>1. /\ child[d] = "send" /\ child' = [child EXCEPT ![d] = "recv"]
          /\ requests' = requests
          /\ responses' = IF cpc[d] = "closed" THEN responses
                          ELSE [responses EXCEPT ![d] = Append(@, d)]
          /\ refused' = IF cpc[d] = "closed" THEN refused \cup {d} ELSE refused
      BY <2>6 DEF Fork!ChildSends, Fork!Echo
    <3>2. CASE c = d
      BY <2>2, <2>3, <3>1, <3>2 DEF Effect
    <3>3. CASE c # d
      <4>1. responses'[c] = responses[c] /\ child'[c] = child[c] /\ (c \in refused' => c \in refused)
        BY <3>1, <3>3
      <4> QED
        BY <3>1, <4>1 DEF Effect, Sending
    <3> QED
      BY <3>2, <3>3
  <2>7. CASE Fork!ChildFailsToReceive(d)
    <3>1. /\ d \in refused /\ child' = [child EXCEPT ![d] = "send"]
          /\ UNCHANGED <<requests, responses, refused>>
      BY <2>7 DEF Fork!ChildFailsToReceive
    <3> QED
      BY <2>4, <3>1 DEF Effect, Sending
  <2>8. CASE Fork!ChildClosesListener(d)
    BY <1>2, <2>8 DEF Fork!ChildClosesListener
  <2>9. CASE Fork!ChildExits(d) \/ Fork!ChildIsKilled(d)
    <3>1. /\ \E to \in {"zombie", "reaped"} : child' = [child EXCEPT ![d] = to]
          /\ UNCHANGED <<requests, responses, refused>>
      BY <2>9 DEF Fork!ChildExits, Fork!ChildIsKilled, Fork!Ends
    <3> QED
      BY <1>2, <3>1
  <2> QED
    BY <1>6, <2>5, <2>6, <2>7, <2>8, <2>9 DEF Fork!ChildStep
<1> QED
  BY <1>3, <1>4, <1>5, <1>6 DEF Fork!ServerStep, Fork!MainStep

(* The same of the sequential servers. *)
LEMMA LoopEffect ==
  ASSUME Inv, Loop!ServerStep, UNCHANGED <<forkVars, threadVars, udpVars>>, NEW c \in Clients
  PROVE  Effect(c) /\ (c \in refused' => c \in refused \/ cpc[c] = "closed")
<1>1. WireTyped /\ UNCHANGED <<child, tpc>> /\ LoopTyped
  BY DEF Inv, Typed, forkVars, threadVars
<1>2. lpc # "off"
  BY DEF Loop!ServerStep, Loop!Accept, Loop!Serve, Loop!Receive, Loop!ReceiveFails, Loop!Send,
     Loop!PeerLeft, Loop!ServerFails, Loop!ServerGoes
<1>3. child[c] = "none" /\ tpc[c] = "none"
  BY <1>2 DEF Inv, OneServer
<1>4. lpc \in {"recv", "send"} => cpc[served] \notin {"start", "connect"}
  BY DEF Inv, FreshAreNew, Fresh
<1> USE <1>1, <1>3, <1>4 DEF WireTyped, LoopTyped, Loop!ServerGoes, Loop!clientVars, Loop!wireVars,
        Loop!echoVars, Effect, Sending
<1>5. CASE Loop!Accept \/ Loop!ServerFails
  BY <1>5 DEF Loop!Accept, Loop!ServerFails
<1>6. CASE Loop!Receive
  BY <1>6 DEF Loop!Receive
<1>7. CASE Loop!Send
  BY <1>7 DEF Loop!Send, Loop!Echo
<1>8. CASE Loop!ReceiveFails \/ Loop!PeerLeft
  BY <1>8 DEF Loop!ReceiveFails, Loop!PeerLeft
<1> QED
  BY <1>5, <1>6, <1>7, <1>8 DEF Loop!ServerStep, Loop!Serve

(* The same of the threaded server, unless a thread has read the descriptor of *)
(* another.                                                                   *)
LEMMA ThreadEffect ==
  ASSUME Inv, ~raced, Thread!ServerStep, UNCHANGED <<forkVars, loopVars, udpVars>>, NEW c \in Clients
  PROVE  Effect(c) /\ (c \in refused' => c \in refused \/ cpc[c] = "closed")
<1>1. WireTyped /\ ThreadTyped /\ UNCHANGED <<child, lpc, served>>
  BY DEF Inv, Typed, forkVars, loopVars
<1>2. ASSUME UNCHANGED <<requests, responses, refused>>, tpc'[c] = "send" => tpc[c] = "send"
      PROVE  Effect(c) /\ (c \in refused' => c \in refused)
  BY <1>1, <1>2 DEF Effect, Sending
<1> USE <1>1 DEF WireTyped, ThreadTyped, Thread!ThreadGoes, Thread!clientVars, Thread!wireVars,
        Thread!echoVars
<1>3. CASE Thread!Accept
  BY <1>2, <1>3 DEF Thread!Accept
<1>4. CASE Thread!CreateThread
  <2>1. buf.cin \in Clients /\ tpc' = [tpc EXCEPT ![buf.cin] = "start"]
    BY <1>4 DEF Thread!CreateThread, Inv, OneDescriptor
  <2> QED
    BY <1>2, <1>4, <2>1 DEF Thread!CreateThread
<1>5. CASE Thread!AcceptFindsNoDescriptor \/ Thread!MainFails
  BY <1>2, <1>5 DEF Thread!AcceptFindsNoDescriptor, Thread!MainFails, Thread!Down
<1>6. ASSUME NEW t \in Clients, Thread!ThreadStep(t)
      PROVE  Effect(c) /\ (c \in refused' => c \in refused \/ cpc[c] = "closed")
  <2>1. CASE Thread!SendBreaksPipe(t)
    BY <1>2, <2>1 DEF Thread!SendBreaksPipe, Thread!Down
  <2>2. CASE Thread!ThreadStarts(t) \/ Thread!SendFails(t) \/ Thread!Close(t)
    BY <1>2, <2>2 DEF Thread!ThreadStarts, Thread!SendFails, Thread!Close
  <2>3. CASE Thread!CallRecv(t)
    <3>1. table[threadFd[t]] = t
      BY <2>3 DEF Thread!CallRecv, Inv, Apart, ThreadsKeepApart, Thread!ThreadsKeepApart
    <3>2. tpc' = [tpc EXCEPT ![t] = "blocked"] /\ UNCHANGED <<requests, responses, refused>>
      BY <2>3, <3>1, EchoClientAssumption DEF Thread!CallRecv
    <3> QED
      BY <1>2, <3>2
  <2>4. CASE Thread!ReceiveNothing(t)
    <3>1. blocked[t] = t
      BY <2>4 DEF Thread!ReceiveNothing, Inv, Apart
    <3>2. /\ UNCHANGED <<requests, responses, refused>>
          /\ tpc' = [tpc EXCEPT ![t] = "close"] \/ (t \in refused /\ tpc' = [tpc EXCEPT ![t] = "send"])
      BY <2>4, <3>1 DEF Thread!ReceiveNothing
    <3> QED
      BY <1>2, <3>2 DEF Effect, Sending
  <2>5. ASSUME tpc[t] \in {"blocked", "send"}
        PROVE  /\ cpc[t] \notin {"start", "connect"}
               /\ (Sending(t) <=> tpc[t] = "send") /\ (Sending(t)' <=> tpc'[t] = "send")
    <3>1. mpc # "off" /\ ~Fresh(t)
      BY <2>5 DEF Inv, OneServer, FreshAreNew
    <3>2. child[t] = "none" /\ lpc = "off"
      BY <3>1 DEF Inv, OneServer
    <3> QED
      BY <3>1, <3>2 DEF Sending, Fresh
  <2>6. CASE Thread!Receive(t)
    <3>1. /\ tpc[t] = "blocked" /\ blocked[t] = t
          /\ requests[t] > 0 /\ requests' = [requests EXCEPT ![t] = @ - 1]
          /\ tpc' = [tpc EXCEPT ![t] = "send"] /\ UNCHANGED <<responses, refused>>
      BY <2>6 DEF Thread!Receive, Inv, Apart
    <3>2. CASE c = t
      BY <2>5, <3>1, <3>2 DEF Effect
    <3>3. CASE c # t
      <4>1. requests'[c] = requests[c] /\ tpc'[c] = tpc[c]
        BY <3>1, <3>3
      <4> QED
        BY <3>1, <4>1 DEF Effect, Sending
    <3> QED
      BY <3>1, <3>2, <3>3
  <2>7. CASE Thread!Send(t)
    <3>1. Thread!Peer(t) = t
      BY <2>7 DEF Thread!Send, Thread!Peer, Inv, Apart, ThreadsKeepApart, Thread!ThreadsKeepApart
    <3>2. threadBuf[t] = t
      BY <2>7, <3>1 DEF Thread!Send, Inv, Apart
    <3>3. /\ tpc[t] = "send" /\ tpc' = [tpc EXCEPT ![t] = "recv"] /\ requests' = requests
          /\ responses' = IF cpc[t] = "closed" THEN responses
                          ELSE [responses EXCEPT ![t] = Append(@, t)]
          /\ refused' = IF cpc[t] = "closed" THEN refused \cup {t} ELSE refused
      BY <2>7, <3>1, <3>2 DEF Thread!Send, Thread!Echo
    <3>4. CASE c = t
      BY <2>5, <3>3, <3>4 DEF Effect
    <3>5. CASE c # t
      <4>1. responses'[c] = responses[c] /\ tpc'[c] = tpc[c] /\ (c \in refused' => c \in refused)
        BY <3>3, <3>5
      <4> QED
        BY <3>3, <4>1 DEF Effect, Sending
    <3> QED
      BY <3>4, <3>5
  <2> QED
    BY <1>6, <2>1, <2>2, <2>3, <2>4, <2>6, <2>7 DEF Thread!ThreadStep
<1> QED
  BY <1>3, <1>4, <1>5, <1>6 DEF Thread!ServerStep, Thread!MainStep

(* Whatever the server, clients that have left are the only ones to refuse.   *)
LEMMA ThreadRefuses ==
  ASSUME Inv, Thread!ServerStep, NEW c \in Clients
  PROVE  c \in refused' => c \in refused \/ cpc[c] = "closed"
<1> USE DEF Thread!clientVars, Thread!wireVars, Thread!echoVars
<1>1. CASE Thread!Accept \/ Thread!CreateThread \/ Thread!AcceptFindsNoDescriptor \/ Thread!MainFails
  BY <1>1 DEF Thread!Accept, Thread!CreateThread, Thread!AcceptFindsNoDescriptor, Thread!MainFails
<1>2. ASSUME NEW t \in Clients, Thread!ThreadStep(t)
      PROVE  c \in refused' => c \in refused \/ cpc[c] = "closed"
  <2>1. CASE Thread!Send(t)
    BY <2>1 DEF Thread!Send, Thread!Echo
  <2>2. CASE ~Thread!Send(t)
    BY <1>2, <2>2 DEF Thread!ThreadStep, Thread!ThreadStarts, Thread!CallRecv, Thread!Receive,
       Thread!ReceiveNothing, Thread!SendFails, Thread!SendBreaksPipe, Thread!Close
  <2> QED
    BY <2>1, <2>2
<1> QED
  BY <1>1, <1>2 DEF Thread!ServerStep, Thread!MainStep

(* A server that does to every client one of these keeps what is said of the   *)
(* echoes.                                                                    *)
LEMMA ServerKeepsEchoes ==
  ASSUME Inv, Inv', EchoesReturn, [Next]_vars, Serves, raced => raced',
         \A c \in Clients : /\ c \in refused' => c \in refused \/ cpc[c] = "closed"
                            /\ ~raced => Effect(c)
  PROVE  EchoesReturn'
<1>1. cpc' = cpc /\ refused' \subseteq Clients
  BY DEF Serves, WireTyped
<1>2. \A c \in refused' : cpc'[c] = "closed"
  BY <1>1 DEF EchoesReturn
<1>3. ASSUME ~raced', NEW c \in Clients
      PROVE  Returns(c)'
  BY <1>1, <1>3, EffectKeepsReturns
<1> QED
  BY <1>2, <1>3 DEF EchoesReturn

(* Every step keeps what is said of the echoes. *)
LEMMA EchoesStep ==
  ASSUME Inv, Inv', EchoesReturn, [Next]_vars
  PROVE  EchoesReturn'
<1>1. ASSUME NEW c \in Clients, AnyClientStep(c), ServersStay
      PROVE  EchoesReturn'
  BY <1>1, ClientKeepsEchoes
<1>2. CASE Fork!ServerStep /\ OthersStay
  BY <1>2, ForkServes, ForkEffect, ServerKeepsEchoes DEF OthersStay, threadVars
<1>3. CASE Loop!ServerStep /\ UNCHANGED <<forkVars, threadVars, udpVars>>
  BY <1>3, LoopServes, LoopEffect, ServerKeepsEchoes DEF threadVars
<1>4. CASE Thread!ServerStep /\ UNCHANGED <<forkVars, loopVars, udpVars>>
  <2>1. raced => raced'
    <3>1. ASSUME NEW t \in Clients, Thread!ThreadStep(t)
          PROVE  raced => raced'
      BY <3>1 DEF Thread!ThreadStep, Thread!ThreadStarts, Thread!CallRecv, Thread!Receive,
         Thread!ReceiveNothing, Thread!Send, Thread!SendFails, Thread!SendBreaksPipe, Thread!Close,
         Thread!Down
    <3>2. CASE Thread!MainStep \/ Thread!MainFails
      BY <3>2 DEF Thread!MainStep, Thread!Accept, Thread!CreateThread,
         Thread!AcceptFindsNoDescriptor, Thread!MainFails, Thread!Down
    <3> QED
      BY <1>4, <3>1, <3>2 DEF Thread!ServerStep
  <2> QED
    BY <1>4, <2>1, ThreadServes, ThreadEffect, ThreadRefuses, ServerKeepsEchoes
<1>5. CASE UNCHANGED <<echoVars, forkVars, loopVars, threadVars>>
  <2>1. \A c \in Clients : Effect(c) /\ (c \in refused' => c \in refused)
    BY <1>5 DEF echoVars, wireVars, forkVars, loopVars, threadVars, Effect, Sending
  <2>2. raced' = raced
    BY <1>5 DEF threadVars
  <2> QED
    BY <1>5, <2>1, <2>2, NothingServed, ServerKeepsEchoes
<1> QED
  BY <1>1, <1>2, <1>3, <1>4, <1>5 DEF Next, vars, AnyClientStep, ServersStay, OthersStay

-------------------------------------------------------------------------------
(* As long as no datagram was doubled, a client that waits is owed one datagram *)
(* at most, with its last line, and a client that does not is owed none.      *)
DatagramsUnderway ==
  /\ usrv \in {"off", "recvfrom", "sendto", "down"}
  /\ ucpc \in [Users -> {"none", "prompt", "recvfrom"}]
  /\ typed \in [Users -> Nat] /\ shown = [u \in Users |-> shown[u]]
  /\ lost \in Nat /\ doubled \in Nat
  /\ doubled = 0 =>
       /\ \A u \in Users : ucpc[u] = "prompt" => shown[u] = typed[u]
       /\ \A d \in DOMAIN net :
            /\ net[d] = 1 /\ d.user \in Users /\ d.to \in {"server", d.user}
            /\ ucpc[d.user] = "recvfrom" /\ d.line = typed[d.user]
            /\ \A e \in DOMAIN net : e.user = d.user => e = d
       /\ usrv = "sendto" =>
            /\ datagram.user \in Users
            /\ ucpc[datagram.user] = "recvfrom" /\ datagram.line = typed[datagram.user]
            /\ \A d \in DOMAIN net : d.user # datagram.user

-------------------------------------------------------------------------------
(* A bag with one more element. *)
LEMMA OneMoreInBag ==
  ASSUME NEW B, \A e \in DOMAIN B : B[e] = 1, NEW d, d \notin DOMAIN B,
         NEW C, C = Udp!(+)(B, [e \in {d} |-> 1])
  PROVE  DOMAIN C = DOMAIN B \cup {d} /\ \A e \in DOMAIN C : C[e] = 1
BY DEF Udp!(+)

(* And with one element less. *)
LEMMA OneLessInBag ==
  ASSUME NEW B, \A e \in DOMAIN B : B[e] = 1, NEW d \in DOMAIN B,
         NEW C, C = Udp!(-)(B, Udp!SetToBag({d}))
  PROVE  DOMAIN C = DOMAIN B \ {d} /\ \A e \in DOMAIN C : C[e] = 1
<1> DEFINE D == Udp!SetToBag({d})
           R == [e \in DOMAIN B |-> IF e \in DOMAIN D THEN B[e] - D[e] ELSE B[e]]
<1>1. C = [e \in {x \in DOMAIN R : R[x] > 0} |-> R[e]]
  BY DEF Udp!(-)
<1>2. DOMAIN R = DOMAIN B /\ \A e \in DOMAIN B : R[e] = IF e = d THEN 0 ELSE 1
  BY DEF Udp!SetToBag
<1> HIDE DEF R
<1>3. {x \in DOMAIN R : R[x] > 0} = DOMAIN B \ {d}
  BY <1>2
<1> QED
  BY <1>1, <1>2, <1>3

(* What sendto does as long as it doubles nothing. *)
LEMMA SentOnce ==
  ASSUME DatagramsUnderway, NEW d, Udp!Sendto(d), doubled' = 0
  PROVE  /\ doubled = 0
         /\ d \notin DOMAIN net => /\ DOMAIN net' \subseteq DOMAIN net \cup {d}
                                   /\ \A e \in DOMAIN net' : net'[e] = 1
<1>1. PICK copies \in 0..2 :
        /\ net' = IF copies = 0 THEN net ELSE Udp!(+)(net, [e \in {d} |-> copies])
        /\ doubled' = doubled + (IF copies = 2 THEN 1 ELSE 0)
  BY DEF Udp!Sendto, Udp!(+)
<1>2. doubled = 0 /\ copies \in {0, 1} /\ \A e \in DOMAIN net : net[e] = 1
  BY <1>1 DEF DatagramsUnderway
<1>3. CASE copies = 0
  BY <1>1, <1>2, <1>3
<1>4. CASE copies = 1 /\ d \notin DOMAIN net
  <2>1. net' = Udp!(+)(net, [e \in {d} |-> 1])
    BY <1>1, <1>4
  <2>2. PICK C : C = net'
    OBVIOUS
  <2>3. DOMAIN C = DOMAIN net \cup {d} /\ \A e \in DOMAIN C : C[e] = 1
    BY <1>2, <1>4, <2>1, <2>2, OneMoreInBag, SMTT(30)
  <2> QED
    BY <1>2, <2>2, <2>3
<1> QED
  BY <1>2, <1>3, <1>4

(* What recvfrom leaves on the net. *)
LEMMA TakenOnce ==
  ASSUME DatagramsUnderway, doubled = 0, NEW d \in DOMAIN net,
         net' = Udp!(-)(net, Udp!SetToBag({d}))
  PROVE  /\ DOMAIN net' = DOMAIN net \ {d}
         /\ \A e \in DOMAIN net' : net'[e] = 1
<1>1. \A e \in DOMAIN net : net[e] = 1
  BY DEF DatagramsUnderway
<1>2. PICK C : C = net'
  OBVIOUS
<1>3. DOMAIN C = DOMAIN net \ {d} /\ \A e \in DOMAIN C : C[e] = 1
  BY <1>1, <1>2, OneLessInBag
<1> QED
  BY <1>2, <1>3

(* The numbers of faults and of lines are numbers. *)
LEMMA SendtoCounts ==
  ASSUME DatagramsUnderway, NEW d, Udp!Sendto(d)
  PROVE  lost' \in Nat /\ doubled' \in Nat
BY DEF Udp!Sendto, DatagramsUnderway

(* A line that a user sends is the only one it is owed. *)
LEMMA LineSent ==
  ASSUME DatagramsUnderway, NEW u \in Users, Udp!TypeLine(u)
  PROVE  DatagramsUnderway'
<1>1. PICK d : d = Udp!Datagram("server", u, typed[u] + 1)
  OBVIOUS
<1>2. d.user = u /\ d.to = "server" /\ d.line = typed[u] + 1
  BY <1>1 DEF Udp!Datagram
<1>3. /\ ucpc[u] = "prompt" /\ ucpc' = [ucpc EXCEPT ![u] = "recvfrom"]
      /\ typed' = [typed EXCEPT ![u] = @ + 1] /\ Udp!Sendto(d)
      /\ UNCHANGED <<usrv, shown, datagram>>
  BY <1>1 DEF Udp!TypeLine
<1>4. lost' \in Nat /\ doubled' \in Nat
  BY <1>3, SendtoCounts
<1> USE DEF DatagramsUnderway
<1>5. /\ ucpc' \in [Users -> {"none", "prompt", "recvfrom"}] /\ typed' \in [Users -> Nat]
      /\ ucpc'[u] = "recvfrom" /\ typed'[u] = typed[u] + 1
      /\ \A v \in Users \ {u} : ucpc'[v] = ucpc[v] /\ typed'[v] = typed[v]
  BY <1>3
<1>6. ASSUME doubled' = 0
      PROVE  /\ doubled = 0 /\ \A e \in DOMAIN net : e.user # u
             /\ DOMAIN net' \subseteq DOMAIN net \cup {d} /\ \A e \in DOMAIN net' : net'[e] = 1
  <2>1. doubled = 0
    BY <1>3, <1>6, SentOnce
  <2>2. \A e \in DOMAIN net : e.user # u
    BY <1>3, <2>1
  <2>3. d \notin DOMAIN net
    BY <1>2, <2>2
  <2> QED
    BY <1>3, <1>6, <2>1, <2>2, <2>3, SentOnce
<1> QED
  BY <1>2, <1>3, <1>4, <1>5, <1>6

(* A client shows the line that it was owed. *)
LEMMA EchoShown ==
  ASSUME DatagramsUnderway, NEW u \in Users, Udp!ShowEcho(u)
  PROVE  DatagramsUnderway'
<1>1. PICK d \in DOMAIN net : /\ d.to = u /\ net' = Udp!(-)(net, Udp!SetToBag({d}))
                              /\ shown' = [shown EXCEPT ![u] = d.line]
  BY DEF Udp!ShowEcho, Udp!BagToSet
<1>2. ucpc' = [ucpc EXCEPT ![u] = "prompt"] /\ UNCHANGED <<usrv, typed, datagram, lost, doubled>>
  BY DEF Udp!ShowEcho
<1> USE DEF DatagramsUnderway
<1>3. /\ ucpc' \in [Users -> {"none", "prompt", "recvfrom"}] /\ shown' = [v \in Users |-> shown'[v]]
      /\ ucpc'[u] = "prompt" /\ shown'[u] = d.line
      /\ \A v \in Users \ {u} : ucpc'[v] = ucpc[v] /\ shown'[v] = shown[v]
  BY <1>1, <1>2
<1>4. ASSUME doubled' = 0
      PROVE  /\ doubled = 0 /\ DOMAIN net' = DOMAIN net \ {d} /\ \A e \in DOMAIN net' : net'[e] = 1
  BY <1>1, <1>2, <1>4, TakenOnce
<1>5. doubled = 0 => d.user = u /\ d.line = typed[u] /\ \A e \in DOMAIN net \ {d} : e.user # u
  BY <1>1, EchoServersAssumption
<1>6. ASSUME doubled' = 0, NEW e \in DOMAIN net'
      PROVE  /\ net'[e] = 1 /\ e.user \in Users /\ e.to \in {"server", e.user}
             /\ ucpc'[e.user] = "recvfrom" /\ e.line = typed[e.user]
             /\ \A g \in DOMAIN net' : g.user = e.user => g = e
  BY <1>3, <1>4, <1>5, <1>6
<1>7. ASSUME doubled' = 0, usrv = "sendto"
      PROVE  /\ datagram.user \in Users /\ datagram.user # u
             /\ ucpc'[datagram.user] = "recvfrom" /\ datagram.line = typed[datagram.user]
             /\ \A e \in DOMAIN net' : e.user # datagram.user
  BY <1>3, <1>4, <1>5, <1>7
<1>8. ASSUME doubled' = 0, NEW v \in Users, ucpc'[v] = "prompt"
      PROVE  shown'[v] = typed[v]
  BY <1>3, <1>4, <1>5, <1>8
<1> QED
  BY <1>2, <1>3, <1>6, <1>7, <1>8

(* The server takes a datagram over. *)
LEMMA ServerTakes ==
  ASSUME DatagramsUnderway, Udp!ServerReceives
  PROVE  DatagramsUnderway'
<1>1. PICK d \in DOMAIN net : /\ d.to = "server" /\ net' = Udp!(-)(net, Udp!SetToBag({d}))
                              /\ datagram' = d
  BY DEF Udp!ServerReceives, Udp!BagToSet
<1>2. usrv' = "sendto" /\ UNCHANGED <<ucpc, typed, shown, lost, doubled>>
  BY DEF Udp!ServerReceives
<1> USE DEF DatagramsUnderway
<1>3. ASSUME doubled' = 0
      PROVE  /\ doubled = 0 /\ DOMAIN net' = DOMAIN net \ {d} /\ \A e \in DOMAIN net' : net'[e] = 1
  BY <1>1, <1>2, <1>3, TakenOnce
<1> QED
  BY <1>1, <1>2, <1>3

(* The server sends it back. *)
LEMMA ServerGivesBack ==
  ASSUME DatagramsUnderway, Udp!ServerSends
  PROVE  DatagramsUnderway'
<1>1. PICK d : d = Udp!Datagram(datagram.user, datagram.user, datagram.line)
  OBVIOUS
<1>2. d.user = datagram.user /\ d.to = datagram.user /\ d.line = datagram.line
  BY <1>1 DEF Udp!Datagram
<1>3. /\ usrv = "sendto" /\ usrv' = "recvfrom" /\ Udp!Sendto(d)
      /\ UNCHANGED <<ucpc, typed, shown>>
  BY <1>1 DEF Udp!ServerSends
<1>4. lost' \in Nat /\ doubled' \in Nat
  BY <1>3, SendtoCounts
<1> USE DEF DatagramsUnderway
<1>5. ASSUME doubled' = 0
      PROVE  /\ doubled = 0 /\ d \notin DOMAIN net
             /\ DOMAIN net' \subseteq DOMAIN net \cup {d} /\ \A e \in DOMAIN net' : net'[e] = 1
  <2>1. doubled = 0
    BY <1>3, <1>5, SentOnce
  <2>2. d \notin DOMAIN net
    BY <1>2, <1>3, <2>1
  <2> QED
    BY <1>3, <1>5, <2>1, <2>2, SentOnce
<1> QED
  BY <1>2, <1>3, <1>4, <1>5

(* Every step of the datagram programs keeps the account of datagrams.        *)
LEMMA DatagramsStep ==
  ASSUME DatagramsUnderway, [Next]_vars
  PROVE  DatagramsUnderway'
<1>1. CASE Udp!UdpStep
  <2>1. CASE Udp!ServerFails
    BY <2>1 DEF Udp!ServerFails, DatagramsUnderway
  <2> QED
    BY <1>1, <2>1, LineSent, EchoShown, ServerTakes, ServerGivesBack DEF Udp!UdpStep
<1>2. CASE UNCHANGED udpVars
  BY <1>2 DEF udpVars, DatagramsUnderway
<1> QED
  BY <1>1, <1>2 DEF Next, vars

(* No datagram is on its way before one is sent. *)
LEMMA DatagramsInit ==
  ASSUME Init
  PROVE  DatagramsUnderway
<1>1. PICK server \in {"fork", "loop", "thread", "udp"} :
        /\ Udp!UdpInit(IF server = "udp" THEN Users ELSE {})
        /\ usrv = If(server = "udp", "recvfrom")
  BY DEF Init
<1>2. DOMAIN net = {}
  BY <1>1 DEF Udp!UdpInit, Udp!EmptyBag, Udp!SetToBag
<1> QED
  BY <1>1, <1>2 DEF Udp!UdpInit, If, DatagramsUnderway

(* No echo is on its way before a line is sent. *)
LEMMA EchoesInit ==
  ASSUME Init
  PROVE  EchoesReturn
<1>1. PICK server \in {"fork", "loop", "thread", "udp"} :
        /\ CASE server = "udp" -> EchoInit({}, 0)
             [] server = "thread" -> EchoInit(Few, MaxLines) \/ EchoInitWaiting(MaxLinesWaiting)
             [] server = "loop" -> /\ \E first \in {"start", "connect"} : EchoInitAt(first, Few, MaxLines)
                                   /\ backlog = <<>>
             [] OTHER -> EchoInit(Few, MaxLines)
        /\ Fork!ForkInit /\ spc = If(server = "fork", "accept")
        /\ Loop!LoopInit /\ lpc = If(server = "loop", "accept")
        /\ Thread!ThreadInit /\ mpc = If(server = "thread", "accept")
  BY DEF Init
<1>2. \A c \in Clients : ~Sending(c)
  BY <1>1 DEF Sending, If, Fork!ForkInit, Thread!ThreadInit
<1>3. /\ cpc \in [Clients -> {"start", "connect", "prompt", "closed"}] /\ refused = {}
      /\ \A c \in Clients : requests[c] = 0 /\ responses[c] = <<>>
  <2>1. ASSUME NEW first \in {"start", "connect", "prompt"}, NEW coming, NEW n,
               EchoInitAt(first, coming, n)
        PROVE  /\ cpc \in [Clients -> {"start", "connect", "prompt", "closed"}] /\ refused = {}
               /\ \A c \in Clients : requests[c] = 0 /\ responses[c] = <<>>
    BY <2>1 DEF EchoInitAt
  <2>2. CASE server = "udp"
    BY <1>1, <2>1, <2>2 DEF EchoInit
  <2>3. CASE server = "thread"
    BY <1>1, <2>1, <2>3 DEF EchoInit, EchoInitWaiting
  <2>4. CASE server = "loop"
    BY <1>1, <2>1, <2>4
  <2>5. CASE server = "fork"
    BY <1>1, <2>1, <2>5 DEF EchoInit
  <2> QED
    BY <1>1, <2>2, <2>3, <2>4, <2>5
<1>4. Len(<<>>) = 0 /\ ToSet(<<>>) = {}
  BY EmptySeq, LenProperties DEF ToSet
<1>5. ASSUME NEW c \in Clients
      PROVE  Returns(c)
  <2>1. Underway(c) = 0
    BY <1>2, <1>3, <1>4 DEF Underway
  <2> QED
    BY <1>2, <1>3, <1>4, <2>1 DEF Returns
<1> QED
  BY <1>3, <1>5 DEF EchoesReturn

(* What a client receives is the echo of its own line, and one that waits for  *)
(* each echo never has two, unless a thread has read the descriptor of another *)
(* (02tcp.cpp and its servers); what a datagram client shows when it asks for  *)
(* the next line is the echo of its last one, unless a datagram was doubled    *)
(* (03udp.cpp, 04udp.cpp).                                                     *)
THEOREM OwnEchoHolds == Spec => []OwnEcho
<1> DEFINE All == Inv /\ EchoesReturn /\ DatagramsUnderway
<1>1. Init => All
  BY InvInit, EchoesInit, DatagramsInit
<1>2. All /\ [Next]_vars => All'
  BY InvStep, EchoesStep, DatagramsStep
<1>3. All => OwnEcho
  <2> SUFFICES ASSUME All
               PROVE  OwnEcho
    OBVIOUS
  <2>1. ASSUME ~raced, NEW c \in Clients
        PROVE  /\ ToSet(responses[c]) \subseteq {c}
               /\ Len(responses[c]) > 1 => cpc[c] \in {"poll", "reset"}
    <3>1. Returns(c) /\ cpc[c] \in ClientPlaces /\ (responses[c] = <<>> => Len(responses[c]) = 0)
          /\ Len(responses[c]) \in Nat
      BY <2>1, WiresTyped DEF EchoesReturn
    <3> QED
      BY <3>1 DEF Returns, ClientPlaces
  <2>2. doubled > 0 \/ \A u \in Users : ucpc[u] = "prompt" => shown[u] = typed[u]
    BY DEF DatagramsUnderway
  <2> QED
    BY <2>1, <2>2 DEF OwnEcho
<1> QED
  BY <1>1, <1>2, <1>3, PTL DEF Spec

===============================================================================
