------------------------------ MODULE EchoServers ------------------------------
(***************************************************************************)
(* The echo programs of network/day2 with their clients. The four TCP      *)
(* servers bind the same address, so one of them runs; the client is the   *)
(* same for all of them. The datagram server has its own. A server that is *)
(* not the one started stays "off".                                        *)
(***************************************************************************)
EXTENDS PollClient

CONSTANTS
  Few,      (* the clients that come, but for those that wait for the threads *)
  MaxLinesWaiting,   (* how many lines are typed at those                     *)
  Fds, Users, MaxTyped, MaxFaults


VARIABLES
  spc, newfd, child, holds, pending, handling,                  (* 06forktcp   *)
  loops, lpc, served,                                           (* 05, 01      *)
  mpc, table, buf, threadFd, tpc, blocked, threadBuf, raced,    (* 07threadtcp *)
  usrv, ucpc, typed, shown, net, datagram, lost, doubled        (* 03udp       *)

Fork   == INSTANCE ForkTcp
Loop   == INSTANCE LoopTcp
Thread == INSTANCE ThreadTcp WITH newfd <- threadFd, rbuf <- threadBuf
Udp    == INSTANCE UdpEcho WITH rbuf <- datagram, Nothing <- NoClient

ASSUME EchoServersAssumption ==
  /\ Few \subseteq Clients /\ MaxLinesWaiting \in Nat /\ "server" \notin Users
  /\ Thread!ThreadTcpAssumption

forkVars   == <<spc, newfd, child, holds, pending, handling>>
loopVars   == <<loops, lpc, served>>
threadVars == <<mpc, table, buf, threadFd, tpc, blocked, threadBuf, raced>>
udpVars    == <<usrv, ucpc, typed, shown, net, datagram, lost, doubled>>
vars       == <<echoVars, forkVars, loopVars, threadVars, udpVars>>

If(started, state) == IF started THEN state ELSE "off"

(* The threaded server may start with more clients, which wait for it. The     *)
(* clients that poll are looked at with the sequential servers.                *)
Init ==
  \E server \in {"fork", "loop", "thread", "udp"} :
    /\ CASE server = "udp" -> EchoInit({}, 0)
         [] server = "thread" -> EchoInit(Few, MaxLines) \/ EchoInitWaiting(MaxLinesWaiting)
         [] server = "loop" -> /\ \E first \in {"start", "connect"} : EchoInitAt(first, Few, MaxLines)
                               /\ backlog = <<>>
         [] OTHER -> EchoInit(Few, MaxLines)
    /\ Fork!ForkInit /\ spc = If(server = "fork", "accept")
    /\ Loop!LoopInit /\ lpc = If(server = "loop", "accept") /\ (server # "loop" => ~loops)
    /\ Thread!ThreadInit /\ mpc = If(server = "thread", "accept")
    /\ Udp!UdpInit(IF server = "udp" THEN Users ELSE {})
    /\ usrv = If(server = "udp", "recvfrom")

ListenerOpen == Fork!ListenerOpen \/ Loop!ListenerOpen \/ Thread!ListenerOpen

(* The far end of the connection of client c is still open. *)
Connected(c) == Fork!Connected(c) \/ Loop!Connected(c) \/ Thread!Connected(c)

Next ==
  \/ /\ \E c \in Clients : \/ ClientStep(c, ListenerOpen, Connected(c))
                             \/ PollStep(c, ListenerOpen, Connected(c))
     /\ UNCHANGED <<forkVars, loopVars, threadVars, udpVars>>
  \/ Fork!ServerStep   /\ UNCHANGED <<loopVars, threadVars, udpVars>>
  \/ Loop!ServerStep   /\ UNCHANGED <<forkVars, threadVars, udpVars>>
  \/ Thread!ServerStep /\ UNCHANGED <<forkVars, loopVars, udpVars>>
  \/ Udp!UdpStep       /\ UNCHANGED <<echoVars, forkVars, loopVars, threadVars>>
  \/ Idle /\ UNCHANGED vars

Fairness ==
  /\ \A c \in Clients :
       WF_echoVars(ClientReceives(c, Connected(c)) \/ PollReceives(c, Connected(c)))
  /\ Fork!ServerFairness /\ Loop!ServerFairness /\ Thread!ServerFairness
  /\ Udp!UdpFairness

Spec == Init /\ [][Next]_vars /\ Fairness

-------------------------------------------------------------------------------
(* The forking server forgets no zombie.                                      *)
ZombiesAreNoticed == Fork!ZombiesAreNoticed

(* A process of the forking server holds the connection of its client only.   *)
ConnectionsArePrivate == Fork!ConnectionsArePrivate

(* The threads of the threaded server work on the descriptors of their own    *)
(* connections, which they close once, unless one took that of another.       *)
ThreadsKeepApart == Thread!ThreadsKeepApart

(* What a client receives is the echo of its own line, unless a thread of the *)
(* threaded server works on the connection of another; a datagram client      *)
(* shows the echo of the line it has just sent, in whatever order datagrams   *)
(* arrive, unless one of them was doubled.                                    *)
OwnEcho ==
  /\ raced \/ \A c \in Clients : /\ ToSet(responses[c]) \subseteq {c}
                                 /\ Len(responses[c]) > 1 => cpc[c] \in {"poll", "reset"}
  /\ doubled > 0 \/ \A u \in Users : ucpc[u] = "prompt" => shown[u] = typed[u]

(* The server is busy with the connection of a client other than c, who has   *)
(* not left.                                                                  *)
ServesAnother(c) == served \in Clients \ {c} /\ cpc[served] # "closed"

(* Client c waits for an echo, or has something to receive.                   *)
Waits(c) ==
  \/ cpc[c] = "recv"
  \/ cpc[c] = "poll" /\ (requests[c] > 0 \/ responses[c] # <<>> \/ ~Connected(c))

(* A client that waits for an echo gets one or learns that the connection is  *)
(* closed, also when its server fails. The exceptions are in the code: the    *)
(* sequential servers make it wait until the client before it leaves, a race  *)
(* of threads leaves it without a thread, and without a timeout a datagram    *)
(* lost, or a datagram server that ended, leaves it in recvfrom. A client     *)
(* that polls may not learn of the end of its connection but loop for ever,   *)
(* in the place "reset".                                                      *)
EveryServerAnswers ==
  /\ \A c \in Clients : Waits(c) ~> ~Waits(c) \/ ServesAnother(c) \/ raced
  /\ \A u \in Users :
       ucpc[u] = "recvfrom" ~> ucpc[u] = "prompt" \/ lost > 0 \/ usrv = "down"

(* When a client has left, its connection is closed and its process is        *)
(* reaped, unless it waits behind another client, or a thread failed to send  *)
(* and left its descriptor open.                                              *)
NothingIsLeft ==
  \A c \in Clients :
    cpc[c] = "closed" ~>
      \/ ~Connected(c) /\ child[c] \in {"none", "reaped"}
      \/ ServesAnother(c) \/ raced \/ tpc[c] = "failed"
===============================================================================
