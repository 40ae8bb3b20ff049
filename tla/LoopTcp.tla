-------------------------------- MODULE LoopTcp --------------------------------
(***************************************************************************)
(* The echo servers that serve one connection at a time, in one thread:    *)
(* network/day2/05looptcp.cpp, which accepts the next connection when a    *)
(* client has left, and 01tcp.cpp, which ends then.                        *)
(***************************************************************************)
EXTENDS EchoClient

VARIABLES
  loops,    (* whether the program is 05looptcp.cpp                           *)
  lpc,      (* where the server is; "off": not started                        *)
  served    (* the connection accepted last                                   *)

loopVars == <<loops, lpc, served>>
vars     == <<echoVars, loopVars>>

LoopInit == loops \in BOOLEAN /\ served = NoClient

Init == EchoInit(Clients, MaxLines) /\ LoopInit /\ lpc = "accept"

ListenerOpen == lpc \notin {"off", "down"}

(* The far end of the connection of client c is still open. *)
Connected(c) ==
  \/ ListenerOpen /\ c \in ToSet(backlog)
  \/ lpc \in {"recv", "send"} /\ served = c

ServerGoes(from, to) == lpc = from /\ lpc' = to /\ UNCHANGED loops

Accept ==
  /\ backlog # <<>>
  /\ ServerGoes("accept", "recv")
  /\ served' = Head(backlog)
  /\ backlog' = Tail(backlog)
  /\ UNCHANGED <<clientVars, wireVars>>

(* accept fails, or send after the connection was reset, if SIGPIPE does not  *)
(* end the server first.                                                      *)
ServerFails ==
  /\ \/ ServerGoes("accept", "down")
     \/ served \in refused /\ ServerGoes("send", "down")
  /\ UNCHANGED <<echoVars, served>>

Receive ==
  /\ ServerGoes("recv", "send")
  /\ requests[served] > 0
  /\ requests' = [requests EXCEPT ![served] = @ - 1]
  /\ UNCHANGED <<clientVars, responses, refused, backlog, served>>

(* recv returns -1 after a reset: it is not tested for. *)
ReceiveFails ==
  /\ served \in refused
  /\ ServerGoes("recv", "send")
  /\ UNCHANGED <<echoVars, served>>

Send ==
  /\ served \notin refused
  /\ ServerGoes("send", "recv")
  /\ Echo(served, served)
  /\ UNCHANGED <<clientVars, requests, backlog, served>>

(* Mutated form: 05looptcp.cpp ends like 01tcp.cpp but stays in its loop.     *)
PeerLeftUnclosed ==
  /\ ServerGoes("recv", IF loops THEN "recv" ELSE "down")
  /\ ClientGone(served)
  /\ UNCHANGED <<echoVars, served>>

(* recv returns 0: the connection is closed. *)
PeerLeft ==
  /\ ServerGoes("recv", IF loops THEN "accept" ELSE "down")
  /\ ClientGone(served)
  /\ served' = NoClient
  /\ UNCHANGED echoVars

Serve == Receive \/ ReceiveFails \/ Send \/ PeerLeft

ServerStep == Accept \/ Serve \/ ServerFails

Next ==
  \/ \E c \in Clients : ClientStep(c, ListenerOpen, Connected(c)) /\ UNCHANGED loopVars
  \/ ServerStep
  \/ Idle /\ UNCHANGED vars

(* The server runs; accept need not fail, send on a reset connection does.    *)
ServerFairness == WF_vars(Accept \/ Serve \/ (lpc = "send" /\ ServerFails))

Fairness ==
  /\ \A c \in Clients : WF_echoVars(ClientReceives(c, Connected(c)))
  /\ ServerFairness

Spec == Init /\ [][Next]_vars /\ Fairness
===============================================================================
