-------------------------------- MODULE ForkTcp --------------------------------
(***************************************************************************)
(* The echo server network/day2/06forktcp.cpp, which forks a process for   *)
(* each connection and reaps the processes in a handler of SIGCHLD.        *)
(*                                                                         *)
(* The process forked for a client bears its name. SIGCHLD is pending or   *)
(* it is not: signals of several children are not counted.                 *)
(***************************************************************************)
EXTENDS EchoClient

VARIABLES
  spc,        (* where the server's main loop is; "off": not started          *)
  newfd,      (* the connection accepted last                                 *)
  child,      (* where the process of each client is                          *)
  holds,      (* the connections that each process has a descriptor of        *)
  pending,    (* SIGCHLD is pending                                           *)
  handling    (* the server is in its handler                                 *)

signalVars == <<pending, handling>>
forkVars   == <<spc, newfd, child, holds, signalVars>>
vars       == <<echoVars, forkVars>>

ForkInit ==
  /\ newfd = NoClient
  /\ child = [c \in Clients |-> "none"]
  /\ holds = [q \in Clients \cup {"server"} |-> {}]
  /\ pending = FALSE /\ handling = FALSE

Init == EchoInit(Clients, MaxLines) /\ ForkInit /\ spc = "accept"

(* Mutated form: the child keeps its copy of sfd as long as it waits in recv. *)
ListenerOpenInChildren ==
  spc \notin {"off", "down"} \/ \E c \in Clients : child[c] \in {"start", "recv", "send"}

(* sfd is open in the server, and in a child that has not closed its copy.   *)
ListenerOpen == spc \notin {"off", "down"} \/ \E c \in Clients : child[c] = "start"

(* The far end of the connection of client c is still open. *)
Connected(c) ==
  \/ ListenerOpen /\ c \in ToSet(backlog)
  \/ \E q \in DOMAIN holds : c \in holds[q]

-------------------------------------------------------------------------------
(* The server's main loop; it stands still while the handler runs.           *)

ServerGoes(from, to) == ~handling /\ spc = from /\ spc' = to

Accept ==
  /\ backlog # <<>>
  /\ ServerGoes("accept", "fork")
  /\ newfd' = Head(backlog)
  /\ backlog' = Tail(backlog)
  /\ holds' = [holds EXCEPT !["server"] = @ \cup {Head(backlog)}]
  /\ UNCHANGED <<clientVars, wireVars, child, signalVars>>

(* The child gets copies of all descriptors of the server. *)
Fork ==
  /\ ServerGoes("fork", "close")
  /\ child' = [child EXCEPT ![newfd] = "start"]
  /\ holds' = [holds EXCEPT ![newfd] = holds["server"]]
  /\ UNCHANGED <<clientVars, wireVars, backlog, newfd, signalVars>>

(* Mutated form: the server keeps its descriptor of the connection. *)
ServerKeeps ==
  /\ ServerGoes("close", "accept")
  /\ UNCHANGED <<clientVars, wireVars, backlog, newfd, child, holds, signalVars>>

ServerCloses ==
  /\ ServerGoes("close", "accept")
  /\ holds' = [holds EXCEPT !["server"] = @ \ {newfd}]
  /\ UNCHANGED <<clientVars, wireVars, backlog, newfd, child, signalVars>>

(* accept or fork fails: main returns, and its children are init's, which    *)
(* reaps them.                                                               *)
ServerFails ==
  /\ \E from \in {"accept", "fork"} : ServerGoes(from, "down")
  /\ holds' = [holds EXCEPT !["server"] = {}]
  /\ child' = [c \in Clients |-> IF child[c] = "zombie" THEN "reaped" ELSE child[c]]
  /\ pending' = FALSE
  /\ UNCHANGED <<clientVars, wireVars, backlog, newfd, handling>>

-------------------------------------------------------------------------------
(* handler: it is not interrupted by the signal it handles, which stays       *)
(* pending and makes it run again.                                            *)

HandlerStarts ==
  /\ pending /\ ~handling
  /\ pending' = FALSE /\ handling' = TRUE
  /\ UNCHANGED <<clientVars, wireVars, backlog, spc, newfd, child, holds>>

(* Mutated form: waitpid is called once and not in a loop. *)
HandlerReapsOne ==
  /\ handling
  /\ \E c \in Clients : child[c] = "zombie" /\ child' = [child EXCEPT ![c] = "reaped"]
  /\ handling' = FALSE
  /\ UNCHANGED <<clientVars, wireVars, backlog, spc, newfd, holds, pending>>

HandlerReaps ==
  /\ handling
  /\ \E c \in Clients : child[c] = "zombie" /\ child' = [child EXCEPT ![c] = "reaped"]
  /\ UNCHANGED <<clientVars, wireVars, backlog, spc, newfd, holds, signalVars>>

HandlerReturns ==
  /\ handling
  /\ \A c \in Clients : child[c] # "zombie"
  /\ handling' = FALSE
  /\ UNCHANGED <<clientVars, wireVars, backlog, spc, newfd, child, holds, pending>>

-------------------------------------------------------------------------------
(* The process of client c.                                                   *)

ChildGoes(c, from, to) == child[c] = from /\ child' = [child EXCEPT ![c] = to]

(* close(sfd) *)
ChildClosesListener(c) ==
  /\ ChildGoes(c, "start", "recv")
  /\ UNCHANGED <<clientVars, wireVars, backlog, spc, newfd, holds, signalVars>>

ChildReceives(c) ==
  /\ requests[c] > 0 /\ c \notin refused
  /\ ChildGoes(c, "recv", "send")
  /\ requests' = [requests EXCEPT ![c] = @ - 1]
  /\ UNCHANGED <<clientVars, responses, refused, backlog, spc, newfd, holds, signalVars>>

(* recv returns -1 after a reset: it is not tested for. *)
ChildFailsToReceive(c) ==
  /\ c \in refused
  /\ ChildGoes(c, "recv", "send")
  /\ UNCHANGED <<clientVars, wireVars, backlog, spc, newfd, holds, signalVars>>

ChildSends(c) ==
  /\ c \notin refused
  /\ ChildGoes(c, "send", "recv")
  /\ Echo(c, c)
  /\ UNCHANGED <<clientVars, requests, backlog, spc, newfd, holds, signalVars>>

(* The process ends, its descriptors are closed and its parent is told. *)
Ends(c, from) ==
  /\ ChildGoes(c, from, IF spc = "down" THEN "reaped" ELSE "zombie")
  /\ holds' = [holds EXCEPT ![c] = {}]
  /\ pending' = (spc # "down")
  /\ UNCHANGED <<clientVars, wireVars, backlog, spc, newfd, handling>>

(* recv returns 0: the connection is closed and the process exits. *)
ChildExits(c) == ClientGone(c) /\ Ends(c, "recv")

(* A second refused send kills the process with SIGPIPE. *)
ChildIsKilled(c) == c \in refused /\ Ends(c, "send")

ChildStep(c) ==
  \/ ChildClosesListener(c) \/ ChildReceives(c) \/ ChildFailsToReceive(c)
  \/ ChildSends(c) \/ ChildExits(c) \/ ChildIsKilled(c)

HandlerStep == HandlerStarts \/ HandlerReaps \/ HandlerReturns

MainStep == Accept \/ Fork \/ ServerCloses

ServerStep ==
  \/ \E c \in Clients : ChildStep(c)
  \/ MainStep \/ ServerFails \/ HandlerStep

Next ==
  \/ \E c \in Clients : ClientStep(c, ListenerOpen, Connected(c)) /\ UNCHANGED forkVars
  \/ ServerStep
  \/ Idle /\ UNCHANGED vars

(* Every process runs; accept and fork need not fail.                        *)
ServerFairness ==
  /\ \A c \in Clients : WF_vars(ChildStep(c))
  /\ WF_vars(MainStep) /\ WF_vars(HandlerStep)

(* The client's recv returns when it can; users need neither type nor leave. *)
Fairness ==
  /\ \A c \in Clients : WF_echoVars(ClientReceives(c, Connected(c)))
  /\ ServerFairness

Spec == Init /\ [][Next]_vars /\ Fairness

-------------------------------------------------------------------------------
ServerStates == {"off", "accept", "fork", "close", "down"}
ChildStates  == {"none", "start", "recv", "send", "zombie", "reaped"}

(* The variables hold values of their types; a client has at most one request*)
(* or response on its way, and a server that is down handles no signal.      *)
TypeOK ==
  /\ cpc \in [Clients -> {"start", "prompt", "recv", "closed"}]
  /\ lines \in 0..MaxLines
  /\ \A c \in Clients : requests[c] \in {0, 1} /\ responses[c] \in {<<>>, <<c>>}
  /\ refused \subseteq Clients
  /\ spc \in ServerStates
  /\ child \in [Clients -> ChildStates]
  /\ spc = "down" => ~pending /\ ~handling

(* No zombie is forgotten: while one is left the handler is running or will   *)
(* run, although the signals of several children count as one.               *)
ZombiesAreNoticed ==
  \A c \in Clients : child[c] = "zombie" => pending \/ handling

(* A connection is open in its own process only, and in the server only from *)
(* accept to close: no process keeps the connection of another client open.  *)
ConnectionsArePrivate ==
  /\ \A c \in Clients : holds[c] \subseteq {c}
  /\ holds["server"] \subseteq (IF spc \in {"fork", "close"} THEN {newfd} ELSE {})
===============================================================================
