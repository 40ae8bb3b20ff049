------------------------------ MODULE EchoClient ------------------------------
(***************************************************************************)
(* The TCP client network/day2/02tcp.cpp and the connections between       *)
(* clients and a server. The servers 01tcp.cpp, 05looptcp.cpp,             *)
(* 06forktcp.cpp and 07threadtcp.cpp listen on the same address, echo what *)
(* a client types, and are used with this client: their modules extend     *)
(* this one.                                                               *)
(*                                                                         *)
(* The client sends its whole buffer, as long as the server's, so one recv *)
(* takes one request. Of an echo the model keeps whose line it is. Whether *)
(* the listening socket is open, and whether the far end of a connection   *)
(* is, are for the server to say.                                          *)
(***************************************************************************)
EXTENDS Naturals, Sequences, SequencesExt

CONSTANTS
  Clients,
  MaxLines,    (* how many lines are typed, at all clients together            *)
  NoClient

ASSUME EchoClientAssumption ==
  /\ IsFiniteSet(Clients) /\ NoClient \notin Clients /\ "server" \notin Clients
  /\ MaxLines \in Nat

VARIABLES
  cpc,        (* where each client is                                         *)
  lines,      (* how many lines will still be typed at most                  *)
  requests,   (* how many requests on each connection were not received yet   *)
  responses,  (* the lines whose echoes each client has not received          *)
  refused,    (* the clients that are gone and whose system refused data      *)
  backlog     (* the connections that wait for accept                         *)

clientVars == <<cpc, lines>>
wireVars   == <<requests, responses, refused>>
echoVars   == <<clientVars, wireVars, backlog>>

(* The clients in coming are at the place first, the others stay away; up to  *)
(* n lines are typed.                                                        *)
EchoInitAt(first, coming, n) ==
  /\ cpc = [c \in Clients |-> IF c \in coming THEN first ELSE "closed"]
  /\ lines = n
  /\ requests = [c \in Clients |-> 0]
  /\ responses = [c \in Clients |-> <<>>]
  /\ refused = {}

EchoInit(coming, n) == EchoInitAt("start", coming, n) /\ backlog = <<>>

(* All clients have connected already and wait for accept.                   *)
EchoInitWaiting(n) == EchoInitAt("prompt", Clients, n) /\ backlog = SetToSeq(Clients)

ClientGoes(c, from, to) == cpc[c] = from /\ cpc' = [cpc EXCEPT ![c] = to]

Connect(c, open) ==
  /\ ClientGoes(c, "start", IF open THEN "prompt" ELSE "closed")
  /\ backlog' = IF open THEN Append(backlog, c) ELSE backlog
  /\ UNCHANGED <<lines, wireVars>>

(* A line is typed and sent; recv is next. *)
SendLine(c, connected) ==
  /\ lines > 0 /\ lines' = lines - 1
  /\ ClientGoes(c, "prompt", "recv")
  /\ requests' = IF connected THEN [requests EXCEPT ![c] = @ + 1] ELSE requests
  /\ UNCHANGED <<responses, refused, backlog>>

(* The connection was reset: send kills the client with SIGPIPE. *)
SendIsBroken(c, connected) ==
  /\ ~connected /\ lines > 0
  /\ ClientGoes(c, "prompt", "closed")
  /\ UNCHANGED <<lines, wireVars, backlog>>

ReceiveResponse(c) ==
  /\ responses[c] # <<>>
  /\ ClientGoes(c, "recv", "prompt")
  /\ responses' = [responses EXCEPT ![c] = <<>>]
  /\ UNCHANGED <<lines, requests, refused, backlog>>

(* recv returns 0, or -1 after a reset, which is not tested for. *)
ServerClosed(c, connected) ==
  /\ responses[c] = <<>> /\ ~connected
  /\ \E to \in {"closed", "prompt"} : ClientGoes(c, "recv", to)
  /\ UNCHANGED <<lines, wireVars, backlog>>

(* The client is killed: its loop has no other end. A response it has not     *)
(* received makes its system reset the connection.                            *)
ClientDies(c) ==
  /\ \E from \in {"prompt", "recv"} : ClientGoes(c, from, "closed")
  /\ refused' = IF responses[c] # <<>> THEN refused \cup {c} ELSE refused
  /\ responses' = [responses EXCEPT ![c] = <<>>]
  /\ UNCHANGED <<lines, requests, backlog>>

ClientStep(c, open, connected) ==
  \/ Connect(c, open)
  \/ SendLine(c, connected) \/ SendIsBroken(c, connected)
  \/ ReceiveResponse(c) \/ ServerClosed(c, connected)
  \/ ClientDies(c)

(* recv returns when it can. *)
ClientReceives(c, connected) == ReceiveResponse(c) \/ ServerClosed(c, connected)

(* The echo of a line of client d, or of nobody's, arrives at client c; what  *)
(* a client that is gone does not take is refused.                            *)
Echo(c, d) ==
  /\ responses' = IF cpc[c] = "closed" THEN responses
                  ELSE [responses EXCEPT ![c] = Append(@, d)]
  /\ refused' = IF cpc[c] = "closed" THEN refused \cup {c} ELSE refused

(* recv at the far end of the connection of client c returns 0. *)
ClientGone(c) == cpc[c] = "closed" /\ (requests[c] = 0 \/ c \in refused)

(* Nobody types any more. *)
Idle ==
  \A c \in Clients :
    cpc[c] = "closed" \/ (cpc[c] \in {"prompt", "poll", "reset"} /\ lines = 0)
===============================================================================
