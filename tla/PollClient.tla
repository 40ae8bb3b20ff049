------------------------------ MODULE PollClient ------------------------------
(***************************************************************************)
(* The client network/doubleio/02polltcp.cpp of the same servers: it polls *)
(* its input and its socket, so it may send a line while the echoes of     *)
(* others are on their way. After a reset, poll returns more than POLLIN   *)
(* for the socket: the loop does not come to recv then, and goes round     *)
(* without waiting, in the place "reset".                                  *)
(***************************************************************************)
EXTENDS EchoClient

PollConnect(c, open) ==
  /\ ClientGoes(c, "connect", IF open THEN "poll" ELSE "closed")
  /\ backlog' = IF open THEN Append(backlog, c) ELSE backlog
  /\ UNCHANGED <<lines, wireVars>>

PollSendLine(c, connected) ==
  /\ cpc[c] = "poll" /\ lines > 0
  /\ lines' = lines - 1
  /\ requests' = IF connected THEN [requests EXCEPT ![c] = @ + 1] ELSE requests
  /\ UNCHANGED <<cpc, responses, refused, backlog>>

(* Send after a reset: SIGPIPE. *)
PollSendIsBroken(c) ==
  /\ lines > 0
  /\ ClientGoes(c, "reset", "closed")
  /\ UNCHANGED <<lines, wireVars, backlog>>

(* One recv takes all that has arrived. *)
PollReceive(c) ==
  /\ cpc[c] = "poll" /\ responses[c] # <<>>
  /\ responses' = [responses EXCEPT ![c] = <<>>]
  /\ UNCHANGED <<clientVars, requests, refused, backlog>>

(* recv returns 0, or the connection was reset. *)
PollServerClosed(c, connected) ==
  /\ responses[c] = <<>> /\ ~connected
  /\ \E to \in {"closed", "reset"} : ClientGoes(c, "poll", to)
  /\ UNCHANGED <<lines, wireVars, backlog>>

PollClientDies(c) ==
  /\ \E from \in {"poll", "reset"} : ClientGoes(c, from, "closed")
  /\ refused' = IF responses[c] # <<>> THEN refused \cup {c} ELSE refused
  /\ responses' = [responses EXCEPT ![c] = <<>>]
  /\ UNCHANGED <<lines, requests, backlog>>

PollReceives(c, connected) == PollReceive(c) \/ PollServerClosed(c, connected)

PollStep(c, open, connected) ==
  \/ PollConnect(c, open) \/ PollReceives(c, connected)
  \/ PollSendLine(c, connected) \/ PollSendIsBroken(c)
  \/ PollClientDies(c)
===============================================================================
