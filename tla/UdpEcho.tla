-------------------------------- MODULE UdpEcho --------------------------------
(***************************************************************************)
(* The datagram echo server network/day2/03udp.cpp and its client          *)
(* 04udp.cpp. Both block in recvfrom without a timeout and send nothing    *)
(* twice. The network may lose a datagram, deliver it twice and overtake   *)
(* one with another; the ghosts lost and doubled count how often it did    *)
(* the first two. A datagram is known by its client and the number of the  *)
(* line in it.                                                             *)
(***************************************************************************)
EXTENDS Naturals, Bags, TLC

CONSTANTS
  Users,       (* the clients                                                  *)
  MaxTyped,    (* how many lines are typed at each client                      *)
  MaxFaults,   (* how many datagrams are lost or doubled                       *)
  Nothing

VARIABLES
  usrv,        (* where the server is; "off": not started                      *)
  ucpc,        (* where each client is                                         *)
  typed,       (* how many lines it has sent                                   *)
  shown,       (* which line the last echo it has printed was of               *)
  net,         (* the datagrams on their way, a bag                           *)
  rbuf,        (* the datagram that the server is about to send back           *)
  lost, doubled

udpVars == <<usrv, ucpc, typed, shown, net, rbuf, lost, doubled>>

(* Only the clients in coming are ever started. *)
UdpInit(coming) ==
  /\ ucpc = [u \in Users |-> IF u \in coming THEN "prompt" ELSE "none"]
  /\ typed = [u \in Users |-> 0]
  /\ shown = [u \in Users |-> 0]
  /\ net = EmptyBag
  /\ rbuf = Nothing
  /\ lost = 0 /\ doubled = 0

Init == UdpInit(Users) /\ usrv = "recvfrom"

(* sendto puts a datagram on the net, in one copy or in two, or loses it. *)
Sendto(d) ==
  \E copies \in 0..2 :
    /\ copies # 1 => lost + doubled < MaxFaults
    /\ net' = IF copies = 0 THEN net ELSE net (+) [e \in {d} |-> copies]
    /\ lost' = lost + (IF copies = 0 THEN 1 ELSE 0)
    /\ doubled' = doubled + (IF copies = 2 THEN 1 ELSE 0)

Datagram(to, u, no) == [to |-> to, user |-> u, line |-> no]

-------------------------------------------------------------------------------
(* The client.                                                                *)

TypeLine(u) ==
  /\ ucpc[u] = "prompt" /\ typed[u] < MaxTyped
  /\ ucpc' = [ucpc EXCEPT ![u] = "recvfrom"]
  /\ typed' = [typed EXCEPT ![u] = @ + 1]
  /\ Sendto(Datagram("server", u, typed[u] + 1))
  /\ UNCHANGED <<usrv, shown, rbuf>>

(* recvfrom takes whichever datagram arrives next. *)
ShowEcho(u) ==
  /\ ucpc[u] = "recvfrom"
  /\ \E d \in BagToSet(net) :
       /\ d.to = u
       /\ net' = net (-) SetToBag({d})
       /\ shown' = [shown EXCEPT ![u] = d.line]
  /\ ucpc' = [ucpc EXCEPT ![u] = "prompt"]
  /\ UNCHANGED <<usrv, typed, rbuf, lost, doubled>>

-------------------------------------------------------------------------------
(* The server.                                                                *)

ServerReceives ==
  /\ usrv = "recvfrom"
  /\ \E d \in BagToSet(net) : d.to = "server" /\ net' = net (-) SetToBag({d}) /\ rbuf' = d
  /\ usrv' = "sendto"
  /\ UNCHANGED <<ucpc, typed, shown, lost, doubled>>

(* Mutated form: the address is the one of the next datagram, if there is one. *)
ServerSendsToNext ==
  /\ usrv = "sendto"
  /\ \E u \in {d.user : d \in {e \in BagToSet(net) \cup {rbuf} : e.to = "server"}} :
       Sendto([Datagram(u, u, rbuf.line) EXCEPT !.user = rbuf.user])
  /\ usrv' = "recvfrom" /\ rbuf' = Nothing
  /\ UNCHANGED <<ucpc, typed, shown>>

(* The echo goes to where the datagram came from. sendto is not checked.      *)
ServerSends ==
  /\ usrv = "sendto"
  /\ Sendto(Datagram(rbuf.user, rbuf.user, rbuf.line))
  /\ usrv' = "recvfrom" /\ rbuf' = Nothing
  /\ UNCHANGED <<ucpc, typed, shown>>

(* recvfrom fails and the server ends. *)
ServerFails ==
  /\ usrv = "recvfrom" /\ usrv' = "down"
  /\ UNCHANGED <<ucpc, typed, shown, net, rbuf, lost, doubled>>

UdpStep ==
  \/ \E u \in Users : TypeLine(u) \/ ShowEcho(u)
  \/ ServerReceives \/ ServerSends \/ ServerFails

(* Users need not type, and recvfrom need not fail. *)
UdpFairness ==
  /\ \A u \in Users : WF_udpVars(ShowEcho(u))
  /\ WF_udpVars(ServerReceives \/ ServerSends)
===============================================================================
