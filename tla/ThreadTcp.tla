------------------------------- MODULE ThreadTcp -------------------------------
(***************************************************************************)
(* The echo server network/day2/07threadtcp.cpp, which starts a thread for *)
(* each connection.                                                        *)
(*                                                                         *)
(* A thread takes its descriptor from buf, a variable of the main loop, at *)
(* some time after pthread_create has returned: the next accept may have   *)
(* overwritten buf by then, and raced records that one has read the        *)
(* descriptor of another connection. Threads share the table of            *)
(* descriptors, where accept takes the lowest free one. The thread started *)
(* for a client bears its name.                                            *)
(***************************************************************************)
EXTENDS EchoClient

CONSTANT Fds     (* the descriptors left for connections                      *)

ThreadTcpAssumption == Fds \subseteq Nat

VARIABLES
  mpc,        (* where main is; "off": not started                            *)
  table,      (* the connection of each open descriptor                       *)
  buf,        (* the descriptor accepted last and the address of its client   *)
  newfd,      (* the descriptor each thread works on                          *)
  tpc,        (* where each thread is                                         *)
  blocked,    (* the connection a thread is in recv on                        *)
  rbuf,       (* whose line it has received and not sent                      *)
  raced       (* a thread has read the descriptor of another one              *)

threadVars == <<mpc, table, buf, newfd, tpc, blocked, rbuf, raced>>
vars       == <<echoVars, threadVars>>

NoFd == 0 - 1

ThreadInit ==
  /\ table = [f \in Fds |-> NoClient]
  /\ buf = [newfd |-> NoFd, cin |-> NoClient]
  /\ newfd = [c \in Clients |-> NoFd]
  /\ tpc = [c \in Clients |-> "none"]
  /\ blocked = [c \in Clients |-> NoClient]
  /\ rbuf = [c \in Clients |-> NoClient]
  /\ raced = FALSE

Init == EchoInit(Clients, MaxLines) /\ ThreadInit /\ mpc = "accept"

ListenerOpen == mpc \notin {"off", "down"}

(* The far end of the connection of client c is still open: a thread in recv  *)
(* keeps it open also when its descriptor has been closed.                    *)
Connected(c) ==
  \/ ListenerOpen /\ c \in ToSet(backlog)
  \/ \E f \in Fds : table[f] = c
  \/ \E t \in Clients : blocked[t] = c

-------------------------------------------------------------------------------
(* main                                                                       *)

Free == {f \in Fds : table[f] = NoClient}

(* The process ends, and with it all threads and descriptors. *)
Down ==
  /\ mpc' = "down"
  /\ table' = [f \in Fds |-> NoClient]
  /\ buf' = [newfd |-> NoFd, cin |-> NoClient]
  /\ newfd' = [c \in Clients |-> NoFd]
  /\ tpc' = [c \in Clients |-> "ended"]
  /\ blocked' = [c \in Clients |-> NoClient]
  /\ rbuf' = [c \in Clients |-> NoClient]
  /\ UNCHANGED raced

Accept ==
  /\ mpc = "accept" /\ backlog # <<>> /\ Free # {}
  /\ mpc' = "create"
  /\ buf' = [newfd |-> Min(Free), cin |-> Head(backlog)]
  /\ table' = [table EXCEPT ![Min(Free)] = Head(backlog)]
  /\ backlog' = Tail(backlog)
  /\ UNCHANGED <<clientVars, wireVars, newfd, tpc, blocked, rbuf, raced>>

CreateThread ==
  /\ mpc = "create"
  /\ mpc' = "accept"
  /\ tpc' = [tpc EXCEPT ![buf.cin] = "start"]
  /\ UNCHANGED <<echoVars, table, buf, newfd, blocked, rbuf, raced>>

(* No descriptor is left for accept. *)
AcceptFindsNoDescriptor ==
  /\ mpc = "accept" /\ backlog # <<>> /\ Free = {}
  /\ Down /\ UNCHANGED echoVars

(* accept or pthread_create fails. *)
MainFails == mpc \in {"accept", "create"} /\ Down /\ UNCHANGED echoVars

-------------------------------------------------------------------------------
(* deal, the thread started for client t.                                     *)

ThreadGoes(t, from, to) == tpc[t] = from /\ tpc' = [tpc EXCEPT ![t] = to]

(* It reads its argument. *)
ThreadStarts(t) ==
  /\ ThreadGoes(t, "start", "recv")
  /\ newfd' = [newfd EXCEPT ![t] = buf.newfd]
  /\ raced' = (raced \/ buf.cin # t)
  /\ UNCHANGED <<echoVars, mpc, table, buf, blocked, rbuf>>

(* recv is called; it fails at once on a descriptor that is closed. *)
CallRecv(t) ==
  /\ LET conn == table[newfd[t]] IN
     /\ ThreadGoes(t, "recv", IF conn = NoClient THEN "send" ELSE "blocked")
     /\ blocked' = [blocked EXCEPT ![t] = conn]
  /\ UNCHANGED <<echoVars, mpc, table, buf, newfd, rbuf, raced>>

Receive(t) ==
  /\ tpc[t] = "blocked" /\ requests[blocked[t]] > 0
  /\ ThreadGoes(t, "blocked", "send")
  /\ requests' = [requests EXCEPT ![blocked[t]] = @ - 1]
  /\ rbuf' = [rbuf EXCEPT ![t] = blocked[t]]
  /\ blocked' = [blocked EXCEPT ![t] = NoClient]
  /\ UNCHANGED <<clientVars, responses, refused, backlog, mpc, table, buf, newfd, raced>>

(* recv returns 0, or -1 after a reset, which is not tested for. *)
ReceiveNothing(t) ==
  /\ tpc[t] = "blocked"
  /\ \/ ClientGone(blocked[t]) /\ ThreadGoes(t, "blocked", "close")
     \/ blocked[t] \in refused /\ ThreadGoes(t, "blocked", "send")
  /\ blocked' = [blocked EXCEPT ![t] = NoClient]
  /\ UNCHANGED <<echoVars, mpc, table, buf, newfd, rbuf, raced>>

Peer(t) == table[newfd[t]]

Send(t) ==
  /\ tpc[t] = "send" /\ Peer(t) # NoClient /\ Peer(t) \notin refused
  /\ ThreadGoes(t, "send", "recv")
  /\ Echo(Peer(t), rbuf[t])
  /\ rbuf' = [rbuf EXCEPT ![t] = NoClient]
  /\ UNCHANGED <<clientVars, requests, backlog, mpc, table, buf, newfd, blocked, raced>>

(* send returns -1: the thread returns and does not close its descriptor. *)
SendFails(t) ==
  /\ tpc[t] = "send" /\ (Peer(t) = NoClient \/ Peer(t) \in refused)
  /\ ThreadGoes(t, "send", "failed")
  /\ UNCHANGED <<echoVars, mpc, table, buf, newfd, blocked, rbuf, raced>>

(* SIGPIPE ends the process. *)
SendBreaksPipe(t) ==
  /\ tpc[t] = "send" /\ Peer(t) \in refused
  /\ Down /\ UNCHANGED echoVars

(* Mutated form: the thread goes on after it has closed its descriptor. *)
CloseAndGoOn(t) ==
  /\ ThreadGoes(t, "close", "recv")
  /\ table' = [table EXCEPT ![newfd[t]] = NoClient]
  /\ UNCHANGED <<echoVars, mpc, buf, newfd, blocked, rbuf, raced>>

Close(t) ==
  /\ ThreadGoes(t, "close", "ended")
  /\ table' = [table EXCEPT ![newfd[t]] = NoClient]
  /\ UNCHANGED <<echoVars, mpc, buf, newfd, blocked, rbuf, raced>>

ThreadStep(t) ==
  \/ ThreadStarts(t) \/ CallRecv(t) \/ Receive(t) \/ ReceiveNothing(t)
  \/ Send(t) \/ SendFails(t) \/ SendBreaksPipe(t) \/ Close(t)

MainStep == Accept \/ CreateThread \/ AcceptFindsNoDescriptor

ServerStep == MainStep \/ MainFails \/ \E t \in Clients : ThreadStep(t)

Next ==
  \/ \E c \in Clients : ClientStep(c, ListenerOpen, Connected(c)) /\ UNCHANGED threadVars
  \/ ServerStep
  \/ Idle /\ UNCHANGED vars

(* main and every thread run. *)
ServerFairness == WF_vars(MainStep) /\ \A t \in Clients : WF_vars(ThreadStep(t))

Fairness ==
  /\ \A c \in Clients : WF_echoVars(ClientReceives(c, Connected(c)))
  /\ ServerFairness

Spec == Init /\ [][Next]_vars /\ Fairness

-------------------------------------------------------------------------------
(* Unless a thread has read the descriptor of another one, every thread has a *)
(* descriptor of its own, that of its connection, until it closes it: none is *)
(* closed twice or under another thread, and none is left open, except by a   *)
(* thread whose send failed.                                                  *)
ThreadsKeepApart ==
  ~raced =>
    /\ \A t \in Clients :
         tpc[t] \in {"recv", "blocked", "send", "close"} => table[newfd[t]] = t
    /\ \A f \in Fds : table[f] # NoClient => tpc[table[f]] # "ended"
===============================================================================
