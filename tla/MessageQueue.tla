----------------------------- MODULE MessageQueue -----------------------------
(***************************************************************************)
(* Lines sent through a System V message queue: fork/day3/02msgsnd.cpp and *)
(* 03msgrcv.cpp. Both get the queue by its key and create it if there is   *)
(* none; it outlives them. The receiver takes messages of type 1 only, and *)
(* removes the queue after quit. Neither tests what msgsnd or msgrcv       *)
(* return.                                                                 *)
(*                                                                         *)
(* The ghost field run of a message says by which run of the sender it was *)
(* typed, and quitRun of which run the quit is that a receiver has taken.  *)
(***************************************************************************)
EXTENDS Naturals, Sequences, SequencesExt

CONSTANTS
  Receivers,   (* the runs of the receiver, also of two at the same time        *)
  Types,       (* the message types that are typed                             *)
  Capacity,    (* how many messages fit into the queue                         *)
  MaxRuns,     (* how often the sender is started                              *)
  MaxTyped     (* how many messages are typed                                  *)

QueueAssumption == Capacity \in Nat \ {0} /\ "sender" \notin Receivers

Texts == {"line", "quit"}

VARIABLES
  msgs,      (* the messages in the queue of the key                          *)
  got,       (* the processes that have got this queue, not one removed since *)
  sender,    (* where the sender is                                           *)
  run,       (* which run of it this is                                       *)
  buf,       (* the message that it is sending                                *)
  left,      (* how many messages will still be typed at most                 *)
  receiver,  (* where each receiver is                                        *)
  quitRun

queueVars == <<msgs, got, sender, run, buf, left, receiver, quitRun>>

NoMessage == [mtype |-> 0, text |-> "line", run |-> 0]

Init ==
  /\ msgs = <<>> /\ got = {}
  /\ sender = "off" /\ run = 0 /\ buf = NoMessage /\ left = MaxTyped
  /\ receiver = [p \in Receivers |-> "off"]
  /\ quitRun = [p \in Receivers |-> 0]

(* msgget(key, IPC_CREAT): there is a queue after it. *)
Msgget(p) == got' = got \cup {p}

-------------------------------------------------------------------------------
(* 02msgsnd.cpp                                                               *)

StartSender ==
  /\ sender = "off" /\ run < MaxRuns
  /\ Msgget("sender")
  /\ sender' = "prompt" /\ run' = run + 1
  /\ UNCHANGED <<msgs, buf, left, receiver, quitRun>>

TypeMessage ==
  /\ sender = "prompt" /\ left > 0
  /\ \E type \in Types, text \in Texts : buf' = [mtype |-> type, text |-> text, run |-> run]
  /\ sender' = "msgsnd" /\ left' = left - 1
  /\ UNCHANGED <<msgs, got, run, receiver, quitRun>>

(* It blocks while the queue is full, and fails if the queue has been removed *)
(* or the type is not positive; success is printed in any case.               *)
Msgsnd ==
  /\ sender = "msgsnd"
  /\ LET fails == "sender" \notin got \/ buf.mtype = 0 IN
     /\ fails \/ Len(msgs) < Capacity
     /\ msgs' = IF fails THEN msgs ELSE Append(msgs, buf)
  /\ sender' = IF buf.text = "quit" THEN "off" ELSE "prompt"
  /\ buf' = NoMessage
  /\ UNCHANGED <<got, run, left, receiver, quitRun>>

SenderDies ==
  /\ sender \in {"prompt", "msgsnd"} /\ sender' = "off" /\ buf' = NoMessage
  /\ UNCHANGED <<msgs, got, run, left, receiver, quitRun>>

-------------------------------------------------------------------------------
(* 03msgrcv.cpp                                                               *)

StartReceiver(p) ==
  /\ receiver[p] = "off"
  /\ Msgget(p)
  /\ receiver' = [receiver EXCEPT ![p] = "msgrcv"]
  /\ UNCHANGED <<msgs, sender, run, buf, left, quitRun>>

OfType1(m) == m.mtype = 1

(* Mutated form: the latest message is taken. *)
WantedLatest == {i \in DOMAIN msgs : OfType1(msgs[i])
                                      /\ \A j \in (i + 1)..Len(msgs) : ~OfType1(msgs[j])}

(* msgrcv with type 1 takes the first message of this type. *)
Wanted == {i \in DOMAIN msgs : OfType1(msgs[i]) /\ \A j \in 1..(i - 1) : ~OfType1(msgs[j])}

(* It blocks while there is none. When another receiver has removed the queue *)
(* it fails, and the loop goes on: that changes nothing.                      *)
Msgrcv(p) ==
  /\ receiver[p] = "msgrcv" /\ p \in got
  /\ \E i \in Wanted :
       LET quits == msgs[i].text = "quit" IN
       /\ msgs' = RemoveAt(msgs, i)
       /\ receiver' = [receiver EXCEPT ![p] = IF quits THEN "msgctl" ELSE "msgrcv"]
       /\ quitRun' = [quitRun EXCEPT ![p] = IF quits THEN msgs[i].run ELSE 0]
  /\ UNCHANGED <<got, sender, run, buf, left>>

(* msgctl(msqid, IPC_RMID) *)
RemoveQueue(p) ==
  /\ receiver[p] = "msgctl"
  /\ msgs' = IF p \in got THEN <<>> ELSE msgs
  /\ got' = IF p \in got THEN {} ELSE got
  /\ receiver' = [receiver EXCEPT ![p] = "ended"]
  /\ UNCHANGED <<sender, run, buf, left, quitRun>>

ReceiverDies(p) ==
  /\ receiver[p] \in {"msgrcv", "msgctl"}
  /\ receiver' = [receiver EXCEPT ![p] = "ended"]
  /\ UNCHANGED <<msgs, got, sender, run, buf, left, quitRun>>

Next ==
  \/ StartSender \/ TypeMessage \/ Msgsnd \/ SenderDies
  \/ \E p \in Receivers : StartReceiver(p) \/ Msgrcv(p) \/ RemoveQueue(p) \/ ReceiverDies(p)

(* Programs run; users need not type. *)
Fairness ==
  /\ WF_queueVars(Msgsnd)
  /\ \A p \in Receivers : WF_queueVars(Msgrcv(p) \/ RemoveQueue(p))

-------------------------------------------------------------------------------
Receiving(p) == receiver[p] = "msgrcv" /\ p \in got

(* When a receiver removes the queue, no message of type 1 typed before the   *)
(* quit it has taken is lost with it: those left are of a later run.          *)
LeavesOnlyOnQuit ==
  \A p \in Receivers :
    receiver[p] = "msgctl" /\ p \in got =>
      \A i \in DOMAIN msgs : OfType1(msgs[i]) => msgs[i].run > quitRun[p]

(* quit with type 1 ends a receiver that waits on the queue and is not killed *)
(* (its queue may also end by the quit of another run).                       *)
QuitIsHeeded ==
  \A p \in Receivers :
    Receiving(p) /\ (\E i \in DOMAIN msgs : OfType1(msgs[i]) /\ msgs[i].text = "quit") ~>
      ~Receiving(p) \/ \A i \in DOMAIN msgs : OfType1(msgs[i]) => msgs[i].text # "quit"

(* A sender waits for room only while there is no receiver, or the queue is   *)
(* full of types that no receiver takes, when everybody waits for ever.       *)
WaitersReturn ==
  sender = "msgsnd" ~>
    \/ sender # "msgsnd" \/ \A p \in Receivers : ~Receiving(p)
    \/ Len(msgs) = Capacity /\ \A i \in DOMAIN msgs : ~OfType1(msgs[i])
===============================================================================
