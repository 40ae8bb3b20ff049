----------------------------- MODULE CondBroadcast -----------------------------
(***************************************************************************)
(* pthread/03pthread.cpp: threads wait for a condition variable without a  *)
(* predicate, one broadcasts without the mutex, main joins them all. The   *)
(* ghost late records that a thread has begun to wait after the broadcast. *)
(***************************************************************************)
CONSTANT Waiters   (* the threads that run task2                               *)

VARIABLES
  task1,   (* where the broadcasting thread is                                 *)
  task2,   (* where each of the others is                                      *)
  joined,  (* main has joined all of them                                      *)
  late

condVars == <<task1, task2, joined, late>>

CondInit ==
  /\ joined = FALSE /\ late = FALSE
  /\ task2 = [t \in Waiters |-> "lock"]

(* Mutated form: only one thread is woken, as by pthread_cond_signal. *)
Signal ==
  /\ task1 = "sleep" /\ task1' = "ended"
  /\ \/ \E t \in Waiters : task2[t] = "wait" /\ task2' = [task2 EXCEPT ![t] = "woken"]
     \/ (\A t \in Waiters : task2[t] # "wait") /\ UNCHANGED task2
  /\ UNCHANGED <<joined, late>>

(* pthread_cond_broadcast, some time after sleep(3). *)
Broadcast ==
  /\ task1 = "sleep" /\ task1' = "ended"
  /\ task2' = [t \in Waiters |-> IF task2[t] = "wait" THEN "woken" ELSE task2[t]]
  /\ UNCHANGED <<joined, late>>

MutexFree == \A t \in Waiters : task2[t] \notin {"locked", "unlock"}

Goes(t, from, to) ==
  task2[t] = from /\ task2' = [task2 EXCEPT ![t] = to] /\ UNCHANGED <<task1, joined>>

Lock(t) == MutexFree /\ Goes(t, "lock", "locked") /\ UNCHANGED late

(* pthread_cond_wait, which releases the mutex. *)
Wait(t) == Goes(t, "locked", "wait") /\ late' = (late \/ task1 = "ended")

SpuriousWakeup(t) == Goes(t, "wait", "woken") /\ UNCHANGED late

(* It returns with the mutex. *)
Return(t) == MutexFree /\ Goes(t, "woken", "unlock") /\ UNCHANGED late

Unlock(t) == Goes(t, "unlock", "ended") /\ UNCHANGED late

Join ==
  /\ ~joined /\ task1 = "ended" /\ \A t \in Waiters : task2[t] = "ended"
  /\ joined' = TRUE /\ UNCHANGED <<task1, task2, late>>

ThreadStep(t) == Lock(t) \/ Wait(t) \/ Return(t) \/ Unlock(t)

Next ==
  \/ Broadcast \/ Join
  \/ \E t \in Waiters : ThreadStep(t) \/ SpuriousWakeup(t)

(* Every thread runs, and gets the mutex when it is free again and again.     *)
Fairness ==
  /\ WF_condVars(Broadcast) /\ WF_condVars(Join)
  /\ \A t \in Waiters : SF_condVars(ThreadStep(t))

-------------------------------------------------------------------------------
(* main returns, unless a thread has begun to wait after the broadcast: then  *)
(* it may sleep for ever.                                                     *)
WaitersReturn == <>(joined \/ late)
===============================================================================
