------------------------------ MODULE ThreadPool ------------------------------
(***************************************************************************)
(* The class ThreadPool of mynewcode/thread_pool_impl.h: worker threads    *)
(* that take tasks from one queue under one mutex and sleep on one         *)
(* condition variable, and the thread that owns the pool, which constructs *)
(* it, calls enqueue, and destroys it.                                     *)
(*                                                                         *)
(* The mutex is explicit and the two halves of condition.wait (find the    *)
(* predicate false, then release the mutex and go to sleep) are two steps, *)
(* so that what a thread does without the lock interleaves everywhere.     *)
(* A task is an identity: what it computes belongs to its caller.          *)
(***************************************************************************)
EXTENDS Naturals, Sequences, FiniteSets

CONSTANTS
  Workers,   (* the threads the constructor spawns; {} for numThreads = 0 *)
  Tasks,     (* the calls of enqueue, each with its own packaged_task     *)
  Owner,     (* the thread that owns the pool                             *)
  Nobody,    (* the holder of a free mutex                                *)
  NoTask

ASSUME PoolAssumption ==
  /\ IsFiniteSet(Workers)
  /\ Owner \notin Workers
  /\ Nobody \notin Workers \cup {Owner}
  /\ NoTask \notin Tasks

VARIABLES
  tasks,        (* the queue                                                  *)
  stop,
  queue_mutex,  (* its holder                                                 *)
  wpc,          (* where each worker is in its loop; "asleep" is inside wait  *)
  job,          (* the local variable task of each worker                     *)
  opc,          (* where the owner is                                         *)
  arg,          (* the task the owner is enqueueing                           *)
  submitted,    (* the tasks that were put in the queue                       *)
  ready         (* the tasks that ran to the end: their futures are ready     *)

workerVars == <<wpc, job>>
ownerVars  == <<opc, arg>>
poolVars   == <<tasks, stop, queue_mutex, wpc, job, opc, arg, submitted, ready>>

WorkerStates == {"unborn", "lock", "check", "block", "asleep", "run", "exited"}
OwnerStates  == {"ctor", "idle", "enqueueLock", "enqueuePush", "notifyOne",
                 "dtorLock", "dtorStop", "notifyAll", "join", "gone"}

Acquire(t) == queue_mutex = Nobody /\ queue_mutex' = t
Release    == queue_mutex' = Nobody

WorkerGoes(w, from, to) == wpc[w] = from /\ wpc' = [wpc EXCEPT ![w] = to]
OwnerGoes(from, to)     == opc = from /\ opc' = to

Sleepers == {w \in Workers : wpc[w] = "asleep"}

PoolInit ==
  /\ tasks = <<>>
  /\ stop = FALSE
  /\ queue_mutex = Nobody
  /\ wpc = [w \in Workers |-> "unborn"]
  /\ job = [w \in Workers |-> NoTask]
  /\ opc = "ctor"
  /\ arg = NoTask
  /\ submitted = {}
  /\ ready = {}

-------------------------------------------------------------------------------
(* The worker's loop.                                                         *)

WorkerLock(w) ==
  /\ WorkerGoes(w, "lock", "check")
  /\ Acquire(w)
  /\ UNCHANGED <<tasks, stop, job, ownerVars, submitted, ready>>

(* Mutated form: the wait does not look at stop. *)
WaitPredicateIgnoresStop == tasks # <<>>

WaitPredicate == stop \/ tasks # <<>>

(* Mutated form: the mutex is given up before the thread is registered as a  *)
(* sleeper, as with an unlock() followed by a wait of its own.               *)
WorkerBlocksUnlocked(w) ==
  /\ WorkerGoes(w, "check", "block")
  /\ ~WaitPredicate
  /\ Release
  /\ UNCHANGED <<tasks, stop, job, ownerVars, submitted, ready>>

WorkerBlocks(w) ==
  /\ WorkerGoes(w, "check", "block")
  /\ ~WaitPredicate
  /\ UNCHANGED <<tasks, stop, queue_mutex, job, ownerVars, submitted, ready>>

WorkerSleeps(w) ==
  /\ WorkerGoes(w, "block", "asleep")
  /\ Release
  /\ UNCHANGED <<tasks, stop, job, ownerVars, submitted, ready>>

(* condition.wait may return without a notification; the predicate is then   *)
(* evaluated again under the mutex.                                          *)
SpuriousWakeup(w) ==
  /\ WorkerGoes(w, "asleep", "lock")
  /\ UNCHANGED <<tasks, stop, queue_mutex, job, ownerVars, submitted, ready>>

(* Mutated form: the worker leaves as soon as stop is set, whatever is still *)
(* in the queue.                                                             *)
MayReturnWithWork == stop

MayReturn == stop /\ tasks = <<>>

WorkerReturns(w) ==
  /\ WorkerGoes(w, "check", "exited")
  /\ WaitPredicate /\ MayReturn
  /\ Release
  /\ UNCHANGED <<tasks, stop, job, ownerVars, submitted, ready>>

(* Mutated form: the front of the queue is read but not popped. *)
WorkerTakesNoPop(w) ==
  /\ WorkerGoes(w, "check", "run")
  /\ WaitPredicate /\ ~MayReturn
  /\ job' = [job EXCEPT ![w] = Head(tasks)]
  /\ Release
  /\ UNCHANGED <<tasks, stop, ownerVars, submitted, ready>>

WorkerTakes(w) ==
  /\ WorkerGoes(w, "check", "run")
  /\ WaitPredicate /\ ~MayReturn
  /\ job' = [job EXCEPT ![w] = Head(tasks)]
  /\ tasks' = Tail(tasks)
  /\ Release
  /\ UNCHANGED <<stop, ownerVars, submitted, ready>>

(* task() outside the mutex: the packaged_task runs, its future is ready. *)
WorkerRuns(w) ==
  /\ WorkerGoes(w, "run", "lock")
  /\ ready' = ready \cup {job[w]}
  /\ job' = [job EXCEPT ![w] = NoTask]
  /\ UNCHANGED <<tasks, stop, queue_mutex, ownerVars, submitted>>

WorkerStep(w) ==
  \/ WorkerLock(w) \/ WorkerBlocks(w) \/ WorkerSleeps(w)
  \/ WorkerReturns(w) \/ WorkerTakes(w) \/ WorkerRuns(w)

-------------------------------------------------------------------------------
(* The owner: constructor, enqueue, destructor.                               *)

SpawnWorker(w) ==
  /\ opc = "ctor"
  /\ WorkerGoes(w, "unborn", "lock")
  /\ UNCHANGED <<tasks, stop, queue_mutex, job, ownerVars, submitted, ready>>

CtorReturns ==
  /\ OwnerGoes("ctor", "idle")
  /\ \A w \in Workers : wpc[w] # "unborn"
  /\ UNCHANGED <<tasks, stop, queue_mutex, workerVars, arg, submitted, ready>>

EnqueueCalled(t) ==
  /\ OwnerGoes("idle", "enqueueLock")
  /\ t \notin submitted
  /\ arg' = t
  /\ UNCHANGED <<tasks, stop, queue_mutex, workerVars, submitted, ready>>

EnqueueLocks ==
  /\ OwnerGoes("enqueueLock", "enqueuePush")
  /\ Acquire(Owner)
  /\ UNCHANGED <<tasks, stop, workerVars, arg, submitted, ready>>

(* enqueue throws when stop is set; only the destructor sets it, on the same *)
(* thread, so the throw cannot be reached.                                   *)
EnqueuePushes ==
  /\ OwnerGoes("enqueuePush", "notifyOne")
  /\ ~stop
  /\ tasks' = Append(tasks, arg)
  /\ submitted' = submitted \cup {arg}
  /\ Release
  /\ UNCHANGED <<stop, workerVars, arg, ready>>

WakeOne ==
  \/ \E w \in Sleepers : wpc' = [wpc EXCEPT ![w] = "lock"]
  \/ Sleepers = {} /\ UNCHANGED wpc

NotifyOne ==
  /\ OwnerGoes("notifyOne", "idle")
  /\ WakeOne
  /\ arg' = NoTask
  /\ UNCHANGED <<tasks, stop, queue_mutex, job, submitted, ready>>

DtorCalled ==
  /\ OwnerGoes("idle", "dtorLock")
  /\ UNCHANGED <<tasks, stop, queue_mutex, workerVars, arg, submitted, ready>>

DtorLocks ==
  /\ OwnerGoes("dtorLock", "dtorStop")
  /\ Acquire(Owner)
  /\ UNCHANGED <<tasks, stop, workerVars, arg, submitted, ready>>

DtorStops ==
  /\ OwnerGoes("dtorStop", "notifyAll")
  /\ stop' = TRUE
  /\ Release
  /\ UNCHANGED <<tasks, workerVars, arg, submitted, ready>>

(* Mutated form: the destructor notifies one worker only. *)
NotifyAllOne ==
  /\ OwnerGoes("notifyAll", "join")
  /\ WakeOne
  /\ UNCHANGED <<tasks, stop, queue_mutex, job, arg, submitted, ready>>

NotifyAll ==
  /\ OwnerGoes("notifyAll", "join")
  /\ wpc' = [w \in Workers |-> IF w \in Sleepers THEN "lock" ELSE wpc[w]]
  /\ UNCHANGED <<tasks, stop, queue_mutex, job, arg, submitted, ready>>

(* join on each thread in turn: done when every one of them has returned. *)
DtorJoins ==
  /\ OwnerGoes("join", "gone")
  /\ \A w \in Workers : wpc[w] = "exited"
  /\ UNCHANGED <<tasks, stop, queue_mutex, workerVars, arg, submitted, ready>>

OwnerLocks == EnqueueLocks \/ DtorLocks

(* What the owner does inside a call it has begun. *)
OwnerStep ==
  \/ \E w \in Workers : SpawnWorker(w)
  \/ CtorReturns \/ OwnerLocks \/ EnqueuePushes \/ NotifyOne
  \/ DtorStops \/ NotifyAll \/ DtorJoins

Gone == opc = "gone" /\ UNCHANGED poolVars

PoolNext ==
  \/ \E w \in Workers : WorkerStep(w) \/ SpuriousWakeup(w)
  \/ OwnerStep
  \/ \E t \in Tasks : EnqueueCalled(t)
  \/ DtorCalled
  \/ Gone

(* Every thread that can take a step of its own eventually takes it, and the *)
(* mutex does not refuse the owner for ever while others keep getting it.    *)
(* Nothing makes the owner call enqueue or destroy the pool.                 *)
PoolFairness ==
  /\ \A w \in Workers : WF_poolVars(WorkerStep(w))
  /\ WF_poolVars(OwnerStep)
  /\ SF_poolVars(OwnerLocks)

PoolSafetySpec == PoolInit /\ [][PoolNext]_poolVars
PoolSpec == PoolSafetySpec /\ PoolFairness

-------------------------------------------------------------------------------
(* What the pool promises.                                                    *)

(* Every variable of the pool holds a value of its type. *)
PoolTypeOK ==
  /\ tasks \in Seq(Tasks)
  /\ stop \in BOOLEAN
  /\ queue_mutex \in Workers \cup {Owner, Nobody}
  /\ wpc \in [Workers -> WorkerStates]
  /\ job \in [Workers -> Tasks \cup {NoTask}]
  /\ opc \in OwnerStates
  /\ arg \in Tasks \cup {NoTask}
  /\ submitted \in SUBSET Tasks
  /\ ready \in SUBSET Tasks

Queued  == {tasks[i] : i \in 1..Len(tasks)}
Running == {job[w] : w \in {v \in Workers : wpc[v] = "run"}}

(* A task that was enqueued is in exactly one place: once in the queue, in   *)
(* the hands of one worker, or done. No interleaving of the workers loses a  *)
(* task or runs it twice (a packaged_task called twice would throw).         *)
TaskInOnePlace ==
  /\ submitted = Queued \cup Running \cup ready
  /\ Queued \cap Running = {} /\ Queued \cap ready = {} /\ Running \cap ready = {}
  /\ \A i, j \in 1..Len(tasks) : tasks[i] = tasks[j] => i = j
  /\ \A v, w \in Workers : wpc[v] = "run" /\ wpc[w] = "run" /\ job[v] = job[w] => v = w

Awake == {w \in Workers : wpc[w] \in {"unborn", "lock", "check"}}

(* No wakeup is lost: while a worker sleeps, the queue is no longer than the *)
(* workers that are on their way to it, counting the one the owner is about  *)
(* to notify. The notification is sent after the mutex is released, to       *)
(* whichever worker sleeps by then.                                          *)
NoSleeperMissesWork ==
  Sleepers # {} =>
    Len(tasks) <= Cardinality(Awake) + (IF opc = "notifyOne" THEN 1 ELSE 0)

(* Once the destructor has returned, no thread uses the members of the pool: *)
(* every worker has left its loop and the mutex is free; and, if there was a *)
(* worker at all, every task that was enqueued has run.                      *)
QuietWhenGone ==
  opc = "gone" =>
    /\ \A w \in Workers : wpc[w] = "exited"
    /\ queue_mutex = Nobody
    /\ Workers # {} => submitted = ready

(* What the three invariants above rest on, one part per mechanism.           *)

(* A thread that is about to run or to queue a task has one. *)
TasksInHand ==
  /\ \A w \in Workers : wpc[w] = "run" => job[w] \in Tasks
  /\ opc \in {"enqueueLock", "enqueuePush"} => arg \in Tasks \ submitted

(* The mutex is held exactly by the thread that is in its critical section. *)
MutexHeld ==
  /\ \A w \in Workers : wpc[w] \in {"check", "block"} <=> queue_mutex = w
  /\ opc \in {"enqueuePush", "dtorStop"} <=> queue_mutex = Owner

(* What a worker found when it evaluated the predicate still holds when it   *)
(* goes to sleep, and what made it return holds for ever.                    *)
WhatWorkersSaw ==
  /\ stop <=> opc \in {"notifyAll", "join", "gone"}
  /\ \A w \in Workers : wpc[w] = "block" => ~stop /\ tasks = <<>>
  /\ \A w \in Workers : wpc[w] = "exited" => stop /\ tasks = <<>>
  /\ opc = "gone" => \A w \in Workers : wpc[w] = "exited"

(* The inductive invariant of the pool: the three parts above hold together  *)
(* with the safety properties in every reachable state.                      *)
PoolInv ==
  /\ PoolTypeOK /\ TasksInHand /\ MutexHeld /\ WhatWorkersSaw
  /\ TaskInOnePlace /\ NoSleeperMissesWork

(* With at least one worker, every task put in the queue is eventually run. *)
EveryTaskRuns ==
  Workers # {} => \A t \in Tasks : t \in submitted ~> t \in ready

(* A destructor that was called returns, whatever the workers are doing and  *)
(* however much is queued.                                                   *)
DtorReturns == opc = "dtorLock" ~> opc = "gone"
===============================================================================
