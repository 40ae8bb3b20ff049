-------------------- MODULE ProcessFilesWithThreads_proofs --------------------
(***************************************************************************)
(* Proofs about ThreadPool and about ProcessFilesWithThreads, for any      *)
(* finite set of workers and any tasks or list of files. PoolInv is        *)
(* inductive; the call uses the pool as ThreadPool allows, so the pool's   *)
(* theorems hold in it; its results are the files' in their order; it      *)
(* implements the abstract BatchReport; never do all wait, and every step  *)
(* leaves less to do.                                                      *)
(* Last, what the tasks compute, one by one: processFile counts what there *)
(* is in any file, and fibonacci of the other pool's tasks returns the     *)
(* number of Fibonacci for any modulus.                                    *)
(***************************************************************************)
EXTENDS ProcessFilesWithThreads, PureFunctions, Operators_proofs

-------------------------------------------------------------------------------
(* The pool. Each lemma shows that a step preserves a part of PoolInv.        *)

(* Every variable of the pool keeps its type when any of its steps is taken. *)
LEMMA TypeStep ==
  ASSUME PoolTypeOK, TasksInHand, [PoolNext]_poolVars
  PROVE  PoolTypeOK'
<1> USE DEF PoolTypeOK, TasksInHand, WorkerStates, OwnerStates
<1>1. ASSUME NEW w \in Workers, WorkerLock(w) PROVE PoolTypeOK'
  BY <1>1 DEF WorkerLock, WorkerGoes, Acquire, ownerVars
<1>2. ASSUME NEW w \in Workers, WorkerBlocks(w) PROVE PoolTypeOK'
  BY <1>2 DEF WorkerBlocks, WorkerGoes, ownerVars
<1>3. ASSUME NEW w \in Workers, WorkerSleeps(w) PROVE PoolTypeOK'
  BY <1>3 DEF WorkerSleeps, WorkerGoes, Release, ownerVars
<1>4. ASSUME NEW w \in Workers, WorkerReturns(w) PROVE PoolTypeOK'
  BY <1>4 DEF WorkerReturns, WorkerGoes, Release, ownerVars
<1>5. ASSUME NEW w \in Workers, WorkerTakes(w) PROVE PoolTypeOK'
  <2>1. tasks # <<>>
    BY <1>5 DEF WorkerTakes, WaitPredicate, MayReturn
  <2>2. Head(tasks) \in Tasks /\ Tail(tasks) \in Seq(Tasks)
    BY <2>1, HeadTailProperties
  <2> QED
    BY <2>2, <1>5 DEF WorkerTakes, WorkerGoes, Release, ownerVars
<1>6. ASSUME NEW w \in Workers, WorkerRuns(w) PROVE PoolTypeOK'
  BY <1>6 DEF WorkerRuns, WorkerGoes, ownerVars
<1>7. ASSUME NEW w \in Workers, SpuriousWakeup(w) PROVE PoolTypeOK'
  BY <1>7 DEF SpuriousWakeup, WorkerGoes, ownerVars
<1>8. ASSUME NEW w \in Workers, SpawnWorker(w) PROVE PoolTypeOK'
  BY <1>8 DEF SpawnWorker, WorkerGoes, ownerVars
<1>9. CASE CtorReturns
  BY <1>9 DEF CtorReturns, OwnerGoes, workerVars
<1>10. CASE EnqueueLocks
  BY <1>10 DEF EnqueueLocks, OwnerGoes, Acquire, workerVars
<1>11. CASE DtorLocks
  BY <1>11 DEF DtorLocks, OwnerGoes, Acquire, workerVars
<1>12. CASE EnqueuePushes
  <2>1. arg \in Tasks
    BY <1>12 DEF EnqueuePushes, OwnerGoes
  <2>2. Append(tasks, arg) \in Seq(Tasks)
    BY <2>1
  <2> QED
    BY <2>1, <2>2, <1>12 DEF EnqueuePushes, OwnerGoes, Release, workerVars
<1>13. CASE NotifyOne
  BY <1>13 DEF NotifyOne, OwnerGoes, WakeOne, Sleepers
<1>14. CASE DtorStops
  BY <1>14 DEF DtorStops, OwnerGoes, Release, workerVars
<1>15. CASE NotifyAll
  BY <1>15 DEF NotifyAll, OwnerGoes, Sleepers
<1>16. CASE DtorJoins
  BY <1>16 DEF DtorJoins, OwnerGoes, workerVars
<1>17. ASSUME NEW t \in Tasks, EnqueueCalled(t) PROVE PoolTypeOK'
  BY <1>17 DEF EnqueueCalled, OwnerGoes, workerVars
<1>18. CASE DtorCalled
  BY <1>18 DEF DtorCalled, OwnerGoes, workerVars
<1>19. CASE UNCHANGED poolVars
  BY <1>19 DEF poolVars
<1> QED
  BY <1>1, <1>2, <1>3, <1>4, <1>5, <1>6, <1>7, <1>8, <1>9, <1>10, <1>11, <1>12,
     <1>13, <1>14, <1>15, <1>16, <1>17, <1>18, <1>19
  DEF PoolNext, WorkerStep, OwnerStep, OwnerLocks, Gone

(* No step takes the task away from a thread that is about to use it. *)
LEMMA TasksInHandStep ==
  ASSUME PoolTypeOK, TasksInHand, [PoolNext]_poolVars
  PROVE  TasksInHand'
<1> USE DEF PoolTypeOK, TasksInHand, WorkerStates, OwnerStates
<1>1. ASSUME NEW w \in Workers, WorkerLock(w) PROVE TasksInHand'
  BY <1>1 DEF WorkerLock, WorkerGoes, Acquire, ownerVars
<1>2. ASSUME NEW w \in Workers, WorkerBlocks(w) PROVE TasksInHand'
  BY <1>2 DEF WorkerBlocks, WorkerGoes, WaitPredicate, ownerVars
<1>3. ASSUME NEW w \in Workers, WorkerSleeps(w) PROVE TasksInHand'
  BY <1>3 DEF WorkerSleeps, WorkerGoes, Release, ownerVars
<1>4. ASSUME NEW w \in Workers, WorkerReturns(w) PROVE TasksInHand'
  BY <1>4 DEF WorkerReturns, WorkerGoes, MayReturn, Release, ownerVars
<1>5. ASSUME NEW w \in Workers, WorkerTakes(w) PROVE TasksInHand'
  <2>1. tasks # <<>>
    BY <1>5 DEF WorkerTakes, WaitPredicate, MayReturn
  <2>2. Head(tasks) \in Tasks
    BY <2>1, HeadTailProperties
  <2> QED
    BY <2>2, <1>5 DEF WorkerTakes, WorkerGoes, ownerVars
<1>6. ASSUME NEW w \in Workers, WorkerRuns(w) PROVE TasksInHand'
  BY <1>6 DEF WorkerRuns, WorkerGoes, ownerVars
<1>7. ASSUME NEW w \in Workers, SpuriousWakeup(w) PROVE TasksInHand'
  BY <1>7 DEF SpuriousWakeup, WorkerGoes, ownerVars
<1>8. ASSUME NEW w \in Workers, SpawnWorker(w) PROVE TasksInHand'
  BY <1>8 DEF SpawnWorker, WorkerGoes, ownerVars
<1>9. ASSUME NEW t \in Tasks, EnqueueCalled(t) PROVE TasksInHand'
  BY <1>9 DEF EnqueueCalled, OwnerGoes, workerVars
<1>10. CASE CtorReturns
  BY <1>10 DEF CtorReturns, OwnerGoes, workerVars
<1>11. CASE EnqueueLocks
  BY <1>11 DEF EnqueueLocks, OwnerGoes, Acquire, workerVars
<1>12. CASE DtorLocks
  BY <1>12 DEF DtorLocks, OwnerGoes, Acquire, workerVars
<1>13. CASE EnqueuePushes
  BY <1>13 DEF EnqueuePushes, OwnerGoes, Release, workerVars
<1>14. CASE NotifyOne
  BY <1>14 DEF NotifyOne, OwnerGoes, WakeOne, Sleepers
<1>15. CASE DtorStops
  BY <1>15 DEF DtorStops, OwnerGoes, Release, workerVars
<1>16. CASE NotifyAll
  BY <1>16 DEF NotifyAll, OwnerGoes, Sleepers
<1>17. CASE DtorJoins
  BY <1>17 DEF DtorJoins, OwnerGoes, workerVars
<1>18. CASE DtorCalled
  BY <1>18 DEF DtorCalled, OwnerGoes, workerVars
<1>19. CASE UNCHANGED poolVars
  BY <1>19 DEF poolVars
<1> QED
  BY <1>1, <1>2, <1>3, <1>4, <1>5, <1>6, <1>7, <1>8, <1>9, <1>10,
     <1>11, <1>12, <1>13, <1>14, <1>15, <1>16, <1>17, <1>18, <1>19
  DEF PoolNext, WorkerStep, OwnerStep, OwnerLocks, Gone

(* Every step takes and gives back the mutex with its critical section. *)
LEMMA MutexStep ==
  ASSUME PoolTypeOK, MutexHeld, [PoolNext]_poolVars
  PROVE  MutexHeld'
<1> USE PoolAssumption DEF PoolTypeOK, MutexHeld, WorkerStates, OwnerStates
<1>1. ASSUME NEW w \in Workers, WorkerLock(w) PROVE MutexHeld'
  BY <1>1 DEF WorkerLock, WorkerGoes, Acquire, ownerVars
<1>2. ASSUME NEW w \in Workers, WorkerBlocks(w) PROVE MutexHeld'
  BY <1>2 DEF WorkerBlocks, WorkerGoes, WaitPredicate, ownerVars
<1>3. ASSUME NEW w \in Workers, WorkerSleeps(w) PROVE MutexHeld'
  BY <1>3 DEF WorkerSleeps, WorkerGoes, Release, ownerVars
<1>4. ASSUME NEW w \in Workers, WorkerReturns(w) PROVE MutexHeld'
  BY <1>4 DEF WorkerReturns, WorkerGoes, MayReturn, Release, ownerVars
<1>5. ASSUME NEW w \in Workers, WorkerTakes(w) PROVE MutexHeld'
  BY <1>5 DEF WorkerTakes, WorkerGoes, Release, ownerVars
<1>6. ASSUME NEW w \in Workers, WorkerRuns(w) PROVE MutexHeld'
  BY <1>6 DEF WorkerRuns, WorkerGoes, ownerVars
<1>7. ASSUME NEW w \in Workers, SpuriousWakeup(w) PROVE MutexHeld'
  BY <1>7 DEF SpuriousWakeup, WorkerGoes, ownerVars
<1>8. ASSUME NEW w \in Workers, SpawnWorker(w) PROVE MutexHeld'
  BY <1>8 DEF SpawnWorker, WorkerGoes, ownerVars
<1>9. ASSUME NEW t \in Tasks, EnqueueCalled(t) PROVE MutexHeld'
  BY <1>9 DEF EnqueueCalled, OwnerGoes, workerVars
<1>10. CASE CtorReturns
  BY <1>10 DEF CtorReturns, OwnerGoes, workerVars
<1>11. CASE EnqueueLocks
  BY <1>11 DEF EnqueueLocks, OwnerGoes, Acquire, workerVars
<1>12. CASE DtorLocks
  BY <1>12 DEF DtorLocks, OwnerGoes, Acquire, workerVars
<1>13. CASE EnqueuePushes
  BY <1>13 DEF EnqueuePushes, OwnerGoes, Release, workerVars
<1>14. CASE NotifyOne
  BY <1>14 DEF NotifyOne, OwnerGoes, WakeOne, Sleepers
<1>15. CASE DtorStops
  BY <1>15 DEF DtorStops, OwnerGoes, Release, workerVars
<1>16. CASE NotifyAll
  BY <1>16 DEF NotifyAll, OwnerGoes, Sleepers
<1>17. CASE DtorJoins
  BY <1>17 DEF DtorJoins, OwnerGoes, workerVars
<1>18. CASE DtorCalled
  BY <1>18 DEF DtorCalled, OwnerGoes, workerVars
<1>19. CASE UNCHANGED poolVars
  BY <1>19 DEF poolVars
<1> QED
  BY <1>1, <1>2, <1>3, <1>4, <1>5, <1>6, <1>7, <1>8, <1>9, <1>10,
     <1>11, <1>12, <1>13, <1>14, <1>15, <1>16, <1>17, <1>18, <1>19
  DEF PoolNext, WorkerStep, OwnerStep, OwnerLocks, Gone

(* Nothing changes what a worker saw behind its back: whoever changes the    *)
(* queue or stop holds the mutex.                                            *)
LEMMA WhatWorkersSawStep ==
  ASSUME PoolTypeOK, MutexHeld, WhatWorkersSaw, [PoolNext]_poolVars
  PROVE  WhatWorkersSaw'
<1> USE PoolAssumption DEF PoolTypeOK, MutexHeld, WhatWorkersSaw, WorkerStates, OwnerStates
<1>1. ASSUME NEW w \in Workers, WorkerLock(w) PROVE WhatWorkersSaw'
  BY <1>1 DEF WorkerLock, WorkerGoes, Acquire, ownerVars
<1>2. ASSUME NEW w \in Workers, WorkerBlocks(w) PROVE WhatWorkersSaw'
  BY <1>2 DEF WorkerBlocks, WorkerGoes, WaitPredicate, ownerVars
<1>3. ASSUME NEW w \in Workers, WorkerSleeps(w) PROVE WhatWorkersSaw'
  BY <1>3 DEF WorkerSleeps, WorkerGoes, Release, ownerVars
<1>4. ASSUME NEW w \in Workers, WorkerReturns(w) PROVE WhatWorkersSaw'
  BY <1>4 DEF WorkerReturns, WorkerGoes, MayReturn, Release, ownerVars
<1>5. ASSUME NEW w \in Workers, WorkerTakes(w) PROVE WhatWorkersSaw'
  BY <1>5 DEF WorkerTakes, WorkerGoes, Release, ownerVars
<1>6. ASSUME NEW w \in Workers, WorkerRuns(w) PROVE WhatWorkersSaw'
  BY <1>6 DEF WorkerRuns, WorkerGoes, ownerVars
<1>7. ASSUME NEW w \in Workers, SpuriousWakeup(w) PROVE WhatWorkersSaw'
  BY <1>7 DEF SpuriousWakeup, WorkerGoes, ownerVars
<1>8. ASSUME NEW w \in Workers, SpawnWorker(w) PROVE WhatWorkersSaw'
  BY <1>8 DEF SpawnWorker, WorkerGoes, ownerVars
<1>9. ASSUME NEW t \in Tasks, EnqueueCalled(t) PROVE WhatWorkersSaw'
  BY <1>9 DEF EnqueueCalled, OwnerGoes, workerVars
<1>10. CASE CtorReturns
  BY <1>10 DEF CtorReturns, OwnerGoes, workerVars
<1>11. CASE EnqueueLocks
  BY <1>11 DEF EnqueueLocks, OwnerGoes, Acquire, workerVars
<1>12. CASE DtorLocks
  BY <1>12 DEF DtorLocks, OwnerGoes, Acquire, workerVars
<1>13. CASE EnqueuePushes
  BY <1>13 DEF EnqueuePushes, OwnerGoes, Release, workerVars
<1>14. CASE NotifyOne
  BY <1>14 DEF NotifyOne, OwnerGoes, WakeOne, Sleepers
<1>15. CASE DtorStops
  BY <1>15 DEF DtorStops, OwnerGoes, Release, workerVars
<1>16. CASE NotifyAll
  BY <1>16 DEF NotifyAll, OwnerGoes, Sleepers
<1>17. CASE DtorJoins
  BY <1>17 DEF DtorJoins, OwnerGoes, workerVars
<1>18. CASE DtorCalled
  BY <1>18 DEF DtorCalled, OwnerGoes, workerVars
<1>19. CASE UNCHANGED poolVars
  BY <1>19 DEF poolVars
<1> QED
  BY <1>1, <1>2, <1>3, <1>4, <1>5, <1>6, <1>7, <1>8, <1>9, <1>10,
     <1>11, <1>12, <1>13, <1>14, <1>15, <1>16, <1>17, <1>18, <1>19
  DEF PoolNext, WorkerStep, OwnerStep, OwnerLocks, Gone

(* Taking the front of the queue leaves the rest of it queued. *)
LEMMA QueuedTail ==
  ASSUME tasks \in Seq(Tasks), tasks # <<>>, tasks' = Tail(tasks),
         \A i, j \in 1..Len(tasks) : tasks[i] = tasks[j] => i = j
  PROVE  /\ Queued = Queued' \cup {Head(tasks)}
         /\ Head(tasks) \notin Queued'
         /\ \A i, j \in 1..Len(tasks') : tasks'[i] = tasks'[j] => i = j
<1>1. /\ Len(tasks) \in Nat \ {0}
      /\ Len(tasks') = Len(tasks) - 1
      /\ \A i \in 1..Len(tasks') : tasks'[i] = tasks[i + 1]
  BY HeadTailProperties, EmptySeq
<1>2. Head(tasks) = tasks[1]
  OBVIOUS
<1>3. ASSUME NEW i \in 1..Len(tasks), i # 1 PROVE i - 1 \in 1..Len(tasks') /\ tasks'[i - 1] = tasks[i]
  BY <1>1, <1>3
<1>4. Queued \subseteq Queued' \cup {Head(tasks)}
  BY <1>2, <1>3 DEF Queued
<1>5. Queued' \cup {Head(tasks)} \subseteq Queued
  BY <1>1, <1>2 DEF Queued
<1>6. Head(tasks) \notin Queued'
  BY <1>1, <1>2 DEF Queued
<1>7. ASSUME NEW i \in 1..Len(tasks'), NEW j \in 1..Len(tasks'), tasks'[i] = tasks'[j]
      PROVE  i = j
  <2>1. i + 1 \in 1..Len(tasks) /\ j + 1 \in 1..Len(tasks) /\ tasks[i + 1] = tasks[j + 1]
    BY <1>1, <1>7
  <2> QED
    BY <2>1, <1>1
<1> QED
  BY <1>4, <1>5, <1>6, <1>7

(* Appending a task to the queue adds it to what is queued, and nothing else. *)
LEMMA QueuedAppend ==
  ASSUME NEW t \in Tasks, tasks \in Seq(Tasks), tasks' = Append(tasks, t), t \notin Queued,
         \A i, j \in 1..Len(tasks) : tasks[i] = tasks[j] => i = j
  PROVE  /\ Queued' = Queued \cup {t}
         /\ \A i, j \in 1..Len(tasks') : tasks'[i] = tasks'[j] => i = j
<1>1. /\ Len(tasks) \in Nat
      /\ Len(tasks') = Len(tasks) + 1
      /\ \A i \in 1..Len(tasks) : tasks'[i] = tasks[i]
      /\ tasks'[Len(tasks) + 1] = t
  BY LenProperties
<1>2. Queued' \subseteq Queued \cup {t}
  BY <1>1 DEF Queued
<1>3. Queued \cup {t} \subseteq Queued'
  BY <1>1 DEF Queued
<1>4. ASSUME NEW i \in 1..Len(tasks'), NEW j \in 1..Len(tasks'), tasks'[i] = tasks'[j]
      PROVE  i = j
  BY <1>1, <1>4 DEF Queued
<1> QED
  BY <1>2, <1>3, <1>4

(* The steps that neither move a task nor change who runs one. *)
LEMMA TaskInOnePlaceFrame ==
  ASSUME PoolTypeOK, TaskInOnePlace, UNCHANGED <<tasks, job, submitted, ready>>,
         \A w \in Workers : wpc'[w] = "run" <=> wpc[w] = "run"
  PROVE  TaskInOnePlace'
<1>1. Queued' = Queued
  BY DEF Queued
<1>2. Running' = Running
  BY DEF Running
<1> QED
  BY <1>1, <1>2 DEF TaskInOnePlace

(* Every step leaves each task that was enqueued in one place. *)
LEMMA TaskInOnePlaceStep ==
  ASSUME PoolTypeOK, TasksInHand, TaskInOnePlace, [PoolNext]_poolVars
  PROVE  TaskInOnePlace'
<1> USE DEF PoolTypeOK, WorkerStates, OwnerStates
<1>1. ASSUME NEW w \in Workers, WorkerTakes(w) PROVE TaskInOnePlace'
  <2>1. /\ tasks # <<>> /\ tasks' = Tail(tasks)
        /\ wpc[w] = "check" /\ wpc' = [wpc EXCEPT ![w] = "run"]
        /\ job' = [job EXCEPT ![w] = Head(tasks)]
        /\ UNCHANGED <<submitted, ready>>
    BY <1>1 DEF WorkerTakes, WorkerGoes, WaitPredicate, MayReturn
  <2>2. /\ Queued = Queued' \cup {Head(tasks)}
        /\ Head(tasks) \notin Queued'
        /\ \A i, j \in 1..Len(tasks') : tasks'[i] = tasks'[j] => i = j
    BY <2>1, QueuedTail DEF TaskInOnePlace
  <2>3. Running' = Running \cup {Head(tasks)}
    BY <2>1 DEF Running
  <2>4. Head(tasks) \notin Running
    BY <2>2 DEF TaskInOnePlace
  <2>5. ASSUME NEW u \in Workers, NEW v \in Workers,
               wpc'[u] = "run", wpc'[v] = "run", job'[u] = job'[v]
        PROVE  u = v
    BY <2>1, <2>4, <2>5 DEF TaskInOnePlace, Running
  <2> QED
    BY <2>1, <2>2, <2>3, <2>4, <2>5 DEF TaskInOnePlace
<1>2. ASSUME NEW w \in Workers, WorkerRuns(w) PROVE TaskInOnePlace'
  <2>1. /\ wpc[w] = "run" /\ wpc' = [wpc EXCEPT ![w] = "lock"]
        /\ job' = [job EXCEPT ![w] = NoTask]
        /\ ready' = ready \cup {job[w]}
        /\ UNCHANGED <<tasks, submitted>>
    BY <1>2 DEF WorkerRuns, WorkerGoes
  <2>2. Queued' = Queued
    BY <2>1 DEF Queued
  <2>3. Running = Running' \cup {job[w]} /\ job[w] \notin Running'
    <3>1. \A v \in Workers : wpc'[v] = "run" <=> wpc[v] = "run" /\ v # w
      BY <2>1
    <3>2. \A v \in Workers : wpc'[v] = "run" => job'[v] = job[v]
      BY <2>1, <3>1
    <3> QED
      BY <2>1, <3>1, <3>2 DEF Running, TaskInOnePlace
  <2>4. ASSUME NEW u \in Workers, NEW v \in Workers,
               wpc'[u] = "run", wpc'[v] = "run", job'[u] = job'[v]
        PROVE  u = v
    BY <2>1, <2>4 DEF TaskInOnePlace
  <2> QED
    BY <2>1, <2>2, <2>3, <2>4 DEF TaskInOnePlace
<1>3. CASE EnqueuePushes
  <2>1. /\ arg \in Tasks \ submitted /\ tasks' = Append(tasks, arg)
        /\ submitted' = submitted \cup {arg}
        /\ UNCHANGED <<wpc, job, ready>>
    BY <1>3 DEF EnqueuePushes, OwnerGoes, TasksInHand, workerVars
  <2>2. /\ Queued' = Queued \cup {arg}
        /\ \A i, j \in 1..Len(tasks') : tasks'[i] = tasks'[j] => i = j
    BY <2>1, QueuedAppend DEF TaskInOnePlace
  <2>3. Running' = Running
    BY <2>1 DEF Running
  <2> QED
    BY <2>1, <2>2, <2>3 DEF TaskInOnePlace
<1>4. ASSUME NEW w \in Workers,
             \/ WorkerLock(w) \/ WorkerBlocks(w) \/ WorkerSleeps(w) \/ WorkerReturns(w)
             \/ SpuriousWakeup(w) \/ SpawnWorker(w)
      PROVE  TaskInOnePlace'
  BY <1>4, TaskInOnePlaceFrame
  DEF WorkerLock, WorkerBlocks, WorkerSleeps, WorkerReturns, SpuriousWakeup, SpawnWorker, WorkerGoes
<1>5. CASE NotifyOne \/ NotifyAll
  BY <1>5, TaskInOnePlaceFrame DEF NotifyOne, NotifyAll, WakeOne, Sleepers
<1>6. CASE \/ CtorReturns \/ EnqueueLocks \/ DtorLocks \/ DtorStops \/ DtorJoins
           \/ DtorCalled \/ UNCHANGED poolVars
  BY <1>6, TaskInOnePlaceFrame
  DEF CtorReturns, EnqueueLocks, DtorLocks, DtorStops, DtorJoins, DtorCalled, workerVars, poolVars
<1>7. ASSUME NEW t \in Tasks, EnqueueCalled(t) PROVE TaskInOnePlace'
  BY <1>7, TaskInOnePlaceFrame DEF EnqueueCalled, workerVars
<1> QED
  BY <1>1, <1>2, <1>3, <1>4, <1>5, <1>6, <1>7
  DEF PoolNext, WorkerStep, OwnerStep, OwnerLocks, Gone

(* The set of workers on their way to the queue is finite. *)
LEMMA AwakeFinite ==
  /\ IsFiniteSet(Awake) /\ Cardinality(Awake) \in Nat
  /\ PoolTypeOK => Len(tasks) \in Nat
<1>1. Awake \in SUBSET Workers
  BY DEF Awake
<1> QED
  BY <1>1, PoolAssumption, FS_Subset, FS_CardinalityType, LenProperties DEF PoolTypeOK

(* A step that moves nobody between sleeping and waking, leaves the queue    *)
(* alone and is not the end of a notification, loses no wakeup.              *)
LEMMA NoSleeperFrame ==
  ASSUME NoSleeperMissesWork, UNCHANGED tasks, Sleepers' = Sleepers, Awake' = Awake,
         opc = "notifyOne" <=> opc' = "notifyOne"
  PROVE  NoSleeperMissesWork'
BY DEF NoSleeperMissesWork

(* A wakeup that is due is never lost: while a worker sleeps, each task in   *)
(* the queue has a worker on its way to it or a notification to come.        *)
LEMMA NoSleeperStep ==
  ASSUME PoolTypeOK, PoolTypeOK', MutexHeld, WhatWorkersSaw, NoSleeperMissesWork,
         [PoolNext]_poolVars
  PROVE  NoSleeperMissesWork'
<1> USE DEF PoolTypeOK, WorkerStates, OwnerStates
<1>1. ASSUME tasks' = <<>> PROVE NoSleeperMissesWork'
  <2>1. Len(tasks') = 0
    BY <1>1
  <2>2. Cardinality(Awake') \in Nat
    <3>1. Awake' \in SUBSET Workers
      BY DEF Awake
    <3> QED
      BY <3>1, PoolAssumption, FS_Subset, FS_CardinalityType
  <2> QED
    BY <2>1, <2>2 DEF NoSleeperMissesWork
<1>2. ASSUME NEW w \in Workers, WorkerBlocks(w) \/ WorkerSleeps(w) \/ WorkerReturns(w)
      PROVE  NoSleeperMissesWork'
  <2>1. tasks' = <<>>
    BY <1>2 DEF WorkerBlocks, WorkerSleeps, WorkerReturns, WorkerGoes, WaitPredicate,
                MayReturn, WhatWorkersSaw
  <2> QED
    BY <1>1, <2>1
<1>3. ASSUME NEW w \in Workers, WorkerLock(w) \/ SpawnWorker(w) PROVE NoSleeperMissesWork'
  <2>1. Sleepers' = Sleepers /\ Awake' = Awake
    BY <1>3 DEF WorkerLock, SpawnWorker, WorkerGoes, Sleepers, Awake
  <2>2. UNCHANGED <<tasks, opc>>
    BY <1>3 DEF WorkerLock, SpawnWorker, ownerVars
  <2> QED
    BY <2>1, <2>2, NoSleeperFrame
<1>4. ASSUME NEW w \in Workers, WorkerRuns(w) \/ SpuriousWakeup(w) PROVE NoSleeperMissesWork'
  <2>1. UNCHANGED <<tasks, opc>>
    BY <1>4 DEF WorkerRuns, SpuriousWakeup, ownerVars
  <2>2. Sleepers' \subseteq Sleepers /\ w \notin Awake /\ Awake' = Awake \cup {w}
    BY <1>4 DEF WorkerRuns, SpuriousWakeup, WorkerGoes, Sleepers, Awake
  <2>3. Cardinality(Awake') = Cardinality(Awake) + 1
    BY <2>2, AwakeFinite, FS_AddElement
  <2> QED
    BY <2>1, <2>2, <2>3, AwakeFinite DEF NoSleeperMissesWork
<1>5. ASSUME NEW w \in Workers, WorkerTakes(w) PROVE NoSleeperMissesWork'
  <2>1. tasks # <<>> /\ tasks' = Tail(tasks) /\ opc' = opc
    BY <1>5 DEF WorkerTakes, WaitPredicate, MayReturn, ownerVars
  <2>2. Len(tasks') = Len(tasks) - 1
    BY <2>1, HeadTailProperties
  <2>3. Sleepers' = Sleepers /\ w \in Awake /\ Awake' = Awake \ {w}
    BY <1>5 DEF WorkerTakes, WorkerGoes, Sleepers, Awake
  <2>4. Cardinality(Awake') = Cardinality(Awake) - 1
    BY <2>3, AwakeFinite, FS_RemoveElement
  <2> QED
    BY <2>1, <2>2, <2>3, <2>4, AwakeFinite DEF NoSleeperMissesWork
<1>6. CASE EnqueuePushes
  <2>1. /\ tasks' = Append(tasks, arg) /\ arg \in Tasks \cup {NoTask}
        /\ opc = "enqueuePush" /\ opc' = "notifyOne" /\ wpc' = wpc
    BY <1>6 DEF EnqueuePushes, OwnerGoes, workerVars
  <2>2. Len(tasks') = Len(tasks) + 1
    BY <2>1, LenProperties
  <2>3. Sleepers' = Sleepers /\ Awake' = Awake
    BY <2>1 DEF Sleepers, Awake
  <2> QED
    BY <2>1, <2>2, <2>3, AwakeFinite DEF NoSleeperMissesWork
<1>7. CASE NotifyOne
  <2>1. UNCHANGED tasks /\ opc = "notifyOne" /\ opc' = "idle"
    BY <1>7 DEF NotifyOne, OwnerGoes
  <2>2. CASE Sleepers = {} /\ UNCHANGED wpc
    BY <2>2 DEF NoSleeperMissesWork, Sleepers
  <2>3. ASSUME NEW w \in Sleepers, wpc' = [wpc EXCEPT ![w] = "lock"]
        PROVE  NoSleeperMissesWork'
    <3>1. Sleepers # {} /\ w \notin Awake /\ Awake' = Awake \cup {w}
      BY <2>3 DEF Sleepers, Awake
    <3>2. Cardinality(Awake') = Cardinality(Awake) + 1
      BY <3>1, AwakeFinite, FS_AddElement
    <3> QED
      BY <2>1, <3>1, <3>2, AwakeFinite DEF NoSleeperMissesWork
  <2> QED
    BY <1>7, <2>2, <2>3 DEF NotifyOne, WakeOne
<1>8. CASE NotifyAll
  <2>1. Sleepers' = {}
    BY <1>8 DEF NotifyAll, Sleepers
  <2> QED
    BY <2>1 DEF NoSleeperMissesWork
<1>9. CASE \/ CtorReturns \/ EnqueueLocks \/ DtorLocks \/ DtorStops \/ DtorJoins
           \/ DtorCalled \/ UNCHANGED poolVars
  <2>1. UNCHANGED <<tasks, wpc>> /\ (opc = "notifyOne" <=> opc' = "notifyOne")
    BY <1>9 DEF CtorReturns, EnqueueLocks, DtorLocks, DtorStops, DtorJoins, DtorCalled,
                OwnerGoes, workerVars, poolVars
  <2>2. Sleepers' = Sleepers /\ Awake' = Awake
    BY <2>1 DEF Sleepers, Awake
  <2> QED
    BY <2>1, <2>2, NoSleeperFrame
<1>10. ASSUME NEW t \in Tasks, EnqueueCalled(t) PROVE NoSleeperMissesWork'
  <2>1. UNCHANGED <<tasks, wpc>> /\ opc = "idle" /\ opc' = "enqueueLock"
    BY <1>10 DEF EnqueueCalled, OwnerGoes, workerVars
  <2>2. Sleepers' = Sleepers /\ Awake' = Awake
    BY <2>1 DEF Sleepers, Awake
  <2> QED
    BY <2>1, <2>2, NoSleeperFrame
<1> QED
  BY <1>2, <1>3, <1>4, <1>5, <1>6, <1>7, <1>8, <1>9, <1>10
  DEF PoolNext, WorkerStep, OwnerStep, OwnerLocks, Gone

-------------------------------------------------------------------------------

(* The invariant holds of a pool that is about to be constructed. *)
LEMMA PoolInitInv == PoolInit => PoolInv
<1> SUFFICES ASSUME PoolInit PROVE PoolInv
  OBVIOUS
<1> USE DEF PoolInit
<1>0. tasks \in Seq(Tasks)
  BY EmptySeq
<1>1. PoolTypeOK /\ TasksInHand
  BY <1>0 DEF PoolTypeOK, TasksInHand, WorkerStates, OwnerStates
<1>2. MutexHeld /\ WhatWorkersSaw
  BY PoolAssumption DEF MutexHeld, WhatWorkersSaw
<1>3. Queued = {} /\ Running = {} /\ Sleepers = {}
  BY DEF Queued, Running, Sleepers
<1>4. TaskInOnePlace /\ NoSleeperMissesWork
  BY <1>3 DEF TaskInOnePlace, NoSleeperMissesWork
<1> QED
  BY <1>1, <1>2, <1>4 DEF PoolInv

(* PoolInv is inductive: it holds in every reachable state of the pool. *)
THEOREM PoolInvariant == PoolSafetySpec => []PoolInv
<1>1. PoolInv /\ [PoolNext]_poolVars => PoolInv'
  BY TypeStep, TasksInHandStep, MutexStep, WhatWorkersSawStep, TaskInOnePlaceStep, NoSleeperStep
  DEF PoolInv
<1> QED
  BY PoolInitInv, <1>1, PTL DEF PoolSafetySpec

(* The pool's variables always hold values of their types, whatever the      *)
(* number of workers and of tasks (thread_pool_impl.h).                      *)
THEOREM PoolTyped == PoolSafetySpec => []PoolTypeOK
BY PoolInvariant, PTL DEF PoolInv

(* No interleaving of any number of workers loses a task or runs it twice.   *)
THEOREM NoTaskLost == PoolSafetySpec => []TaskInOnePlace
BY PoolInvariant, PTL DEF PoolInv

(* notify_one after the mutex is released loses no wakeup, for any number of *)
(* workers.                                                                  *)
THEOREM NoWakeupLost == PoolSafetySpec => []NoSleeperMissesWork
BY PoolInvariant, PTL DEF PoolInv

(* After the destructor no thread is inside the pool and no task is undone.  *)
THEOREM PoolQuietWhenGone == PoolSafetySpec => []QuietWhenGone
<1>1. PoolInv => QuietWhenGone
  <2> SUFFICES ASSUME PoolInv, opc = "gone"
               PROVE  /\ \A w \in Workers : wpc[w] = "exited"
                      /\ queue_mutex = Nobody
                      /\ Workers # {} => submitted = ready
    BY DEF QuietWhenGone
  <2>1. \A w \in Workers : wpc[w] = "exited"
    BY DEF PoolInv, WhatWorkersSaw
  <2>2. queue_mutex = Nobody
    BY <2>1 DEF PoolInv, PoolTypeOK, MutexHeld
  <2>3. ASSUME Workers # {} PROVE submitted = ready
    <3>1. tasks = <<>>
      BY <2>1, <2>3 DEF PoolInv, WhatWorkersSaw
    <3>2. Queued = {} /\ Running = {}
      BY <3>1, <2>1 DEF Queued, Running
    <3> QED
      BY <3>2 DEF PoolInv, TaskInOnePlace
  <2> QED
    BY <2>1, <2>2, <2>3
<1> QED
  BY <1>1, PoolInvariant, PTL

-------------------------------------------------------------------------------
(* The call.                                                                  *)

(* Each step of the call is a step of the pool or leaves the pool alone. *)
LEMMA CallStepsPool == [Next]_vars => [PoolNext]_poolVars
<1> SUFFICES ASSUME [Next]_vars PROVE [PoolNext]_poolVars
  OBVIOUS
<1>1. ASSUME NEW w \in Workers, WorkerElsewhere(w) \/ RunTask(w) \/ SpuriouslyWoken(w)
      PROVE  PoolNext
  BY <1>1 DEF WorkerElsewhere, RunTask, SpuriouslyWoken, PoolNext, WorkerStep
<1>2. CASE EnqueueNext
  <2>1. PICK i \in 1..NumFiles : EnqueueCalled(FileList[i])
    BY <1>2 DEF EnqueueNext
  <2>2. FileList[i] \in Tasks
    BY <2>1, FileListAssumption, ElementOfSeq DEF NumFiles
  <2> QED
    BY <2>1, <2>2 DEF PoolNext
<1>3. CASE LeaveScope \/ InsidePool
  BY <1>3 DEF LeaveScope, InsidePool, PoolNext
<1>4. ASSUME MergeNext \/ Returned \/ (\E f \in Tasks : RemoveFile(f)) \/ UNCHANGED vars
      PROVE  UNCHANGED poolVars
  BY <1>4 DEF MergeNext, Returned, RemoveFile, vars
<1> QED
  BY <1>1, <1>2, <1>3, <1>4 DEF Next, CallerStep

(* The pool inside the call behaves as the pool alone. *)
THEOREM CallImplementsPool == SafetySpec => PoolSafetySpec
<1>1. Init => PoolInit
  BY DEF Init
<1> QED
  BY <1>1, CallStepsPool, PTL DEF SafetySpec, PoolSafetySpec

(* The steps that touch neither a future nor the results. *)
LEMMA CallFrame ==
  ASSUME CallInv, PoolInv', UNCHANGED <<future, results, ready>>, onDisk' \in SUBSET Tasks,
         opc' \in {"dtorLock", "dtorStop", "notifyAll", "join", "gone"} =>
           Len(results) = NumFiles
  PROVE  CallInv'
BY DEF CallInv, PoolInv, TypeOK, FuturesFollowTasks, ResultsInFileOrder

(* A worker stores the value of a future nobody has read. *)
LEMMA RunTaskStep ==
  ASSUME CallInv, PoolInv', NEW w \in Workers, RunTask(w)
  PROVE  CallInv'
<1>1. /\ wpc[w] = "run" /\ ready' = ready \cup {job[w]}
      /\ future' = [future EXCEPT ![job[w]] = processFile(job[w])]
      /\ UNCHANGED <<onDisk, results, opc>>
  BY DEF RunTask, WorkerRuns, WorkerGoes, ownerVars
<1>2. job[w] \in Tasks /\ job[w] \notin ready
  BY <1>1 DEF CallInv, PoolInv, TasksInHand, TaskInOnePlace, Running
<1>3. processFile(job[w]) \in Stats
  BY DEF processFile, Stats
<1>4. /\ future' \in [Tasks -> Stats \cup {"pending"}]
      /\ future'[job[w]] \in Stats
      /\ \A f \in Tasks \ {job[w]} : future'[f] = future[f]
  BY <1>1, <1>2, <1>3 DEF CallInv, TypeOK
<1>5. \A k \in 1..Len(results) : FileList[k] \in Tasks /\ FileList[k] # job[w]
  BY <1>2 DEF CallInv, FuturesFollowTasks, TypeOK, PoolTypeOK
<1>6. ResultsInFileOrder'
  BY <1>1, <1>4, <1>5 DEF CallInv, ResultsInFileOrder
<1>7. FuturesFollowTasks'
  BY <1>1, <1>2, <1>4, <1>5 DEF CallInv, FuturesFollowTasks, Stats
<1> QED
  BY <1>1, <1>4, <1>6, <1>7 DEF CallInv, PoolInv, TypeOK

(* The k-th get() appends the k-th file's result. *)
LEMMA MergeStep ==
  ASSUME CallInv, PoolInv', MergeNext
  PROVE  CallInv'
<1> DEFINE n == Len(results)
           f == FileList[n + 1]
           r == [file |-> f, stats |-> future[f]]
<1>1. /\ n \in Nat /\ n < NumFiles /\ f \in ready
      /\ results' = Append(results, r)
      /\ UNCHANGED <<poolVars, onDisk, future>> /\ opc = "idle"
  BY LenProperties DEF MergeNext, CallInv, TypeOK
<1>2. f \in Tasks /\ future[f] \in Stats
  BY <1>1 DEF CallInv, TypeOK, PoolTypeOK, FuturesFollowTasks
<1>3. r \in [file : Tasks, stats : Stats] /\ r.file = f /\ r.stats = future[f]
  BY <1>2
<1> HIDE DEF r
<1>4. /\ results' \in Seq([file : Tasks, stats : Stats])
      /\ Len(results') = n + 1
      /\ \A k \in 1..n : results'[k] = results[k]
      /\ results'[n + 1] = r
  BY <1>1, <1>3, LenProperties DEF CallInv, TypeOK
<1>5. NumFiles \in Nat
  BY FileListAssumption, LenProperties DEF NumFiles
<1>6. ResultsInFileOrder'
  BY <1>1, <1>3, <1>4, <1>5 DEF CallInv, ResultsInFileOrder
<1>7. FuturesFollowTasks'
  BY <1>1, <1>4 DEF CallInv, FuturesFollowTasks, poolVars
<1> QED
  BY <1>1, <1>4, <1>6, <1>7 DEF CallInv, PoolInv, TypeOK

(* CallInv is preserved by every step. *)
LEMMA CallStep ==
  ASSUME CallInv, [Next]_vars
  PROVE  CallInv'
<1>0. PoolInv'
  BY CallStepsPool, TypeStep, TasksInHandStep, MutexStep, WhatWorkersSawStep,
     TaskInOnePlaceStep, NoSleeperStep DEF CallInv, PoolInv
<1>1. ASSUME NEW w \in Workers, RunTask(w) PROVE CallInv'
  BY <1>0, <1>1, RunTaskStep
<1>2. CASE MergeNext
  BY <1>0, <1>2, MergeStep DEF MergeNext
<1>3. ASSUME NEW w \in Workers, WorkerElsewhere(w) \/ SpuriouslyWoken(w)
      PROVE  CallInv'
  <2>1. UNCHANGED <<future, results, ready, onDisk, opc>>
    BY <1>3 DEF WorkerElsewhere, SpuriouslyWoken, SpuriousWakeup, WorkerLock, WorkerBlocks,
                WorkerSleeps, WorkerReturns, WorkerTakes, callVars, ownerVars
  <2> QED
    BY <2>1, <1>0, CallFrame DEF CallInv, TypeOK, FuturesFollowTasks
<1>4. CASE EnqueueNext
  <2>1. UNCHANGED <<future, results, ready, onDisk>> /\ opc' = "enqueueLock"
    BY <1>4 DEF EnqueueNext, EnqueueCalled, OwnerGoes, callVars
  <2> QED
    BY <2>1, <1>0, CallFrame DEF CallInv, TypeOK
<1>5. CASE LeaveScope
  <2>1. UNCHANGED <<future, results, ready, onDisk>> /\ Len(results) = NumFiles
    BY <1>5 DEF LeaveScope, DtorCalled, callVars
  <2> QED
    BY <2>1, <1>0, CallFrame DEF CallInv, TypeOK
<1>6. CASE InsidePool
  <2>1. UNCHANGED <<future, results, onDisk>>
    BY <1>6 DEF InsidePool, callVars
  <2>2. /\ UNCHANGED ready
        /\ opc' \in {"dtorLock", "dtorStop", "notifyAll", "join", "gone"} =>
             opc \in {"dtorLock", "dtorStop", "notifyAll", "join", "gone"}
    BY <1>6 DEF InsidePool, OwnerStep, OwnerLocks, SpawnWorker, CtorReturns, EnqueueLocks,
                DtorLocks, EnqueuePushes, NotifyOne, DtorStops, NotifyAll, DtorJoins,
                OwnerGoes, ownerVars
  <2> QED
    BY <2>1, <2>2, <1>0, CallFrame DEF CallInv, TypeOK, FuturesFollowTasks
<1>7. ASSUME NEW f \in Tasks, RemoveFile(f) PROVE CallInv'
  <2>1. UNCHANGED <<future, results, ready, opc>> /\ onDisk' \in SUBSET Tasks
    BY <1>7 DEF RemoveFile, poolVars, CallInv, TypeOK
  <2> QED
    BY <2>1, <1>0, CallFrame DEF CallInv, FuturesFollowTasks
<1>8. CASE UNCHANGED vars
  <2>1. UNCHANGED <<future, results, ready, opc, onDisk>>
    BY <1>8 DEF vars, poolVars, callVars
  <2> QED
    BY <2>1, <1>0, CallFrame DEF CallInv, TypeOK, FuturesFollowTasks
<1> QED
  BY <1>1, <1>2, <1>3, <1>4, <1>5, <1>6, <1>7, <1>8 DEF Next, CallerStep, Returned,
     MergeNext, EnqueueNext, LeaveScope, InsidePool, callVars

-------------------------------------------------------------------------------

(* CallInv is inductive: it holds in every reachable state of the call. *)
THEOREM CallInvariant == SafetySpec => []CallInv
<1>1. Init => CallInv
  <2> SUFFICES ASSUME Init PROVE CallInv
    OBVIOUS
  <2>1. PoolInv /\ ready = {} /\ opc = "ctor"
    BY PoolInitInv DEF Init, PoolInit
  <2>2. <<>> \in Seq([file : Tasks, stats : Stats]) /\ Len(<<>>) = 0
    BY EmptySeq
  <2>3. results = <<>> /\ Len(results) = 0 /\ onDisk = Tasks /\ future = [f \in Tasks |-> "pending"]
    BY <2>2 DEF Init
  <2>4. TypeOK
    BY <2>1, <2>2, <2>3 DEF PoolInv, TypeOK
  <2>5. NumFiles \in Nat
    BY FileListAssumption, LenProperties DEF NumFiles
  <2>6. FuturesFollowTasks /\ ResultsInFileOrder
    BY <2>1, <2>3, <2>5 DEF FuturesFollowTasks, ResultsInFileOrder
  <2> QED
    BY <2>1, <2>4, <2>6 DEF CallInv
<1> QED
  BY <1>1, CallStep, PTL DEF SafetySpec

(* However the workers interleave, the k-th result is the k-th file's and is *)
(* what its task computed (file_processor.cpp:70-73).                        *)
THEOREM OrderOfResults == SafetySpec => []ResultsInFileOrder
BY CallInvariant, PTL DEF CallInv

-------------------------------------------------------------------------------
(* Nobody waits in vain.                                                      *)

(* All threads have been started when the constructor returns, and no worker *)
(* sleeps when the destructor joins them: notify_all has woken those that    *)
(* slept, and stop keeps the others awake.                                   *)
WorkersAreUp ==
  /\ opc # "ctor" => \A w \in Workers : wpc[w] # "unborn"
  /\ opc \in {"join", "gone"} => \A w \in Workers : wpc[w] # "asleep"

(* Every step of the pool keeps the workers up. *)
LEMMA WorkersAreUpStep ==
  ASSUME PoolInv, WorkersAreUp, [PoolNext]_poolVars
  PROVE  WorkersAreUp'
<1> wpc \in [Workers -> WorkerStates]
  BY DEF PoolInv, PoolTypeOK
<1> USE DEF WorkersAreUp
<1>1. ASSUME NEW w \in Workers, WorkerStep(w) \/ SpuriousWakeup(w) PROVE WorkersAreUp'
  <2>1. opc' = opc /\ \A v \in Workers : wpc'[v] # wpc[v] => wpc'[v] # "unborn"
    BY <1>1 DEF WorkerStep, WorkerLock, WorkerBlocks, WorkerSleeps, WorkerReturns, WorkerTakes,
       WorkerRuns, SpuriousWakeup, WorkerGoes, ownerVars
  <2>2. opc \in {"join", "gone"} => ~WorkerSleeps(w)
    BY DEF PoolInv, WhatWorkersSaw, WorkerSleeps, WorkerGoes
  <2>3. ~WorkerSleeps(w) => \A v \in Workers : wpc'[v] = "asleep" => wpc[v] = "asleep"
    BY <1>1 DEF WorkerStep, WorkerLock, WorkerBlocks, WorkerReturns, WorkerTakes,
       WorkerRuns, SpuriousWakeup, WorkerGoes
  <2> QED
    BY <2>1, <2>2, <2>3
<1>2. ASSUME NEW w \in Workers, SpawnWorker(w) PROVE WorkersAreUp'
  BY <1>2 DEF SpawnWorker, WorkerGoes, ownerVars
<1>3. CASE CtorReturns \/ DtorJoins
  BY <1>3 DEF CtorReturns, DtorJoins, OwnerGoes, workerVars, PoolInv, WhatWorkersSaw
<1>4. CASE OwnerLocks \/ EnqueuePushes \/ DtorStops \/ DtorCalled
  BY <1>4 DEF OwnerLocks, EnqueueLocks, DtorLocks, EnqueuePushes, DtorStops, DtorCalled, OwnerGoes,
     workerVars
<1>5. CASE NotifyOne
  BY <1>5 DEF NotifyOne, WakeOne, OwnerGoes, Sleepers
<1>6. CASE NotifyAll
  BY <1>6 DEF NotifyAll, OwnerGoes, Sleepers
<1>7. ASSUME NEW t \in Tasks, EnqueueCalled(t) PROVE WorkersAreUp'
  BY <1>7 DEF EnqueueCalled, OwnerGoes, workerVars
<1>8. CASE UNCHANGED poolVars
  BY <1>8 DEF poolVars
<1> QED
  BY <1>1, <1>2, <1>3, <1>4, <1>5, <1>6, <1>7, <1>8 DEF PoolNext, OwnerStep, Gone

(* While the mutex is refused to the caller, the worker that holds it goes on.*)
LEMMA MutexMovesOn ==
  ASSUME CallInv, queue_mutex # Nobody, opc \notin {"enqueuePush", "dtorStop"}
  PROVE  \E w \in Workers : ~WorkerWaits(w)
<1>1. PICK w \in Workers : queue_mutex = w
  BY DEF CallInv, PoolInv, PoolTypeOK, MutexHeld
<1>2. wpc[w] \in {"check", "block"}
  BY <1>1 DEF CallInv, PoolInv, MutexHeld
<1> QED
  BY <1>2 DEF WorkerWaits

(* A future that is not ready is not left to sleepers: were all workers      *)
(* asleep, the queue would be empty.                                         *)
LEMMA FutureMovesOn ==
  ASSUME CallInv, WorkersAreUp, Workers # {}, opc = "idle", queue_mutex = Nobody,
         NEW f \in submitted, f \notin ready
  PROVE  \E w \in Workers : ~WorkerWaits(w)
<1> SUFFICES ASSUME \A w \in Workers : WorkerWaits(w) PROVE FALSE
  OBVIOUS
<1>1. \A w \in Workers : wpc[w] = "asleep"
  BY DEF WorkerWaits, WorkersAreUp, CallInv, PoolInv, WhatWorkersSaw
<1>2. Sleepers # {} /\ Awake = {} /\ Running = {}
  BY <1>1 DEF Sleepers, Awake, Running
<1>3. Len(tasks) <= 0
  <2>1. Len(tasks) <= Cardinality(Awake) + 0
    BY <1>2 DEF CallInv, PoolInv, NoSleeperMissesWork
  <2> QED
    BY <1>2, <2>1, FS_EmptySet
<1>4. Queued = {}
  <2>1. tasks \in Seq(Tasks)
    BY DEF CallInv, PoolInv, PoolTypeOK
  <2>2. Len(tasks) = 0
    BY <1>3, <2>1, LenProperties
  <2> QED
    BY <2>2 DEF Queued
<1> QED
  BY <1>2, <1>4 DEF CallInv, PoolInv, TaskInOnePlace

(* A worker that join waits for has not been left asleep. *)
LEMMA JoinMovesOn ==
  ASSUME CallInv, WorkersAreUp, opc = "join", queue_mutex = Nobody,
         NEW w \in Workers, wpc[w] # "exited"
  PROVE  ~WorkerWaits(w)
BY DEF WorkerWaits, WorkersAreUp

(* While the caller is in future.get() (file_processor.cpp:71), in join or   *)
(* before the mutex (thread_pool_impl.h), a worker can go on without a       *)
(* spurious wakeup, for any number of workers but 0 and any files.           *)
THEOREM NeverAllWaitHolds == SafetySpec => []NeverAllWait
<1>1. PoolInit => WorkersAreUp
  BY DEF PoolInit, WorkersAreUp
<1>2. PoolSafetySpec => []WorkersAreUp
  BY <1>1, WorkersAreUpStep, PoolInvariant, PTL DEF PoolSafetySpec
<1>3. CallInv /\ WorkersAreUp => NeverAllWait
  <2> SUFFICES ASSUME CallInv, WorkersAreUp, Workers # {}, CallerWaits
               PROVE  \E w \in Workers : ~WorkerWaits(w)
    BY DEF NeverAllWait
  <2>1. CASE queue_mutex # Nobody
    BY <2>1, MutexMovesOn DEF CallerWaits
  <2>2. CASE /\ queue_mutex = Nobody /\ opc = "idle" /\ EnqueuedAll /\ Len(results) < NumFiles
             /\ FileList[Len(results) + 1] \notin ready
    <3>1. Len(results) + 1 \in 1..NumFiles
      BY <2>2, FileListAssumption, LenProperties DEF CallInv, TypeOK, NumFiles
    <3>2. FileList[Len(results) + 1] \in submitted
      BY <2>2, <3>1 DEF EnqueuedAll
    <3> QED
      BY <2>2, <3>2, FutureMovesOn
  <2>3. CASE queue_mutex = Nobody /\ opc = "join" /\ \E w \in Workers : wpc[w] # "exited"
    BY <2>3, JoinMovesOn
  <2> QED
    BY <2>1, <2>2, <2>3 DEF CallerWaits
<1> QED
  BY <1>2, <1>3, CallInvariant, CallImplementsPool, PTL

-------------------------------------------------------------------------------
(* The call gets on.                                                          *)

(* What is left to do: files to enqueue and results to merge, what the caller*)
(* does for that, threads to start, tasks to take and to run, and the way to *)
(* the next task or to sleep.                                                *)
ToEnqueue == {k \in 1..NumFiles : FileList[k] \notin submitted \cup {arg}}

CallerLeft ==
  CASE opc = "ctor" -> 9 [] opc = "enqueueLock" -> 8 [] opc = "enqueuePush" -> 7
    [] opc = "notifyOne" -> 6 [] opc = "idle" -> 5 [] opc = "dtorLock" -> 4
    [] opc = "dtorStop" -> 3 [] opc = "notifyAll" -> 2 [] opc = "join" -> 1 [] OTHER -> 0

WorkersAt(place) == Cardinality({w \in Workers : wpc[w] = place})

ToDo ==
  <<Cardinality(ToEnqueue), NumFiles - Len(results), CallerLeft, WorkersAt("unborn"), Len(tasks),
    WorkersAt("run"), WorkersAt("lock"), WorkersAt("check"), WorkersAt("block")>>

(* Once the caller has put a task in the queue it holds no other. *)
ArgIsSubmitted == opc \notin {"enqueueLock", "enqueuePush"} => arg \in submitted \cup {NoTask}

(* Every step of the pool keeps that. *)
LEMMA ArgStep == ASSUME ArgIsSubmitted, [PoolNext]_poolVars PROVE ArgIsSubmitted'
<1> USE DEF ArgIsSubmitted
<1>1. ASSUME NEW w \in Workers, WorkerStep(w) \/ SpuriousWakeup(w) \/ SpawnWorker(w)
      PROVE  ArgIsSubmitted'
  BY <1>1 DEF WorkerStep, WorkerLock, WorkerBlocks, WorkerSleeps, WorkerReturns, WorkerTakes,
     WorkerRuns, SpuriousWakeup, SpawnWorker, ownerVars
<1>2. CASE CtorReturns \/ OwnerLocks \/ EnqueuePushes \/ NotifyOne \/ DtorStops \/ NotifyAll
           \/ DtorJoins \/ DtorCalled
  BY <1>2 DEF CtorReturns, OwnerLocks, EnqueueLocks, DtorLocks, EnqueuePushes, NotifyOne, DtorStops,
     NotifyAll, DtorJoins, DtorCalled, OwnerGoes
<1>3. ASSUME NEW t \in Tasks, EnqueueCalled(t) PROVE ArgIsSubmitted'
  BY <1>3 DEF EnqueueCalled, OwnerGoes
<1>4. CASE UNCHANGED poolVars
  BY <1>4 DEF poolVars
<1> QED
  BY <1>1, <1>2, <1>3, <1>4 DEF PoolNext, OwnerStep, Gone

(* What is left to do is counted by numbers. *)
LEMMA ToDoTyped ==
  ASSUME CallInv
  PROVE  /\ ToDo \in [1..9 -> Nat]
         /\ \A place : WorkersAt(place) \in Nat
         /\ IsFiniteSet(ToEnqueue) /\ Cardinality(ToEnqueue) \in Nat
         /\ NumFiles - Len(results) \in Nat /\ Len(tasks) \in Nat /\ CallerLeft \in Nat
<1>1. \A place : WorkersAt(place) \in Nat
  BY PoolAssumption, FS_Subset, FS_CardinalityType DEF WorkersAt
<1>2. NumFiles \in Nat /\ Len(results) \in Nat /\ Len(results) <= NumFiles /\ Len(tasks) \in Nat
  BY FileListAssumption, LenProperties
  DEF NumFiles, CallInv, PoolInv, PoolTypeOK, TypeOK, ResultsInFileOrder
<1>3. IsFiniteSet(ToEnqueue) /\ Cardinality(ToEnqueue) \in Nat
  <2>1. ToEnqueue \in SUBSET (1..NumFiles) /\ IsFiniteSet(1..NumFiles)
    BY <1>2, FS_Interval DEF ToEnqueue
  <2> QED
    BY <2>1, FS_Subset, FS_CardinalityType
<1>4. CallerLeft \in Nat
  BY DEF CallerLeft
<1>5. NumFiles - Len(results) \in Nat
  BY <1>2
<1>6. ToDo \in [1..9 -> Nat]
  <2>1. \A c1, c2, c3, c4, c5, c6, c7, c8, c9 \in Nat :
          <<c1, c2, c3, c4, c5, c6, c7, c8, c9>> \in [1..9 -> Nat]
    OBVIOUS
  <2> QED
    BY ZenonT(20), <2>1, <1>1, <1>2, <1>3, <1>4, <1>5 DEF ToDo
<1> QED
  BY <1>1, <1>2, <1>3, <1>4, <1>5, <1>6

(* A worker that goes from one place to another is one less there, one more  *)
(* here, and nothing else moves.                                             *)
LEMMA WorkerMoves ==
  ASSUME wpc \in [Workers -> WorkerStates], NEW w \in Workers,
         NEW from, NEW to, from # to, to \in WorkerStates, WorkerGoes(w, from, to)
  PROVE  /\ WorkersAt(from)' < WorkersAt(from)
         /\ \A place : place # from /\ place # to => WorkersAt(place)' = WorkersAt(place)
<1>1. wpc[w] = from /\ wpc' = [wpc EXCEPT ![w] = to]
  BY DEF WorkerGoes
<1>2. {v \in Workers : wpc'[v] = from} = {v \in Workers : wpc[v] = from} \ {w}
  BY <1>1
<1>3. /\ IsFiniteSet({v \in Workers : wpc[v] = from}) /\ w \in {v \in Workers : wpc[v] = from}
      /\ Cardinality({v \in Workers : wpc[v] = from}) \in Nat
  BY <1>1, PoolAssumption, FS_Subset, FS_CardinalityType
<1>4. WorkersAt(from)' < WorkersAt(from)
  <2> DEFINE S == {v \in Workers : wpc[v] = from}
  <2>1. Cardinality(S \ {w}) = Cardinality(S) - 1
    <3> HIDE DEF S
    <3> QED
      BY <1>3, FS_RemoveElement DEF S
  <2> QED
    BY <1>2, <1>3, <2>1 DEF WorkersAt
<1>5. ASSUME NEW place, place # from, place # to PROVE WorkersAt(place)' = WorkersAt(place)
  <2>1. {v \in Workers : wpc'[v] = place} = {v \in Workers : wpc[v] = place}
    BY <1>1, <1>5
  <2> QED
    BY <2>1 DEF WorkersAt
<1> QED
  BY <1>4, <1>5

(* The file that is enqueued next need not be enqueued any more. *)
LEMMA EnqueueLeavesLess ==
  ASSUME CallInv, ArgIsSubmitted, EnqueueNext
  PROVE  Cardinality(ToEnqueue)' < Cardinality(ToEnqueue)
<1>1. PICK k \in 1..NumFiles : EnqueueCalled(FileList[k])
  BY DEF EnqueueNext
<1>2. /\ opc = "idle" /\ FileList[k] \notin submitted /\ arg' = FileList[k] /\ submitted' = submitted
  BY <1>1 DEF EnqueueCalled, OwnerGoes
<1>3. FileList[k] \in Tasks /\ FileList[k] # NoTask
  BY PoolAssumption, FileListAssumption DEF NumFiles
<1>4. arg \in submitted \cup {NoTask}
  BY <1>2 DEF ArgIsSubmitted
<1>5. k \in ToEnqueue
  BY <1>2, <1>3, <1>4 DEF ToEnqueue
<1>6. ToEnqueue' \in SUBSET (ToEnqueue \ {k})
  <2>1. ToEnqueue' = {l \in 1..NumFiles : FileList[l] \notin submitted \cup {FileList[k]}}
    BY <1>2 DEF ToEnqueue
  <2>2. \A l \in 1..NumFiles : FileList[l] # NoTask
    BY PoolAssumption, FileListAssumption DEF NumFiles
  <2> QED
    BY <1>4, <2>1, <2>2 DEF ToEnqueue
<1>7. IsFiniteSet(ToEnqueue) /\ Cardinality(ToEnqueue) \in Nat
  BY ToDoTyped
<1>8. /\ IsFiniteSet(ToEnqueue \ {k}) /\ Cardinality(ToEnqueue \ {k}) = Cardinality(ToEnqueue) - 1
  BY <1>5, <1>7, FS_RemoveElement
<1>9. Cardinality(ToEnqueue') <= Cardinality(ToEnqueue \ {k}) /\ Cardinality(ToEnqueue') \in Nat
  BY <1>6, <1>8, FS_Subset, FS_CardinalityType
<1> QED
  BY <1>7, <1>8, <1>9

(* Every step of the caller and of the workers leaves less to do. *)
LEMMA ToDoStep ==
  ASSUME CallInv, ArgIsSubmitted, CallerStep \/ \E w \in Workers : WorkerElsewhere(w) \/ RunTask(w)
  PROVE  Below(ToDo', ToDo)
<1>1. /\ DOMAIN ToDo = 1..9
      /\ ToDo[1] = Cardinality(ToEnqueue) /\ ToDo[2] = NumFiles - Len(results)
      /\ ToDo[3] = CallerLeft /\ ToDo[4] = WorkersAt("unborn") /\ ToDo[5] = Len(tasks)
      /\ ToDo[6] = WorkersAt("run") /\ ToDo[7] = WorkersAt("lock") /\ ToDo[8] = WorkersAt("check")
      /\ ToDo[9] = WorkersAt("block")
  BY DEF ToDo
<1>2. /\ ToDo'[1] = Cardinality(ToEnqueue)' /\ ToDo'[2] = NumFiles - Len(results)'
      /\ ToDo'[3] = CallerLeft' /\ ToDo'[4] = WorkersAt("unborn")' /\ ToDo'[5] = Len(tasks)'
      /\ ToDo'[6] = WorkersAt("run")' /\ ToDo'[7] = WorkersAt("lock")'
      /\ ToDo'[8] = WorkersAt("check")' /\ ToDo'[9] = WorkersAt("block")'
  BY DEF ToDo, NumFiles
<1>3. ASSUME NEW k \in 1..9, ToDo'[k] < ToDo[k], \A j \in 1..(k - 1) : ToDo'[j] = ToDo[j]
      PROVE  Below(ToDo', ToDo)
  BY <1>1, <1>3 DEF Below
<1>4. wpc \in [Workers -> WorkerStates] /\ tasks \in Seq(Tasks)
  BY DEF CallInv, PoolInv, PoolTypeOK
<1> HIDE DEF ToDo
<1>5. ASSUME results' = results, submitted' \cup {arg'} = submitted \cup {arg}
      PROVE  ToDo'[1] = ToDo[1] /\ ToDo'[2] = ToDo[2]
  <2>1. ToEnqueue' = ToEnqueue
    BY <1>5 DEF ToEnqueue, NumFiles
  <2> QED
    BY <1>1, <1>2, <1>5, <2>1
<1>6. ASSUME UNCHANGED <<results, submitted, arg, opc>>
      PROVE  ToDo'[1] = ToDo[1] /\ ToDo'[2] = ToDo[2] /\ ToDo'[3] = ToDo[3]
  BY <1>1, <1>2, <1>5, <1>6 DEF CallerLeft
<1>7. CASE EnqueueNext
  <2>1. ToDo'[1] < ToDo[1]
    BY <1>1, <1>2, <1>7, EnqueueLeavesLess
  <2> QED
    BY <1>3, <2>1
<1>8. CASE MergeNext
  <2>1. ToDo'[1] = ToDo[1]
    BY <1>1, <1>2, <1>8 DEF MergeNext, poolVars, ToEnqueue
  <2>2. Len(results)' = Len(results) + 1 /\ Len(results) \in Nat
    BY <1>8, LenProperties, AppendProperties DEF MergeNext, CallInv, TypeOK
  <2>3. ToDo'[2] < ToDo[2]
    BY <1>1, <1>2, <2>2, FileListAssumption, LenProperties DEF NumFiles
  <2> QED
    BY <1>3, <2>1, <2>3
<1>9. ASSUME results' = results, submitted' \cup {arg'} = submitted \cup {arg},
             CallerLeft' < CallerLeft
      PROVE  Below(ToDo', ToDo)
  <2>1. ToDo'[3] < ToDo[3]
    BY <1>1, <1>2, <1>9
  <2> QED
    BY <1>3, <1>5, <1>9, <2>1
<1>10. CASE LeaveScope
  BY <1>9, <1>10 DEF LeaveScope, DtorCalled, OwnerGoes, callVars, CallerLeft
<1>11. CASE InsidePool /\ (CtorReturns \/ OwnerLocks \/ DtorStops \/ NotifyAll \/ DtorJoins)
  <2>1. results' = results /\ submitted' = submitted /\ arg' = arg
    BY <1>11 DEF InsidePool, callVars, CtorReturns, OwnerLocks, EnqueueLocks, DtorLocks, DtorStops,
       NotifyAll, DtorJoins
  <2>2. CallerLeft' < CallerLeft
    BY <1>11 DEF CtorReturns, OwnerLocks, EnqueueLocks, DtorLocks, DtorStops, NotifyAll, DtorJoins,
       OwnerGoes, CallerLeft
  <2> QED
    BY <1>9, <2>1, <2>2
<1>12. CASE InsidePool /\ EnqueuePushes
  BY <1>9, <1>12 DEF InsidePool, callVars, EnqueuePushes, OwnerGoes, CallerLeft
<1>13. CASE InsidePool /\ NotifyOne
  <2>1. results' = results /\ submitted' = submitted /\ arg' = NoTask /\ arg \in submitted \cup {NoTask}
    BY <1>13 DEF InsidePool, callVars, NotifyOne, OwnerGoes, ArgIsSubmitted
  <2>2. ToEnqueue' = ToEnqueue
    <3>1. \A k \in 1..NumFiles : FileList[k] # NoTask
      BY PoolAssumption, FileListAssumption DEF NumFiles
    <3> QED
      BY <2>1, <3>1 DEF ToEnqueue, NumFiles
  <2>3. CallerLeft' < CallerLeft
    BY <1>13 DEF NotifyOne, OwnerGoes, CallerLeft
  <2>4. ToDo'[1] = ToDo[1] /\ ToDo'[2] = ToDo[2] /\ ToDo'[3] < ToDo[3]
    BY <1>1, <1>2, <2>1, <2>2, <2>3
  <2> QED
    BY <1>3, <2>4
<1>14. ASSUME NEW w \in Workers, InsidePool, SpawnWorker(w) PROVE Below(ToDo', ToDo)
  <2>1. UNCHANGED <<results, submitted, arg, opc>> /\ WorkerGoes(w, "unborn", "lock")
    BY <1>14 DEF InsidePool, callVars, SpawnWorker, ownerVars
  <2>2. WorkersAt("unborn")' < WorkersAt("unborn")
    BY <1>4, <2>1, WorkerMoves DEF WorkerStates
  <2>3. ToDo'[4] < ToDo[4]
    BY <1>1, <1>2, <2>2
  <2> QED
    BY <1>3, <1>6, <2>1, <2>3
<1>15. ASSUME NEW w \in Workers, WorkerElsewhere(w) \/ RunTask(w) PROVE Below(ToDo', ToDo)
  <2>1. UNCHANGED <<results, submitted, arg, opc>>
    BY <1>15 DEF WorkerElsewhere, RunTask, WorkerLock, WorkerBlocks, WorkerSleeps, WorkerReturns,
       WorkerTakes, WorkerRuns, callVars, ownerVars
  <2>2. CASE WorkerTakes(w)
    <3>1. WorkerGoes(w, "check", "run") /\ tasks # <<>> /\ tasks' = Tail(tasks)
      BY <2>2 DEF WorkerTakes, WaitPredicate, MayReturn
    <3>2. WorkersAt("unborn")' = WorkersAt("unborn")
      BY <1>4, <3>1, WorkerMoves DEF WorkerStates
    <3>3. Len(tasks)' < Len(tasks)
      BY <1>4, <3>1, HeadTailProperties, LenProperties
    <3>4. ToDo'[4] = ToDo[4] /\ ToDo'[5] < ToDo[5]
      BY <1>1, <1>2, <3>2, <3>3
    <3> QED
      BY <1>3, <1>6, <2>1, <3>4
  <2>3. CASE RunTask(w)
    <3>1. WorkerGoes(w, "run", "lock") /\ tasks' = tasks
      BY <2>3 DEF RunTask, WorkerRuns
    <3>2. WorkersAt("unborn")' = WorkersAt("unborn") /\ WorkersAt("run")' < WorkersAt("run")
      BY <1>4, <3>1, WorkerMoves DEF WorkerStates
    <3>3. ToDo'[4] = ToDo[4] /\ ToDo'[5] = ToDo[5] /\ ToDo'[6] < ToDo[6]
      BY <1>1, <1>2, <3>1, <3>2
    <3> QED
      BY <1>3, <1>6, <2>1, <3>3
  <2>4. CASE WorkerLock(w)
    <3>1. WorkerGoes(w, "lock", "check") /\ tasks' = tasks
      BY <2>4 DEF WorkerLock
    <3>2. /\ WorkersAt("unborn")' = WorkersAt("unborn") /\ WorkersAt("run")' = WorkersAt("run")
          /\ WorkersAt("lock")' < WorkersAt("lock")
      BY <1>4, <3>1, WorkerMoves DEF WorkerStates
    <3>3. ToDo'[4] = ToDo[4] /\ ToDo'[5] = ToDo[5] /\ ToDo'[6] = ToDo[6] /\ ToDo'[7] < ToDo[7]
      BY <1>1, <1>2, <3>1, <3>2
    <3> QED
      BY <1>3, <1>6, <2>1, <3>3
  <2>5. CASE WorkerBlocks(w) \/ WorkerReturns(w)
    <3>1. tasks' = tasks /\ \E to \in {"block", "exited"} : WorkerGoes(w, "check", to)
      BY <2>5 DEF WorkerBlocks, WorkerReturns
    <3>2. /\ WorkersAt("unborn")' = WorkersAt("unborn") /\ WorkersAt("run")' = WorkersAt("run")
          /\ WorkersAt("lock")' = WorkersAt("lock") /\ WorkersAt("check")' < WorkersAt("check")
      BY <1>4, <3>1, WorkerMoves DEF WorkerStates
    <3>3. /\ ToDo'[4] = ToDo[4] /\ ToDo'[5] = ToDo[5] /\ ToDo'[6] = ToDo[6]
          /\ ToDo'[7] = ToDo[7] /\ ToDo'[8] < ToDo[8]
      BY <1>1, <1>2, <3>1, <3>2
    <3> QED
      BY <1>3, <1>6, <2>1, <3>3
  <2>6. CASE WorkerSleeps(w)
    <3>1. WorkerGoes(w, "block", "asleep") /\ tasks' = tasks
      BY <2>6 DEF WorkerSleeps
    <3>2. /\ WorkersAt("unborn")' = WorkersAt("unborn") /\ WorkersAt("run")' = WorkersAt("run")
          /\ WorkersAt("lock")' = WorkersAt("lock") /\ WorkersAt("check")' = WorkersAt("check")
          /\ WorkersAt("block")' < WorkersAt("block")
      BY <1>4, <3>1, WorkerMoves DEF WorkerStates
    <3>3. /\ ToDo'[4] = ToDo[4] /\ ToDo'[5] = ToDo[5] /\ ToDo'[6] = ToDo[6]
          /\ ToDo'[7] = ToDo[7] /\ ToDo'[8] = ToDo[8] /\ ToDo'[9] < ToDo[9]
      BY <1>1, <1>2, <3>1, <3>2
    <3> QED
      BY <1>3, <1>6, <2>1, <3>3
  <2> QED
    BY <1>15, <2>2, <2>3, <2>4, <2>5, <2>6 DEF WorkerElsewhere
<1> QED
  BY <1>7, <1>8, <1>10, <1>11, <1>12, <1>13, <1>14, <1>15 DEF CallerStep, InsidePool, OwnerStep

(* Every step of the caller and of the workers leaves less to do, in an order*)
(* in which nothing goes down for ever (NoEndlessDescent). Only a spurious   *)
(* wakeup makes more; between two of them the loops of the workers           *)
(* (thread_pool_impl.h:9-27) cannot go round for ever, and with NeverAllWait *)
(* the steps only come to an end when the call has returned.                 *)
THEOREM EveryStepGetsOn ==
  SafetySpec =>
    /\ [](ToDo \in [1..9 -> Nat])
    /\ [][CallerStep \/ (\E w \in Workers : WorkerElsewhere(w) \/ RunTask(w)) =>
           Below(ToDo', ToDo)]_vars
<1>1. PoolInit => ArgIsSubmitted
  BY DEF PoolInit, ArgIsSubmitted
<1>2. PoolSafetySpec => []ArgIsSubmitted
  BY <1>1, ArgStep, PTL DEF PoolSafetySpec
<1>3. CallInv => ToDo \in [1..9 -> Nat]
  BY ToDoTyped
<1>4. CallInv /\ ArgIsSubmitted /\ [Next]_vars =>
        [CallerStep \/ (\E w \in Workers : WorkerElsewhere(w) \/ RunTask(w)) => Below(ToDo', ToDo)]_vars
  BY ToDoStep
<1> QED
  BY <1>2, <1>3, <1>4, CallInvariant, CallImplementsPool, PTL DEF SafetySpec

-------------------------------------------------------------------------------
(* The report that n results amount to. *)
LEMMA ReportOf ==
  ASSUME NEW n \in Nat
  PROVE  /\ [k \in 1..0 |-> {k}] = <<>>
         /\ [k \in 1..(n + 1) |-> {k}] = Append([k \in 1..n |-> {k}], (n + 1)..(n + 1))
<1> DEFINE s == [k \in 1..n |-> {k}]
           t == [k \in 1..(n + 1) |-> {k}]
<1>1. s \in Seq(SUBSET Nat) /\ t \in Seq(SUBSET Nat)
  BY SeqDef
<1>2. (n + 1)..(n + 1) = {n + 1}
  OBVIOUS
<1>3. Len(s) = n /\ Len(t) = n + 1
  BY <1>1, LenProperties
<1>4. /\ Append(s, {n + 1}) \in Seq(SUBSET Nat)
      /\ Len(Append(s, {n + 1})) = n + 1
      /\ \A k \in 1..n : Append(s, {n + 1})[k] = {k}
      /\ Append(s, {n + 1})[n + 1] = {n + 1}
  BY <1>1, <1>3
<1>5. t = Append(s, {n + 1})
  BY <1>1, <1>3, <1>4, SeqEqual
<1>6. [k \in 1..0 |-> {k}] = <<>>
  OBVIOUS
<1> QED
  BY <1>2, <1>5, <1>6

(* The call implements the abstract report: every file in order, none left   *)
(* out, and no return before the last.                                       *)
THEOREM CallImplementsReport == SafetySpec => Report!SafetySpec
<1> DEFINE rep == [k \in 1..Len(results) |-> {k}]
<1>1. Init => Report!Init
  <2> SUFFICES ASSUME Init PROVE Report!Init
    OBVIOUS
  <2>1. Len(results) = 0 /\ opc = "ctor"
    BY EmptySeq DEF Init, PoolInit
  <2>2. rep = <<>>
    BY <2>1, ReportOf
  <2>3. NumFiles \in Nat
    BY FileListAssumption, LenProperties DEF NumFiles
  <2> QED
    BY <2>1, <2>2, <2>3 DEF Report!Init
<1>2. CallInv /\ [Next]_vars => [Report!Next]_(Report!vars)
  <2> SUFFICES ASSUME CallInv, [Next]_vars PROVE [Report!Next]_(Report!vars)
    OBVIOUS
  <2>1. Len(results) \in Nat /\ NumFiles \in Nat
    BY FileListAssumption, LenProperties DEF NumFiles, CallInv, TypeOK
  <2>2. ASSUME UNCHANGED results, (opc = "gone") = (opc' = "gone")
        PROVE  [Report!Next]_(Report!vars)
    BY <2>2 DEF Report!vars
  <2>3. CASE MergeNext
    <3>1. PICK n \in Nat : n = Len(results)
      BY <2>1
    <3>2. /\ n < NumFiles /\ Len(results') = n + 1
          /\ opc = "idle" /\ opc' = "idle"
      BY <2>3, <3>1, LenProperties DEF MergeNext, CallInv, TypeOK, poolVars
    <3>3. rep' = Append(rep, (n + 1)..(n + 1))
      BY <3>1, <3>2, ReportOf
    <3>4. Report!Report(n + 1)
      BY <3>1, <3>2, <3>3 DEF Report!Report
    <3>5. n + 1 \in (Len(results) + 1)..NumFiles
      BY <2>1, <3>1, <3>2
    <3> QED
      BY <3>4, <3>5 DEF Report!Next
  <2>4. CASE InsidePool
    <3>1. results' = results
      BY <2>4 DEF InsidePool, callVars
    <3>2. CASE DtorJoins
      <4>1. opc = "join" /\ opc' = "gone"
        BY <3>2 DEF DtorJoins, OwnerGoes
      <4>2. Len(results) = NumFiles
        BY <4>1 DEF CallInv, FuturesFollowTasks
      <4>3. Report!Return
        BY <3>1, <4>1, <4>2 DEF Report!Return
      <4> QED
        BY <4>3 DEF Report!Next
    <3>3. CASE ~DtorJoins
      <4>1. (opc = "gone") = (opc' = "gone")
        BY <2>4, <3>3 DEF InsidePool, OwnerStep, OwnerLocks, SpawnWorker, CtorReturns, EnqueueLocks,
           DtorLocks, EnqueuePushes, NotifyOne, DtorStops, NotifyAll, OwnerGoes, ownerVars
      <4> QED
        BY <2>2, <3>1, <4>1
    <3> QED
      BY <3>2, <3>3
  <2>5. ASSUME NEW w \in Workers, WorkerElsewhere(w) \/ RunTask(w) \/ SpuriouslyWoken(w)
        PROVE  [Report!Next]_(Report!vars)
    <3>1. UNCHANGED <<results, opc>>
      BY <2>5 DEF WorkerElsewhere, RunTask, SpuriouslyWoken, callVars, ownerVars, WorkerLock,
                  WorkerBlocks, WorkerSleeps, WorkerReturns, WorkerTakes, WorkerRuns, SpuriousWakeup
    <3> QED
      BY <2>2, <3>1
  <2>6. ASSUME \/ EnqueueNext \/ LeaveScope \/ Returned \/ UNCHANGED vars
               \/ \E f \in Tasks : RemoveFile(f)
        PROVE  [Report!Next]_(Report!vars)
    <3>1. UNCHANGED results /\ (opc = "gone") = (opc' = "gone")
      BY <2>6 DEF EnqueueNext, LeaveScope, RemoveFile, Returned, vars, callVars, poolVars,
                  EnqueueCalled, DtorCalled, OwnerGoes
    <3> QED
      BY <2>2, <3>1
  <2> QED
    BY <2>3, <2>4, <2>5, <2>6 DEF Next, CallerStep
<1> QED
  BY <1>1, <1>2, CallInvariant, PTL DEF SafetySpec, Report!SafetySpec

-------------------------------------------------------------------------------
(***************************************************************************)
(* What the tasks compute: processFile. Taken characters have been read    *)
(* from the file; Behind them are the words that have been counted.        *)
(***************************************************************************)

Taken == Len(content) - Len(unread)

LineEnd == IF content[Taken] = Newline THEN Taken - 1 ELSE Taken

Behind == IF pc = "words" THEN LineEnd - Len(line) ELSE Taken

(* 1 if the last line has been taken, and no newline ends it.                *)
Missing == IF Taken > 0 /\ content[Taken] # Newline THEN 1 ELSE 0

FileTypeOK ==
  /\ pc \in {"getline", "words", "returned"}
  /\ content \in Seq(File!Characters) /\ Len(content) <= MaxLength
  /\ unread \in Seq(File!Characters) /\ Len(unread) <= Len(content)
  /\ line \in Seq(Letters \cup {Blank})
  /\ wordCount \in Nat /\ wordFrequency \in [File!Words -> Nat]

(* unread is the rest of content, after a newline or at its end; line is the *)
(* rest of the line that ends there.                                         *)
Parts ==
  /\ \A k \in (Taken + 1)..Len(content) : content[k] = unread[k - Taken]
  /\ Taken = 0 \/ unread = <<>> \/ content[Taken] = Newline
  /\ pc = "words" =>
       /\ Taken > 0 /\ Len(line) <= LineEnd
       /\ \A k \in (Behind + 1)..LineEnd : content[k] = line[k - Behind]
  /\ pc = "returned" => unread = <<>>

(* No word is cut in two where the counting stands, and what is behind has   *)
(* been counted.                                                             *)
Counted ==
  /\ ~(File!IsLetter(Behind) /\ File!IsLetter(Behind + 1))
  /\ lineCount = Cardinality(File!Newlines \cap (1..Taken)) + Missing
  /\ charCount = Taken + Missing
  /\ wordCount = Cardinality(File!WordStarts \cap (1..Behind))
  /\ \A word \in File!Words :
       wordFrequency[word] = Cardinality(File!Occurrences(word) \cap (1..Behind))

FileInv == FileTypeOK /\ Parts /\ Counted

-------------------------------------------------------------------------------
(* What getline and operator>> take from a sequence of characters.            *)

(* A sequence whose elements are in T is one over T.                          *)
LEMMA SeqOver ==
  ASSUME NEW S, NEW T, NEW s \in Seq(S), \A k \in 1..Len(s) : s[k] \in T
  PROVE  s \in Seq(T)
OBVIOUS

(* UpTo stops at the first character in stops, or at the end.                 *)
LEMMA UpToIs ==
  ASSUME NEW S, NEW s \in Seq(S), NEW stops, NEW u, u = File!UpTo(s, stops)
  PROVE  /\ u \in Seq(S \ stops) /\ Len(u) \in 0..Len(s)
         /\ \A k \in 1..Len(u) : u[k] = s[k] /\ s[k] \notin stops
         /\ Len(u) < Len(s) => s[Len(u) + 1] \in stops
<1> DEFINE I == {k \in 1..Len(s) : s[k] \in stops}
           m == File!SelectInSeq(s, LAMBDA ch : ch \in stops)
<1>1. m = IF I # {} THEN File!Min(I) ELSE 0
  BY DEF File!SelectInSeq
<1>2. u = IF m = 0 THEN s ELSE SubSeq(s, 1, m - 1)
  BY DEF File!UpTo
<1> HIDE DEF m
<1>3. CASE I = {}
  <2>1. u = s /\ \A k \in 1..Len(s) : s[k] \notin stops
    BY <1>1, <1>2, <1>3
  <2>2. u \in Seq(S \ stops)
    BY <2>1, SeqOver
  <2> QED
    BY <2>1, <2>2
<1>4. CASE I # {}
  <2>1. m \in I /\ \A k \in I : m <= k
    <3>1. \E k \in I : \A l \in I : k <= l
      <4>1. I \in SUBSET Nat
        OBVIOUS
      <4> HIDE DEF I
      <4> QED
        BY <1>4, <4>1, LeastOf
    <3> QED
      BY <1>1, <1>4, <3>1 DEF File!Min
  <2>2. m \in 1..Len(s) /\ s[m] \in stops
    BY <2>1
  <2>3. u = SubSeq(s, 1, m - 1)
    BY <1>2, <2>2
  <2>4. u \in Seq(S) /\ Len(u) = m - 1 /\ \A k \in 1..(m - 1) : u[k] = s[k]
    BY <2>2, <2>3, SubSeqProperties
  <2>5. \A k \in 1..(m - 1) : s[k] \notin stops
    BY <2>1, <2>2
  <2>6. u \in Seq(S \ stops)
    BY <2>2, <2>4, <2>5, SeqOver
  <2> QED
    BY <2>2, <2>4, <2>5, <2>6
<1> QED
  BY <1>3, <1>4

(* Without its first m characters a sequence goes on with the next one.        *)
LEMMA WithoutIs ==
  ASSUME NEW S, NEW s \in Seq(S), NEW m \in Nat, NEW u, u = File!Without(s, m)
  PROVE  /\ u \in Seq(S)
         /\ Len(u) = IF m <= Len(s) THEN Len(s) - m ELSE 0
         /\ \A k \in 1..Len(u) : u[k] = s[m + k]
<1>1. u = SubSeq(s, m + 1, Len(s)) /\ Len(s) \in Nat
  BY DEF File!Without
<1>2. CASE m < Len(s)
  BY <1>1, <1>2, SubSeqProperties
<1>3. CASE m >= Len(s)
  BY <1>1, <1>3, SubSeqProperties
<1> QED
  BY <1>1, <1>2, <1>3

-------------------------------------------------------------------------------
(* Steps of processFile.                                                       *)

(* How far the loops have come, as places in the content.                      *)
LEMMA FileTypes ==
  ASSUME FileInv
  PROVE  /\ Len(content) \in Nat /\ Len(unread) \in Nat /\ Len(line) \in Nat
         /\ Taken \in 0..Len(content) /\ Behind \in 0..Taken
         /\ pc = "words" => LineEnd \in 0..Taken /\ LineEnd + 1 >= Taken /\ Behind + Len(line) = LineEnd
<1>1. /\ Len(content) \in Nat /\ Len(unread) \in Nat /\ Len(line) \in Nat
      /\ Len(unread) <= Len(content)
  BY LenProperties DEF FileInv, FileTypeOK
<1>2. Taken \in 0..Len(content)
  BY <1>1 DEF Taken
<1>3. pc = "words" => Taken > 0 /\ Len(line) <= LineEnd
  BY DEF FileInv, Parts
<1> HIDE DEF Taken
<1> QED
  BY <1>1, <1>2, <1>3 DEF LineEnd, Behind

(* What ought to be counted is in the content, which does not change.          *)
LEMMA SameContent ==
  ASSUME content' = content
  PROVE  /\ File!Newlines' = File!Newlines /\ File!WordStarts' = File!WordStarts
         /\ \A word : File!Occurrences(word)' = File!Occurrences(word)
         /\ \A k : File!IsLetter(k)' = File!IsLetter(k)
BY DEF File!Newlines, File!WordStarts, File!Occurrences, File!IsLetter

(* What is counted is counted by places in the content.                       *)
LEMMA PlacesAre ==
  ASSUME FileInv
  PROVE  /\ File!Newlines \in SUBSET (1..Len(content))
         /\ File!WordStarts \in SUBSET (1..Len(content))
         /\ \A word : File!Occurrences(word) \in SUBSET File!WordStarts
BY DEF File!Newlines, File!WordStarts, File!Occurrences

(* getline takes a line and its newline, which are counted at once; no word of*)
(* the line is behind yet.                                                     *)
LEMMA GetLineStep == ASSUME FileInv, File!GetLine PROVE FileInv' /\ Len(unread') < Len(unread)
<1> DEFINE l == File!UpTo(unread, {Newline})
           m == Len(l)
<1>1. /\ pc = "getline" /\ pc' = "words" /\ unread # <<>> /\ content' = content
      /\ line' = l /\ unread' = File!Without(unread, m + 1)
      /\ charCount' = charCount + m + 1 /\ lineCount' = lineCount + 1
      /\ UNCHANGED <<wordCount, wordFrequency>>
  BY DEF File!GetLine, File!MoreLines
<1>2. /\ l \in Seq(File!Characters \ {Newline}) /\ m \in 0..Len(unread)
      /\ \A k \in 1..m : l[k] = unread[k] /\ unread[k] # Newline
      /\ m < Len(unread) => unread[m + 1] = Newline
  <2>1. unread \in Seq(File!Characters)
    BY DEF FileInv, FileTypeOK
  <2> HIDE DEF l
  <2>2. /\ l \in Seq(File!Characters \ {Newline}) /\ m \in 0..Len(unread)
        /\ \A k \in 1..m : l[k] = unread[k] /\ unread[k] \notin {Newline}
        /\ m < Len(unread) => unread[m + 1] \in {Newline}
    BY <2>1, UpToIs DEF l
  <2> QED
    BY <2>2
<1> HIDE DEF l, m
<1>3. l \in Seq(Letters \cup {Blank}) /\ m = Len(l) /\ m \in Nat
  <2>1. \A k \in 1..Len(l) : l[k] \in Letters \cup {Blank}
    BY <1>2 DEF File!Characters
  <2>2. l \in Seq(Letters \cup {Blank})
    BY <1>2, <2>1, SeqOver
  <2> QED
    BY <2>2, LenProperties DEF m
<1>4. /\ unread' \in Seq(File!Characters)
      /\ Len(unread') = IF m + 1 <= Len(unread) THEN Len(unread) - (m + 1) ELSE 0
      /\ \A k \in 1..Len(unread') : unread'[k] = unread[m + 1 + k]
  <2>1. unread \in Seq(File!Characters) /\ m + 1 \in Nat
    BY <1>3 DEF FileInv, FileTypeOK
  <2> QED
    BY <1>1, <2>1, WithoutIs
<1>5. /\ Len(content) \in Nat /\ Len(unread) \in Nat /\ Len(unread) > 0 /\ Taken \in Nat
      /\ Taken + Len(unread) = Len(content) /\ Behind = Taken /\ Taken' = Len(content) - Len(unread')
      /\ \A k \in (Taken + 1)..Len(content) : content[k] = unread[k - Taken]
      /\ Missing = 0
  <2>1. Len(unread) > 0
    BY <1>1, FileTypes, EmptySeq DEF FileInv, FileTypeOK
  <2> QED
    BY <1>1, <2>1, FileTypes DEF FileInv, Parts, Behind, Missing, Taken
<1>sizes. /\ Len(content) \in Nat /\ Len(unread) \in Nat /\ Taken \in Nat /\ m \in Nat
          /\ Taken + Len(unread) = Len(content) /\ Taken' = Len(content) - Len(unread')
  BY <1>3, <1>5
<1>6. /\ \A k \in (Taken' + 1)..Len(content) : content[k] = unread'[k - Taken']
      /\ Taken' > 0 /\ Taken' \in Nat
      /\ Taken' = Taken + m + 1 - Missing' /\ Missing' \in {0, 1}
      /\ LineEnd' = Taken + m
      /\ unread' = <<>> \/ content'[Taken'] = Newline
      /\ File!Newlines \cap ((Taken + 1)..Taken') = IF Missing' = 0 THEN {Taken'} ELSE {}
  <2>1. CASE m < Len(unread)
    <3>1. Taken' = Taken + m + 1
      <4>1. Len(unread') = Len(unread) - (m + 1)
        BY <1>4, <1>sizes, <2>1
      <4> QED
        BY <1>sizes, <4>1
    <3>2. content[Taken'] = Newline /\ Missing' = 0 /\ LineEnd' = Taken + m
      <4>1. Taken' \in (Taken + 1)..Len(content) /\ Taken' - Taken = m + 1
        BY <1>sizes, <2>1, <3>1
      <4>2. content[Taken'] = unread[m + 1]
        BY <1>5, <4>1
      <4>3. content'[Taken'] = Newline
        BY <1>1, <1>2, <2>1, <4>2
      <4>4. Taken' - 1 = Taken + m
        BY <1>sizes, <3>1
      <4> QED
        BY <1>1, <4>3, <4>4 DEF Missing, LineEnd
    <3>3. ASSUME NEW k \in (Taken' + 1)..Len(content) PROVE content[k] = unread'[k - Taken']
      <4>1. k \in (Taken + 1)..Len(content)
        BY <1>sizes, <3>1
      <4>2. k - Taken' \in 1..Len(unread') /\ m + 1 + (k - Taken') = k - Taken
        <5>1. k \in Int /\ Taken' \in Int /\ k > Taken' /\ k <= Len(content)
          BY <1>sizes, <3>1
        <5>2. k - Taken' \in 1..(Len(content) - Taken')
          BY <1>sizes, <5>1
        <5>3. Len(content) - Taken' = Len(unread')
          <6>1. Len(unread') \in Nat
            BY <1>4, <1>sizes, <2>1
          <6> QED
            BY <1>sizes, <6>1
        <5>4. m + 1 + (k - Taken') = k - Taken
          BY <1>sizes, <3>1, <5>1
        <5> QED
          BY <5>2, <5>3, <5>4
      <4>3. unread'[k - Taken'] = unread[k - Taken]
        BY <1>4, <4>2
      <4> QED
        BY <1>5, <4>1, <4>3
    <3>4. ASSUME NEW k \in (Taken + 1)..Taken' PROVE k \in File!Newlines <=> k = Taken'
      <4>1. k = Taken' => k \in File!Newlines
        <5>1. Taken' \in 1..Len(content)
          BY <1>sizes, <2>1, <3>1
        <5> QED
          BY <3>2, <5>1 DEF File!Newlines
      <4>2. k # Taken' => content[k] # Newline
        <5>1. k # Taken' => k - Taken \in 1..m /\ k \in (Taken + 1)..Len(content)
          BY <1>sizes, <2>1, <3>1
        <5> QED
          BY <1>2, <1>5, <5>1
      <4> QED
        BY <4>1, <4>2 DEF File!Newlines
    <3>5. File!Newlines \cap ((Taken + 1)..Taken') = {Taken'}
      <4>1. Taken' \in (Taken + 1)..Taken'
        BY <1>sizes, <3>1
      <4> QED
        BY <3>4, <4>1
    <3>6. Taken' > 0 /\ Taken' \in Nat /\ Taken' = Taken + m + 1 - 0
      BY <1>sizes, <3>1
    <3> QED
      BY <1>1, <3>2, <3>3, <3>5, <3>6
  <2>2. CASE m = Len(unread)
    <3>1. Len(unread') = 0 /\ unread' = <<>> /\ Taken' = Taken + m /\ Taken' = Len(content)
      <4>1. Len(unread') = 0
        BY <1>4, <1>sizes, <2>2
      <4>2. unread' = <<>>
        BY <1>4, <4>1, EmptySeq
      <4> QED
        BY <1>sizes, <2>2, <4>1, <4>2
    <3>2. \A k \in (Taken + 1)..Taken' : content[k] # Newline
      <4>1. \A k \in (Taken + 1)..Taken' : k - Taken \in 1..m /\ k \in (Taken + 1)..Len(content)
        BY <1>sizes, <3>1
      <4> QED
        BY <1>2, <1>5, <4>1
    <3>3. Missing' = 1 /\ LineEnd' = Taken + m
      <4>1. content'[Taken'] # Newline /\ Taken' > 0
        BY <1>1, <1>5, <2>2, <3>1, <3>2
      <4> QED
        BY <3>1, <4>1 DEF Missing, LineEnd
    <3>4. Taken' > 0 /\ Taken' \in Nat /\ Taken' = Taken + m + 1 - 1
      <4>1. Len(unread) > 0
        BY <1>5
      <4> QED
        BY <1>sizes, <2>2, <3>1, <4>1
    <3>5. File!Newlines \cap ((Taken + 1)..Taken') = {}
      BY <3>2 DEF File!Newlines
    <3>6. (Taken' + 1)..Len(content) = {}
      BY <1>sizes, <3>1
    <3> QED
      BY <3>1, <3>3, <3>4, <3>5, <3>6
  <2> QED
    BY <1>2, <1>5, <2>1, <2>2
<1>7. Behind' = Behind
  <2>1. Behind = Taken /\ Behind' = LineEnd' - m
    BY <1>1, <1>3, <1>5 DEF Behind
  <2>2. LineEnd' = Taken + m
    BY <1>6
  <2> QED
    BY <1>sizes, <2>1, <2>2
<1>8. FileTypeOK'
  <2>1. Len(unread') <= Len(content)
    <3>1. Taken' \in Nat /\ Len(unread') \in Nat
      BY <1>4, <1>6
    <3> QED
      BY <1>sizes, <3>1
  <2> QED
    BY <1>1, <1>3, <1>4, <2>1 DEF FileInv, FileTypeOK
<1>9. Parts'
  <2>1. ASSUME NEW k \in (Taken + 1)..(Taken + m) PROVE content[k] = l[k - Taken]
    <3>1. k - Taken \in 1..m /\ k \in (Taken + 1)..Len(content)
      BY <1>2, <1>sizes
    <3> QED
      BY <1>2, <1>5, <3>1
  <2>2. Len(line') = m /\ m <= Taken + m
    BY <1>1, <1>3, <1>5
  <2>3. \A k \in (Behind' + 1)..LineEnd' : content'[k] = line'[k - Behind']
    BY <1>1, <1>5, <1>6, <1>7, <2>1
  <2> QED
    BY <1>1, <1>6, <2>2, <2>3 DEF Parts
<1>10. Counted'
  <2>1. lineCount' = Cardinality(File!Newlines \cap (1..Taken')) + Missing'
    <3>1. lineCount = Cardinality(File!Newlines \cap (1..Taken)) + 0
      BY <1>5 DEF FileInv, Counted
    <3>2. File!Newlines \in SUBSET Nat
      BY PlacesAre
    <3>3. Cardinality(File!Newlines \cap (1..Taken)) \in Nat
      <4>1. IsFiniteSet(1..Taken)
        BY <1>5, FS_Interval
      <4> QED
        BY <4>1, FS_Intersection, FS_CardinalityType
    <3>4. CASE Missing' = 0
      <4>1. Taken' \in (Taken + 1)..Taken' /\ Taken <= Taken'
        BY <1>3, <1>5, <1>6, <3>4
      <4>2. Cardinality(File!Newlines \cap (1..Taken')) = Cardinality(File!Newlines \cap (1..Taken)) + 1
        BY <1>5, <1>6, <3>2, <3>4, <4>1, OneMorePlace
      <4> QED
        BY <1>1, <3>1, <3>3, <3>4, <4>2
    <3>5. CASE Missing' = 1
      <4>1. Taken <= Taken'
        BY <1>3, <1>5, <1>6, <3>5
      <4>2. File!Newlines \cap (1..Taken') = File!Newlines \cap (1..Taken)
        BY <1>5, <1>6, <3>2, <3>5, <4>1, NoMorePlaces
      <4>3. lineCount' = lineCount + 1
        BY <1>1
      <4> QED
        BY <3>1, <3>3, <3>5, <4>2, <4>3
    <3> QED
      BY <1>6, <3>4, <3>5
  <2>2. charCount' = Taken' + Missing'
    <3>1. charCount = Taken + 0
      BY <1>5 DEF FileInv, Counted
    <3> QED
      <4>1. charCount' = Taken + m + 1
        BY <1>1, <1>sizes, <3>1
      <4>2. Taken' \in Nat /\ Taken' = Taken + m + 1 - Missing' /\ Missing' \in {0, 1}
        BY <1>6
      <4>3. CASE Missing' = 0
        BY <1>sizes, <4>1, <4>2, <4>3
      <4>4. CASE Missing' = 1
        BY <1>sizes, <4>1, <4>2, <4>4
      <4> QED
        BY <4>2, <4>3, <4>4
  <2> QED
    BY <1>1, <1>7, <2>1, <2>2, SameContent DEF FileInv, Counted
<1>11. Len(unread') < Len(unread)
  BY <1>4, <1>sizes, <1>5
<1> QED
  BY <1>8, <1>9, <1>10, <1>11 DEF FileInv

(* A word is one or more letters.                                             *)
LEMMA WordsAre ==
  ASSUME NEW v
  PROVE  v \in File!Words <=> v \in Seq(Letters) /\ Len(v) \in 1..MaxLength
<1>1. MaxLength \in Nat
  BY PureFunctionsAssumption DEF File!ProcessFileAssumption
<1>2. v \in File!BoundedSeq(Letters, MaxLength) <=> \E l \in 0..MaxLength : v \in [1..l -> Letters]
  BY DEF File!BoundedSeq, File!SeqOf
<1>3. ASSUME NEW l \in 0..MaxLength, v \in [1..l -> Letters]
      PROVE  v \in Seq(Letters) /\ Len(v) = l
  BY <1>1, <1>3
<1>4. ASSUME v \in Seq(Letters), Len(v) \in 1..MaxLength
      PROVE  v \in [1..Len(v) -> Letters] /\ v # <<>>
  BY <1>4
<1>5. v \in Seq(Letters) /\ v # <<>> => Len(v) # 0
  BY EmptySeq
<1> QED
  BY <1>1, <1>2, <1>3, <1>4, <1>5 DEF File!Words

(* Behind d come m others, and then the word w up to e.                        *)
NextIs(d, m, w, e) ==
  /\ w \in Seq(Letters) /\ Len(w) > 0 /\ e = d + m + Len(w) /\ e <= Len(content)
  /\ ~(File!IsLetter(d) /\ File!IsLetter(d + 1))
  /\ \A k \in (d + 1)..(d + m) : ~File!IsLetter(k)
  /\ \A k \in (d + m + 1)..e : content[k] = w[k - (d + m)]
  /\ ~File!IsLetter(e + 1)

(* There it is the only one.                                                   *)
LEMMA OneWord ==
  ASSUME NEW d \in Nat, NEW m \in Nat, NEW w, NEW e,
         content \in Seq(File!Characters), NextIs(d, m, w, e)
  PROVE  /\ File!WordStarts \cap ((d + 1)..e) = {d + m + 1}
         /\ \A v \in File!Words :
              File!Occurrences(v) \cap ((d + 1)..e) = IF v = w THEN {d + m + 1} ELSE {}
<1> DEFINE b == d + m + 1
           q == Len(w)
<1>0. /\ w \in Seq(Letters) /\ q \in Nat \ {0} /\ e = d + m + q /\ e <= Len(content)
      /\ ~(File!IsLetter(d) /\ File!IsLetter(d + 1))
      /\ \A k \in (d + 1)..(d + m) : ~File!IsLetter(k)
      /\ \A k \in b..e : content[k] = w[k - (d + m)]
      /\ ~File!IsLetter(e + 1)
  BY LenProperties DEF NextIs
<1>1. b \in (d + 1)..e /\ b \in Nat /\ e \in Nat /\ b <= e /\ e + 1 = b + q /\ Len(content) \in Nat /\ e <= Len(content)
  BY <1>0, LenProperties
<1>2. \A k \in b..e : File!IsLetter(k)
  <2>1. ASSUME NEW k \in b..e PROVE File!IsLetter(k)
    <3>1. k \in 1..Len(content) /\ k - (d + m) \in 1..Len(w)
      BY <1>0, <1>1
    <3>2. w[k - (d + m)] \in Letters
      BY <1>0, <3>1
    <3> QED
      BY <1>0, <3>1, <3>2 DEF File!IsLetter
  <2> QED
    BY <2>1
<1>3. ~File!IsLetter(b - 1)
  <2>1. CASE m = 0
    <3>1. b - 1 = d /\ b = d + 1
      BY <2>1
    <3> QED
      BY <1>0, <1>1, <1>2, <3>1
  <2>2. CASE m # 0
    <3>1. b - 1 \in (d + 1)..(d + m)
      BY <2>2
    <3> QED
      BY <1>0, <3>1
  <2> QED
    BY <2>1, <2>2
<1>4. ASSUME NEW k \in (d + 1)..e PROVE k \in File!WordStarts <=> k = b
  <2>1. b \in File!WordStarts
    BY <1>1, <1>2, <1>3 DEF File!WordStarts, File!IsLetter
  <2>2. CASE k < b
    <3>1. k \in (d + 1)..(d + m)
      BY <1>1, <2>2
    <3> QED
      BY <1>0, <1>1, <2>2, <3>1 DEF File!WordStarts
  <2>3. CASE k > b
    <3>1. k - 1 \in b..e
      BY <1>1, <2>3
    <3> QED
      BY <1>1, <1>2, <2>3, <3>1 DEF File!WordStarts
  <2> QED
    BY <1>1, <2>1, <2>2, <2>3
<1>5. ASSUME NEW v \in File!Words PROVE b \in File!Occurrences(v) <=> v = w
  <2>1. v \in Seq(Letters) /\ Len(v) \in Nat \ {0}
    BY WordsAre
  <2>2. b \in File!WordStarts
    BY <1>1, <1>4
  <2>3. CASE Len(v) < q
    <3>1. b + Len(v) \in b..e
      BY <1>1, <2>1, <2>3
    <3> QED
      BY <1>2, <2>3, <3>1 DEF File!Occurrences
  <2>4. CASE Len(v) > q
    <3>1. ASSUME b + Len(v) - 1 <= Len(content), SubSeq(content, b, b + Len(v) - 1) = v PROVE FALSE
      <4>1. content \in Seq(File!Characters) /\ b \in Int /\ b + Len(v) - 1 \in Int
            /\ \A k \in b..(b + Len(v) - 1) : content[k] \in File!Characters
        BY <1>1, <2>1, <3>1
      <4>2. v[q + 1] = content[b + (q + 1) - 1]
        <5>1. q + 1 \in 1..(b + Len(v) - 1 - b + 1)
          BY <1>1, <2>1, <2>4
        <5> QED
          BY <3>1, <4>1, <5>1, SubSeqProperties
      <4>3. b + (q + 1) - 1 = e + 1 /\ e + 1 \in 1..Len(content) /\ v[q + 1] \in Letters
        BY <1>1, <2>1, <2>4, <3>1
      <4> QED
        BY <1>0, <4>2, <4>3 DEF File!IsLetter
    <3> QED
      BY <2>4, <3>1 DEF File!Occurrences
  <2>5. CASE Len(v) = q
    <3>1. b + Len(v) - 1 = e /\ b + Len(v) = e + 1
      BY <1>1, <2>5
    <3>2. SubSeq(content, b, e) = w
      <4>1. \A k \in b..e : content[k] \in Letters
        BY <1>2 DEF File!IsLetter
      <4> DEFINE u == SubSeq(content, b, e)
      <4>2. u \in Seq(Letters) /\ Len(u) = q /\ \A k \in 1..(e - b + 1) : u[k] = content[b + k - 1]
        <5>1. b \in Int /\ e \in Int /\ b <= e /\ e - b + 1 = q
          BY <1>0, <1>1
        <5> HIDE DEF b, q
        <5> QED
          BY <4>1, <5>1, SubSeqProperties
      <4> HIDE DEF u
      <4>3. ASSUME NEW k \in 1..q PROVE u[k] = w[k]
        <5> DEFINE j == b + k - 1
        <5>1. j \in b..e /\ j - (d + m) = k /\ k \in 1..(e - b + 1)
          BY <1>0, <1>1
        <5>2. u[k] = content[j]
          BY <4>2, <5>1
        <5> HIDE DEF j
        <5>3. content[j] = w[j - (d + m)]
          BY <1>0, <5>1
        <5> QED
          BY <5>1, <5>2, <5>3
      <4>4. u = w
        BY <1>0, <4>2, <4>3, SeqEqual
      <4> QED
        BY <4>4 DEF u
    <3> QED
      BY <1>0, <1>1, <2>2, <3>1, <3>2 DEF File!Occurrences
  <2> QED
    BY <2>1, <2>3, <2>4, <2>5
<1>6. \A v : File!Occurrences(v) \in SUBSET File!WordStarts
  BY DEF File!Occurrences
<1> HIDE DEF b
<1>7. File!WordStarts \cap ((d + 1)..e) = {b}
  BY <1>1, <1>4
<1>8. ASSUME NEW v \in File!Words
      PROVE  File!Occurrences(v) \cap ((d + 1)..e) = IF v = w THEN {b} ELSE {}
  BY <1>5, <1>6, <1>7
<1> QED
  BY <1>7, <1>8 DEF b

(* Behind the line there is no letter.                                         *)
LEMMA LineIsWhole == ASSUME FileInv, pc = "words" PROVE ~File!IsLetter(LineEnd + 1)
<1>1. Newline \notin Letters
  BY PureFunctionsAssumption DEF File!ProcessFileAssumption
<1>2. Len(content) \in Nat /\ Len(unread) \in Nat /\ Taken \in 0..Len(content)
  BY FileTypes
<1>3. Taken > 0 /\ (unread = <<>> \/ content[Taken] = Newline)
  BY DEF FileInv, Parts
<1>4. CASE content[Taken] = Newline
  <2>1. LineEnd + 1 = Taken
    BY <1>2, <1>4 DEF LineEnd
  <2> QED
    BY <1>1, <1>4, <2>1 DEF File!IsLetter
<1>5. CASE content[Taken] # Newline
  <2>1. LineEnd + 1 = Len(content) + 1
    BY <1>2, <1>3, <1>5, EmptySeq DEF LineEnd, Taken
  <2> QED
    BY <1>2, <2>1 DEF File!IsLetter
<1> QED
  BY <1>4, <1>5

(* When a word is taken, what is behind grows by it and the blanks before it.   *)
LEMMA NextWordStep == ASSUME FileInv, File!NextWord PROVE FileInv' /\ Len(line') < Len(line)
<1> DEFINE o == File!UpTo(line, Letters)
           m == Len(o)
           r == File!Without(line, m)
           w == File!UpTo(r, {Blank})
           q == Len(w)
<1>1. /\ pc = "words" /\ pc' = "words" /\ content' = content /\ unread' = unread
      /\ r # <<>> /\ line' = File!Without(r, q) /\ wordCount' = wordCount + 1
      /\ wordFrequency' = [wordFrequency EXCEPT ![w] = @ + 1]
      /\ UNCHANGED <<lineCount, charCount>>
  BY DEF File!NextWord, File!SkipBlanks
<1>2. line \in Seq(Letters \cup {Blank}) /\ Len(line) \in Nat
  BY LenProperties DEF FileInv, FileTypeOK
<1>3. /\ m \in 0..Len(line)
      /\ \A k \in 1..m : line[k] \notin Letters
      /\ m < Len(line) => line[m + 1] \in Letters
  <2> HIDE DEF o
  <2> QED
    BY <1>2, UpToIs DEF o
<1> HIDE DEF o, m
<1>4. /\ r \in Seq(Letters \cup {Blank}) /\ Len(r) \in Nat
      /\ Len(r) = Len(line) - m
      /\ \A k \in 1..Len(r) : r[k] = line[m + k]
  <2>1. m \in Nat /\ m <= Len(line)
    BY <1>2, <1>3
  <2> HIDE DEF r
  <2> QED
    BY <1>2, <2>1, WithoutIs DEF r
<1> HIDE DEF r
<1>5. Len(r) > 0
  BY <1>1, <1>4, EmptySeq
<1>6. /\ w \in Seq(Letters) /\ q \in Nat /\ q <= Len(r)
      /\ \A k \in 1..q : w[k] = r[k]
      /\ q < Len(r) => r[q + 1] = Blank
  <2> HIDE DEF w
  <2>1. /\ w \in Seq((Letters \cup {Blank}) \ {Blank}) /\ q \in 0..Len(r)
        /\ \A k \in 1..q : w[k] = r[k]
        /\ q < Len(r) => r[q + 1] \in {Blank}
    <3>1. r \in Seq(Letters \cup {Blank}) /\ w = File!UpTo(r, {Blank})
      BY <1>4 DEF w
    <3> DEFINE A == Letters \cup {Blank}
    <3>2. r \in Seq(A)
      BY <3>1
    <3> DEFINE B == {Blank}
    <3>3. w = File!UpTo(r, B)
      BY <3>1
    <3> HIDE DEF A, B
    <3>4. /\ w \in Seq(A \ B) /\ Len(w) \in 0..Len(r)
          /\ \A k \in 1..Len(w) : w[k] = r[k] /\ r[k] \notin B
          /\ Len(w) < Len(r) => r[Len(w) + 1] \in B
      BY <3>2, UpToIs DEF w, B
    <3> QED
      BY <3>4 DEF A, B
  <2>2. \A k \in 1..Len(w) : w[k] \in Letters
    BY <2>1
  <2>3. w \in Seq(Letters)
    BY <2>1, <2>2, SeqOver
  <2> QED
    BY <1>4, <2>1, <2>3
<1> HIDE DEF w, q
<1>7. q > 0
  <2>1. r[1] \in Letters
    BY <1>2, <1>3, <1>4, <1>5
  <2>2. Blank \notin Letters
    BY PureFunctionsAssumption DEF File!ProcessFileAssumption
  <2> QED
    BY <1>5, <1>6, <2>1, <2>2
<1>8. /\ line' \in Seq(Letters \cup {Blank})
      /\ Len(line') = Len(line) - m - q
      /\ \A k \in 1..Len(line') : line'[k] = r[q + k]
  <2>1. r \in Seq(Letters \cup {Blank}) /\ q \in Nat /\ line' = File!Without(r, q)
    BY <1>1, <1>4, <1>6
  <2> DEFINE A == Letters \cup {Blank}
  <2>inA. r \in Seq(A) /\ q \in Nat
    BY <2>1
  <2> HIDE DEF A
  <2>2. /\ line' \in Seq(A)
        /\ Len(line') = IF q <= Len(r) THEN Len(r) - q ELSE 0
        /\ \A k \in 1..Len(line') : line'[k] = r[q + k]
    BY <2>1, <2>inA, WithoutIs
  <2>3. Len(line') = Len(line) - m - q
    BY <1>4, <1>6, <2>2
  <2> QED
    BY <2>2, <2>3 DEF A
<1> DEFINE d == Behind
           e == Behind'
<1>9. /\ Taken \in Nat /\ LineEnd \in Nat /\ Len(content) \in Nat /\ d \in Nat
      /\ Taken <= Len(content) /\ LineEnd <= Taken /\ d + Len(line) = LineEnd
  BY <1>1, FileTypes
<1>10. Taken' = Taken /\ LineEnd' = LineEnd /\ Missing' = Missing
  BY <1>1 DEF Taken, LineEnd, Missing
<1>11. e = d + m + q /\ m \in Nat /\ q \in Nat \ {0} /\ e <= LineEnd
  <2>1. e = LineEnd - Len(line')
    BY <1>1, <1>10 DEF Behind
  <2>2. m \in Nat /\ q \in Nat \ {0} /\ m + q <= Len(line)
    BY <1>2, <1>3, <1>4, <1>6, <1>7
  <2> HIDE DEF d, e
  <2> QED
    <3>1. Len(line') = Len(line) - m - q
      BY <1>8
    <3>2. LineEnd \in Nat /\ d \in Nat /\ d + Len(line) = LineEnd
      BY <1>9
    <3> QED
      BY <1>2, <2>1, <2>2, <3>1, <3>2
<1>12. \A k \in (d + 1)..LineEnd : content[k] = line[k - d]
  BY <1>1 DEF FileInv, Parts
<1>13. ~File!IsLetter(LineEnd + 1) /\ ~(File!IsLetter(d) /\ File!IsLetter(d + 1))
  BY <1>1, LineIsWhole DEF FileInv, Counted
<1> HIDE DEF d, e
<1>14. \A k \in (d + 1)..(d + m) : ~File!IsLetter(k)
  <2>1. ASSUME NEW k \in (d + 1)..(d + m) PROVE ~File!IsLetter(k)
    <3>1. k \in (d + 1)..LineEnd /\ k - d \in 1..m
      BY <1>9, <1>11
    <3> QED
      BY <1>3, <1>12, <3>1 DEF File!IsLetter
  <2> QED
    BY <2>1
<1>15. \A k \in (d + m + 1)..(d + m + q) : content[k] = w[k - (d + m)]
  <2>1. ASSUME NEW k \in (d + m + 1)..(d + m + q) PROVE content[k] = w[k - (d + m)]
    <3> DEFINE j == k - (d + m)
    <3>1. k \in (d + 1)..LineEnd /\ j \in 1..q /\ k - d = m + j
      BY <1>9, <1>11
    <3>2. j \in 1..Len(r)
      BY <1>4, <1>6, <3>1
    <3> HIDE DEF j
    <3>3. content[k] = line[m + j] /\ w[j] = r[j] /\ r[j] = line[m + j]
      BY <1>4, <1>6, <1>12, <3>1, <3>2
    <3> QED
      BY <3>3 DEF j
  <2> QED
    BY <2>1
<1>16. ~File!IsLetter(d + m + q + 1)
  <2>1. CASE q = Len(r)
    <3>1. d + m + q = LineEnd
      BY <1>2, <1>4, <1>9, <1>11, <2>1
    <3> QED
      BY <1>13, <3>1
  <2>2. CASE q < Len(r)
    <3>1. q + 1 \in 1..Len(r) /\ d + m + q + 1 \in (d + 1)..LineEnd /\ (d + m + q + 1) - d = m + (q + 1)
      <4>1. Len(r) = Len(line) - m /\ d + Len(line) = LineEnd /\ d \in Nat /\ m \in Nat /\ q \in Nat
            /\ Len(line) \in Nat /\ LineEnd \in Nat /\ Len(r) \in Nat
        BY <1>2, <1>4, <1>9, <1>11
      <4> HIDE DEF q, r, m, d
      <4>2. q + 1 <= Len(r) /\ m + (q + 1) <= Len(line)
        BY <2>2, <4>1
      <4>3. d + m + q + 1 <= LineEnd /\ d + m + q + 1 \in Int
        BY <4>1, <4>2
      <4> QED
        BY <4>1, <4>2, <4>3
    <3>2. content[d + m + q + 1] = line[m + (q + 1)]
      BY <1>12, <3>1
    <3>3. content[d + m + q + 1] = Blank
      BY <1>4, <1>6, <2>2, <3>1, <3>2
    <3>4. Blank \notin Letters
      BY PureFunctionsAssumption DEF File!ProcessFileAssumption
    <3> QED
      BY <3>3, <3>4 DEF File!IsLetter
  <2> QED
    BY <1>4, <1>6, <2>1, <2>2
<1>17. /\ File!WordStarts \cap ((d + 1)..e) = {d + m + 1}
       /\ \A v \in File!Words :
            File!Occurrences(v) \cap ((d + 1)..e) = IF v = w THEN {d + m + 1} ELSE {}
  <2>1. content \in Seq(File!Characters) /\ d + m + q <= Len(content) /\ Len(w) = q
    BY <1>9, <1>11 DEF q, FileInv, FileTypeOK
  <2> QED
    <3>1. NextIs(d, m, w, e)
      <4>1. w \in Seq(Letters) /\ Len(w) > 0 /\ e = d + m + Len(w) /\ e <= Len(content)
        BY <1>6, <1>11, <2>1
      <4> QED
        BY <1>11, <1>13, <1>14, <1>15, <1>16, <4>1 DEF NextIs
    <3> QED
      BY <1>9, <1>11, <2>1, <3>1, OneWord
<1>18. /\ d \in Nat /\ e \in Nat /\ d <= e /\ d + m + 1 \in (d + 1)..e
       /\ File!WordStarts \in SUBSET Nat /\ \A v : File!Occurrences(v) \in SUBSET Nat
  BY <1>9, <1>11, PlacesAre
<1>19. wordCount' = Cardinality(File!WordStarts \cap (1..e))
  <2>1. Cardinality(File!WordStarts \cap (1..e)) = Cardinality(File!WordStarts \cap (1..d)) + 1
    BY <1>17, <1>18, OneMorePlace
  <2> QED
    BY <1>1, <2>1 DEF FileInv, Counted, d
<1>20. ASSUME NEW v \in File!Words
       PROVE  Cardinality(File!Occurrences(v) \cap (1..e)) =
                Cardinality(File!Occurrences(v) \cap (1..d)) + IF v = w THEN 1 ELSE 0
  <2>1. CASE v = w
    <3>1. File!Occurrences(v) \cap ((d + 1)..e) = {d + m + 1} /\ File!Occurrences(v) \in SUBSET Nat
      BY <1>17, <1>18, <2>1
    <3> QED
      BY <1>18, <2>1, <3>1, OneMorePlace
  <2>2. CASE v # w
    <3>1. File!Occurrences(v) \cap ((d + 1)..e) = {} /\ File!Occurrences(v) \in SUBSET Nat
      BY <1>17, <1>18, <2>2
    <3>2. File!Occurrences(v) \cap (1..e) = File!Occurrences(v) \cap (1..d)
      BY <1>18, <3>1, NoMorePlaces
    <3>3. Cardinality(File!Occurrences(v) \cap (1..d)) \in Nat
      BY DEF FileInv, FileTypeOK, Counted, d
    <3> QED
      BY <2>2, <3>2, <3>3
  <2> QED
    BY <2>1, <2>2
<1>21. w \in File!Words
  <2>1. Len(w) \in 1..MaxLength
    <3>1. MaxLength \in Nat /\ Len(content) <= MaxLength
      BY PureFunctionsAssumption DEF File!ProcessFileAssumption, FileInv, FileTypeOK
    <3> QED
      BY <1>9, <1>11, <3>1 DEF q
  <2> QED
    BY <1>6, <2>1, WordsAre
<1>22. FileTypeOK'
  <2>1. wordCount' \in Nat /\ wordFrequency' \in [File!Words -> Nat]
    BY <1>1, <1>21 DEF FileInv, FileTypeOK
  <2> QED
    BY <1>1, <1>8, <2>1 DEF FileInv, FileTypeOK
<1>23. Parts'
  <2>1. ASSUME NEW k \in (e + 1)..LineEnd PROVE content[k] = line'[k - e]
    <3> DEFINE j == k - e
    <3>1. j \in 1..Len(line') /\ q + j \in 1..Len(r) /\ k \in (d + 1)..LineEnd /\ k - d = m + (q + j)
      <4>1. Len(line') = LineEnd - e /\ Len(r) = q + (LineEnd - e) /\ LineEnd \in Nat
        BY <1>2, <1>4, <1>8, <1>9, <1>11
      <4> QED
        BY <1>9, <1>11, <4>1
    <3> HIDE DEF j
    <3>2. content[k] = line[m + (q + j)] /\ line'[j] = r[q + j] /\ r[q + j] = line[m + (q + j)]
      BY <1>4, <1>8, <1>12, <3>1
    <3> QED
      BY <3>2 DEF j
  <2>2. Taken > 0 /\ (unread = <<>> \/ content[Taken] = Newline)
        /\ \A k \in (Taken + 1)..Len(content) : content[k] = unread[k - Taken]
    BY <1>1 DEF FileInv, Parts
  <2>3. Len(line') <= LineEnd
    BY <1>2, <1>8, <1>9, <1>11
  <2> QED
    BY <1>1, <1>10, <2>1, <2>2, <2>3 DEF Parts, e
<1>24. Counted'
  <2>1. ~(File!IsLetter(e) /\ File!IsLetter(e + 1))
    BY <1>11, <1>16
  <2>2. \A v \in File!Words : wordFrequency'[v] = Cardinality(File!Occurrences(v) \cap (1..e))
    <3>1. ASSUME NEW v \in File!Words
          PROVE  wordFrequency'[v] = Cardinality(File!Occurrences(v) \cap (1..e))
      <4>1. wordFrequency[v] = Cardinality(File!Occurrences(v) \cap (1..d)) /\ wordFrequency[v] \in Nat
        BY DEF FileInv, Counted, FileTypeOK, d
      <4>2. wordFrequency'[v] = wordFrequency[v] + IF v = w THEN 1 ELSE 0
        BY <1>1, <4>1 DEF FileInv, FileTypeOK
      <4> QED
        BY <1>20, <4>1, <4>2
    <3> QED
      BY <3>1
  <2>3. /\ lineCount' = Cardinality(File!Newlines \cap (1..Taken')) + Missing'
        /\ charCount' = Taken' + Missing'
    BY <1>1, <1>10 DEF FileInv, Counted
  <2> QED
    BY <1>1, <1>19, <2>1, <2>2, <2>3, SameContent DEF Counted, e, File!Words
<1>25. Len(line') < Len(line)
  BY <1>2, <1>8, <1>11
<1> QED
  BY <1>22, <1>23, <1>24, <1>25 DEF FileInv

(* What is left of the line when no word is left has no letters.               *)
LEMMA NoMoreWordsStep == ASSUME FileInv, File!NoMoreWords PROVE FileInv'
<1> DEFINE o == File!UpTo(line, Letters)
           m == Len(o)
<1>1. /\ pc = "words" /\ pc' = "getline" /\ File!Without(line, m) = <<>>
      /\ UNCHANGED <<content, unread, line, lineCount, wordCount, charCount, wordFrequency>>
  BY DEF File!NoMoreWords, File!SkipBlanks, File!counters
<1>2. line \in Seq(Letters \cup {Blank}) /\ Len(line) \in Nat
  BY LenProperties DEF FileInv, FileTypeOK
<1>3. m \in 0..Len(line) /\ \A k \in 1..m : line[k] \notin Letters
  <2> HIDE DEF o
  <2> QED
    BY <1>2, UpToIs DEF o
<1> HIDE DEF o, m
<1>4. m = Len(line)
  <2> DEFINE r == File!Without(line, m)
  <2>1. Len(r) = IF m <= Len(line) THEN Len(line) - m ELSE 0
    <3>1. m \in Nat
      BY <1>2, <1>3
    <3> HIDE DEF r
    <3> QED
      BY <1>2, <3>1, WithoutIs DEF r
  <2> QED
    BY <1>1, <1>2, <1>3, <2>1, EmptySeq
<1> DEFINE d == Behind
<1>5. /\ Taken \in Nat /\ Len(content) \in Nat /\ LineEnd \in Nat /\ d \in Nat /\ d <= Taken
      /\ Taken <= Len(content) /\ LineEnd + 1 >= Taken /\ d + Len(line) = LineEnd
  BY <1>1, FileTypes
<1>6. Taken' = Taken /\ Missing' = Missing /\ Behind' = Taken
  BY <1>1 DEF Taken, Missing, Behind
<1>7. \A k \in (d + 1)..LineEnd : content[k] = line[k - d]
  BY <1>1 DEF FileInv, Parts
<1>8. ~File!IsLetter(LineEnd + 1)
  BY <1>1, LineIsWhole
<1> HIDE DEF d
<1>9. ASSUME NEW k \in (d + 1)..Taken PROVE ~File!IsLetter(k)
  <2>1. CASE k <= LineEnd
    <3>1. k \in (d + 1)..LineEnd /\ k - d \in 1..m
      BY <1>2, <1>4, <1>5, <2>1
    <3> QED
      BY <1>3, <1>7, <3>1 DEF File!IsLetter
  <2>2. CASE k > LineEnd
    <3>1. k = LineEnd + 1
      BY <1>5, <2>2
    <3> QED
      BY <1>8, <3>1
  <2> QED
    BY <1>5, <2>1, <2>2
<1>10. /\ File!WordStarts \cap (1..Taken) = File!WordStarts \cap (1..d)
       /\ \A v : File!Occurrences(v) \cap (1..Taken) = File!Occurrences(v) \cap (1..d)
  <2>1. ASSUME NEW S \in SUBSET File!WordStarts PROVE S \cap (1..Taken) = S \cap (1..d)
    <3>1. S \in SUBSET Nat
      BY PlacesAre
    <3>2. S \cap ((d + 1)..Taken) = {}
      BY <1>9 DEF File!WordStarts
    <3> QED
      BY <1>5, <3>1, <3>2, NoMorePlaces
  <2> QED
    BY <2>1, PlacesAre
<1>11. ~(File!IsLetter(Taken) /\ File!IsLetter(Taken + 1))
  <2>1. Newline \notin Letters
    BY PureFunctionsAssumption DEF File!ProcessFileAssumption
  <2>2. unread = <<>> => Taken + 1 > Len(content)
    BY <1>5, EmptySeq DEF Taken
  <2>3. unread = <<>> \/ content[Taken] = Newline
    BY <1>1 DEF FileInv, Parts
  <2> QED
    BY <1>5, <2>1, <2>2, <2>3 DEF File!IsLetter
<1>12. FileTypeOK'
  BY <1>1 DEF FileInv, FileTypeOK
<1>13. Parts'
  BY <1>1, <1>6 DEF FileInv, Parts
<1>14. Counted'
  <2>1. /\ lineCount = Cardinality(File!Newlines \cap (1..Taken)) + Missing
        /\ charCount = Taken + Missing
        /\ wordCount = Cardinality(File!WordStarts \cap (1..d))
        /\ \A word \in File!Words :
             wordFrequency[word] = Cardinality(File!Occurrences(word) \cap (1..d))
    BY DEF FileInv, Counted, d
  <2> QED
    BY <1>1, <1>6, <1>10, <1>11, <2>1, SameContent DEF Counted
<1> QED
  BY <1>12, <1>13, <1>14 DEF FileInv

(* Nothing changes while fibonacci is called, or in a stuttering step.        *)
LEMMA FileUnchanged ==
  ASSUME FileInv, pc' \in {pc, "returned"}, pc = "words" => pc' = pc, pc' = "returned" => unread = <<>>,
         UNCHANGED <<content, unread, line, lineCount, wordCount, charCount, wordFrequency>>
  PROVE  FileInv'
<1>1. Taken' = Taken /\ LineEnd' = LineEnd /\ Missing' = Missing
  BY DEF Taken, LineEnd, Missing
<1>2. Behind' = Behind /\ (pc' = "words" <=> pc = "words")
  BY <1>1 DEF Behind
<1>3. FileTypeOK'
  BY DEF FileInv, FileTypeOK
<1>4. Parts'
  BY <1>1, <1>2 DEF FileInv, Parts
<1>5. Counted'
  BY <1>1, <1>2, SameContent DEF FileInv, Counted
<1> QED
  BY <1>3, <1>4, <1>5 DEF FileInv

(* getline and operator>> take the file apart without losing a character or    *)
(* cutting a word, and each is counted when it is taken.                       *)
LEMMA FileStep == FileInv /\ [FunctionsNext]_functionsVars => FileInv'
<1> SUFFICES ASSUME FileInv, [FunctionsNext]_functionsVars PROVE FileInv'
  OBVIOUS
<1>1. CASE File!GetLine
  BY <1>1, GetLineStep
<1>2. CASE File!EndOfFile
  <2>1. /\ pc = "getline" /\ pc' = "returned" /\ unread = <<>>
        /\ UNCHANGED <<content, unread, line, lineCount, wordCount, charCount, wordFrequency>>
    BY <1>2 DEF File!EndOfFile, File!MoreLines, File!counters
  <2> QED
    BY <2>1, FileUnchanged
<1>3. CASE File!NextWord
  BY <1>3, NextWordStep
<1>4. CASE File!NoMoreWords
  BY <1>4, NoMoreWordsStep
<1>5. CASE UNCHANGED fileVars
  <2>1. pc' = "returned" => unread = <<>>
    BY <1>5 DEF fileVars, FileInv, Parts
  <2> QED
    BY <1>5, <2>1, FileUnchanged DEF fileVars
<1> QED
  BY <1>1, <1>2, <1>3, <1>4, <1>5
     DEF FunctionsNext, functionsVars, fileVars, File!Next, File!Returned, File!vars, File!counters

(* Before the first line nothing is behind, and nothing has been counted.     *)
LEMMA FileInitInv == FunctionsInit => FileInv
<1> SUFFICES ASSUME FunctionsInit PROVE FileInv
  OBVIOUS
<1>1. /\ content \in File!Contents /\ unread = content /\ line = <<>> /\ pc = "getline"
      /\ lineCount = 0 /\ wordCount = 0 /\ charCount = 0
      /\ wordFrequency = [w \in File!Words |-> 0]
  BY DEF FunctionsInit, File!Init
<1>2. MaxLength \in Nat
  BY PureFunctionsAssumption DEF File!ProcessFileAssumption
<1>3. content \in Seq(File!Characters) /\ Len(content) \in Nat /\ Len(content) <= MaxLength
  <2>1. PICK l \in 0..MaxLength : content \in [1..l -> File!Characters]
    BY <1>1 DEF File!Contents, File!BoundedSeq, File!SeqOf
  <2> QED
    BY <1>2, <2>1
<1>4. Taken = 0 /\ Behind = 0 /\ Missing = 0
  BY <1>1, <1>3 DEF Taken, Behind, Missing
<1>5. FileTypeOK
  BY <1>1, <1>3, EmptySeq DEF FileTypeOK
<1>6. Parts
  BY <1>1, <1>3, <1>4 DEF Parts
<1>7. Counted
  <2>1. ~File!IsLetter(0)
    BY <1>3 DEF File!IsLetter
  <2>2. \A S : Cardinality(S \cap (1..0)) = 0
    BY FS_EmptySet
  <2> QED
    BY <1>1, <1>4, <2>1, <2>2 DEF Counted
<1> QED
  BY <1>5, <1>6, <1>7 DEF FileInv

(* When processFile returns, everything is behind.                              *)
LEMMA CountedAtReturn == FileInv => CountsAreRight
<1> SUFFICES ASSUME FileInv, pc = "returned" PROVE CountsAreRight
  BY DEF CountsAreRight, File!CountsAreRight
<1>1. Taken = Len(content) /\ Behind = Len(content) /\ Len(content) \in Nat
  BY FileTypes, EmptySeq DEF FileInv, Parts, Taken, Behind
<1>2. Missing = IF File!Unterminated THEN 1 ELSE 0
  <2>1. content # <<>> <=> Len(content) > 0
    BY <1>1, EmptySeq DEF FileInv, FileTypeOK
  <2> QED
    BY <1>1, <2>1 DEF Missing, File!Unterminated
<1>3. ASSUME NEW S \in SUBSET (1..Len(content)) PROVE S \cap (1..Len(content)) = S
  OBVIOUS
<1>4. /\ File!Newlines \cap (1..Taken) = File!Newlines
      /\ File!WordStarts \cap (1..Behind) = File!WordStarts
      /\ \A word : File!Occurrences(word) \cap (1..Behind) = File!Occurrences(word)
  BY <1>1, <1>3, PlacesAre
<1>5. \A S : File!Cardinality(S) = Cardinality(S)
  BY DEF File!Cardinality, Cardinality
<1> QED
  BY <1>1, <1>2, <1>4, <1>5 DEF FileInv, Counted, CountsAreRight, File!CountsAreRight

(* processFile counts the lines, characters and words of any file, and each    *)
(* word as often as it occurs.                                                 *)
THEOREM CountsRight == FunctionsSafetySpec => []CountsAreRight
BY FileInitInv, FileStep, CountedAtReturn, PTL DEF FunctionsSafetySpec

(* What is left to processFile: of the file, of the loops, and of the line.    *)
FileToDo ==
  <<Len(unread), IF pc = "words" THEN 2 ELSE IF pc = "getline" THEN 1 ELSE 0, Len(line)>>

(* Every step leaves less of it.                                               *)
LEMMA FileToDoStep ==
  ASSUME FileInv, [FunctionsNext]_functionsVars
  PROVE  [Below(FileToDo', FileToDo)]_fileVars
<1> SUFFICES ASSUME ~UNCHANGED fileVars PROVE Below(FileToDo', FileToDo)
  OBVIOUS
<1>1. /\ DOMAIN FileToDo = 1..3
      /\ FileToDo[1] = Len(unread) /\ FileToDo'[1] = Len(unread')
      /\ FileToDo[2] = (IF pc = "words" THEN 2 ELSE IF pc = "getline" THEN 1 ELSE 0)
      /\ FileToDo'[2] = (IF pc' = "words" THEN 2 ELSE IF pc' = "getline" THEN 1 ELSE 0)
      /\ FileToDo[3] = Len(line) /\ FileToDo'[3] = Len(line')
  BY DEF FileToDo
<1>2. ASSUME NEW k \in 1..3, FileToDo'[k] < FileToDo[k], \A j \in 1..(k - 1) : FileToDo'[j] = FileToDo[j]
      PROVE  Below(FileToDo', FileToDo)
  BY <1>1, <1>2 DEF Below
<1> HIDE DEF FileToDo
<1>3. CASE File!GetLine
  BY <1>1, <1>2, <1>3, GetLineStep
<1>4. CASE File!EndOfFile
  BY <1>1, <1>2, <1>4 DEF File!EndOfFile
<1>5. CASE File!NextWord
  <2>1. unread' = unread /\ pc' = pc /\ Len(line') < Len(line)
    BY <1>5, NextWordStep DEF File!NextWord
  <2> QED
    BY <1>1, <1>2, <2>1
<1>6. CASE File!NoMoreWords
  BY <1>1, <1>2, <1>6 DEF File!NoMoreWords
<1> QED
  BY <1>3, <1>4, <1>5, <1>6
     DEF FunctionsNext, functionsVars, fileVars, File!Next, File!Returned, File!vars, File!counters

(* The loops of processFile (file_processor.cpp:37-47) do not go round for     *)
(* ever, on a file of any length: what is left descends (NoEndlessDescent).    *)
THEOREM FileLoopsEnd ==
  FunctionsSafetySpec => [](FileToDo \in [1..3 -> Nat]) /\ [][Below(FileToDo', FileToDo)]_fileVars
<1>1. FileInv => FileToDo \in [1..3 -> Nat]
  BY FileTypes DEF FileToDo
<1> QED
  BY <1>1, FileInitInv, FileStep, FileToDoStep, PTL DEF FunctionsSafetySpec

-------------------------------------------------------------------------------
(***************************************************************************)
(* What the tasks compute: fibonacci.                                      *)
(***************************************************************************)

FibInv ==
  /\ fibN \in (-MaxInt - 1)..MaxInt
  /\ fpc \in {"off", "call", "loop", "returned"}
  /\ fpc \in {"off", "call"} => fibA = 0 /\ fibB = 1 /\ fibI = 2
  /\ fpc = "loop" /\ fibN < MaxInt =>
       /\ fibN > 1 /\ fibI \in 2..(fibN + 1)
       /\ fibA = Fibo!Number[fibI - 2] % Modulus
       /\ fibB = Fibo!Number[fibI - 1] % Modulus
       /\ fibI > 2 => fibC = fibB
  /\ FibIsRight

-------------------------------------------------------------------------------
(* The numbers of Fibonacci.                                                   *)

(* g is the beginning of the numbers, up to the k-th.                          *)
Begins(k, g) ==
  /\ g \in [0..k -> Nat]
  /\ \A j \in 0..k : g[j] = IF j < 2 THEN j ELSE g[j - 2] + g[j - 1]

(* Two beginnings agree.                                                       *)
LEMMA BeginningsAgree ==
  ASSUME NEW k \in Nat, NEW l \in Nat, NEW g, NEW h, Begins(k, g), Begins(l, h), k <= l
  PROVE  \A j \in 0..k : g[j] = h[j]
<1> DEFINE Z == {j \in 0..k : g[j] # h[j]}
<1> SUFFICES ASSUME Z # {} PROVE FALSE
  OBVIOUS
<1>1. PICK j \in Z : \A y \in Z : j <= y
  <2>1. Z \in SUBSET Nat
    OBVIOUS
  <2> HIDE DEF Z
  <2> QED
    BY <2>1, LeastOf
<1>2. j \in 0..k /\ j \in 0..l /\ g[j] # h[j]
  OBVIOUS
<1>3. j >= 2 => g[j - 2] = h[j - 2] /\ g[j - 1] = h[j - 1]
  BY <1>1, <1>2
<1> QED
  BY <1>2, <1>3 DEF Begins

(* There are beginnings of any length.                                         *)
LEMMA BeginningsExist == \A k \in Nat : \E g : Begins(k, g)
<1> DEFINE T == {k \in Nat : \E g : Begins(k, g)}
<1>1. 0 \in T
  <2>1. Begins(0, [j \in 0..0 |-> 0])
    BY DEF Begins
  <2> QED
    BY <2>1
<1>2. ASSUME NEW k \in T PROVE k + 1 \in T
  <2>1. PICK g : Begins(k, g)
    OBVIOUS
  <2> DEFINE v == IF k + 1 < 2 THEN k + 1 ELSE g[k - 1] + g[k]
             h == [j \in 0..(k + 1) |-> IF j = k + 1 THEN v ELSE g[j]]
  <2>2. k \in Nat /\ v \in Nat
    BY <2>1 DEF Begins
  <2>3. h \in [0..(k + 1) -> Nat] /\ h[k + 1] = v /\ \A j \in 0..k : h[j] = g[j]
    BY <2>1, <2>2 DEF Begins
  <2> HIDE DEF h
  <2>4. ASSUME NEW j \in 0..(k + 1)
        PROVE  h[j] = IF j < 2 THEN j ELSE h[j - 2] + h[j - 1]
    <3>1. CASE j = k + 1
      BY <2>2, <2>3, <3>1
    <3>2. CASE j # k + 1
      <4>1. j \in 0..k /\ (j >= 2 => j - 1 \in 0..k /\ j - 2 \in 0..k)
        BY <2>2, <3>2
      <4>2. g[j] = IF j < 2 THEN j ELSE g[j - 2] + g[j - 1]
        BY <2>1, <4>1 DEF Begins
      <4> QED
        BY <2>3, <4>1, <4>2
    <3> QED
      BY <3>1, <3>2
  <2>5. Begins(k + 1, h)
    BY <2>3, <2>4 DEF Begins
  <2> QED
    BY <2>2, <2>5
<1>3. T = Nat
  <2>1. T \in SUBSET Nat
    OBVIOUS
  <2> HIDE DEF T
  <2> QED
    BY <1>1, <1>2, <2>1, NatInductionOf
<1> QED
  BY <1>3

(* Each number from the second on is the sum of the two before it.             *)
LEMMA NumberIs ==
  ASSUME NEW k \in Nat
  PROVE  /\ Fibo!Number[k] \in Nat
         /\ Fibo!Number[k] = IF k < 2 THEN k ELSE Fibo!Number[k - 2] + Fibo!Number[k - 1]
<1> DEFINE Up(l) == CHOOSE g : Begins(l, g)
           f == [l \in Nat |-> Up(l)[l]]
<1>1. \A l \in Nat : Begins(l, Up(l))
  BY BeginningsExist
<1> HIDE DEF Up
<1>2. ASSUME NEW l \in Nat, NEW j \in 0..l PROVE Up(l)[j] = f[j]
  <2>1. Begins(j, Up(j)) /\ Begins(l, Up(l))
    BY <1>1
  <2>2. Up(j)[j] = Up(l)[j]
    BY <2>1, BeginningsAgree
  <2> QED
    BY <2>2
<1>3. ASSUME NEW l \in Nat
      PROVE  f[l] \in Nat /\ f[l] = IF l < 2 THEN l ELSE f[l - 2] + f[l - 1]
  <2> DEFINE u == Up(l)
  <2>1. u \in [0..l -> Nat] /\ u[l] = IF l < 2 THEN l ELSE u[l - 2] + u[l - 1]
    BY <1>1 DEF Begins
  <2>2. \A j \in 0..l : u[j] = f[j]
    BY <1>2
  <2> HIDE DEF u, f
  <2>3. l \in 0..l /\ (l >= 2 => l - 2 \in 0..l /\ l - 1 \in 0..l)
    OBVIOUS
  <2> QED
    BY <2>1, <2>2, <2>3
<1>4. f = [l \in Nat |-> IF l < 2 THEN l ELSE f[l - 2] + f[l - 1]]
  <2>1. f = [l \in Nat |-> f[l]]
    OBVIOUS
  <2> HIDE DEF f
  <2> QED
    BY <1>3, <2>1
<1> HIDE DEF f
<1> DEFINE N == Fibo!Number
<1>5. N = [l \in Nat |-> IF l < 2 THEN l ELSE N[l - 2] + N[l - 1]]
  BY <1>4 DEF Fibo!Number
<1> HIDE DEF N
<1>6. \A l \in Nat : N[l] = IF l < 2 THEN l ELSE N[l - 2] + N[l - 1]
  BY <1>5
<1>7. ASSUME NEW l \in Nat PROVE N[l] \in Nat
  <2> DEFINE Z == {j \in Nat : N[j] \notin Nat}
  <2> SUFFICES ASSUME Z # {} PROVE FALSE
    OBVIOUS
  <2>1. PICK j \in Z : \A y \in Z : j <= y
    <3>1. Z \in SUBSET Nat
      OBVIOUS
    <3> HIDE DEF Z
    <3> QED
      BY <3>1, LeastOf
  <2>2. j >= 2 => j - 2 \notin Z /\ j - 1 \notin Z
    BY <2>1
  <2> QED
    BY <1>6, <2>2
<1> QED
  BY <1>6, <1>7 DEF N

-------------------------------------------------------------------------------
(* Steps of fibonacci.                                                         *)

(* The call returns at once for 0 and 1, and for more the loop starts at 2.   *)
LEMMA FibCallStep == ASSUME FibInv, Fibo!Call PROVE FibInv'
<1>1. Modulus \in Nat \ {0, 1} /\ MaxInt \in Nat
  BY PureFunctionsAssumption DEF Fibo!FibonacciAssumption
<1>2. 0 % Modulus = 0 /\ 1 % Modulus = 1
  BY <1>1, RestIs
<1>3. Fibo!Number[0] = 0 /\ Fibo!Number[1] = 1
  BY NumberIs
<1>4. CASE fibN <= 0 /\ Fibo!Returns(0)
  <2>1. (IF fibN < 0 THEN 0 ELSE Fibo!Number[fibN]) % Modulus = 0
    BY <1>2, <1>3, <1>4 DEF FibInv
  <2>2. FibIsRight'
    BY <1>4, <2>1 DEF FibIsRight, Fibo!FibIsRight, Fibo!Call, Fibo!Returns
  <2> QED
    BY <1>4, <2>2 DEF FibInv, Fibo!Call, Fibo!Returns
<1>5. CASE fibN = 1 /\ Fibo!Returns(1)
  <2>1. FibIsRight'
    BY <1>2, <1>3, <1>5 DEF FibIsRight, Fibo!FibIsRight, Fibo!Call, Fibo!Returns
  <2> QED
    BY <1>5, <2>1 DEF FibInv, Fibo!Call, Fibo!Returns
<1>6. CASE fibN > 1 /\ fpc' = "loop" /\ UNCHANGED fibC
  <2>1. FibIsRight'
    BY <1>6 DEF FibIsRight, Fibo!FibIsRight
  <2> QED
    BY <1>2, <1>3, <1>6, <2>1 DEF FibInv, Fibo!Call
<1> QED
  BY <1>4, <1>5, <1>6 DEF Fibo!Call

(* A round computes the i-th number and moves on.                             *)
LEMMA FibRoundStep == ASSUME FibInv, Fibo!Round PROVE FibInv'
<1>1. Modulus \in Nat \ {0, 1} /\ MaxInt \in Nat
  BY PureFunctionsAssumption DEF Fibo!FibonacciAssumption
<1>2. FibIsRight' /\ fpc = "loop" /\ fpc' = "loop" /\ fibN' = fibN /\ fibI <= fibN
  BY DEF FibIsRight, Fibo!FibIsRight, Fibo!Round, Fibo!MoreRounds
<1>3. ASSUME fibN < MaxInt
      PROVE  /\ fibN > 1 /\ fibI' \in 3..(fibN + 1)
             /\ fibA' = Fibo!Number[fibI' - 2] % Modulus
             /\ fibB' = Fibo!Number[fibI' - 1] % Modulus
             /\ fibC' = fibB'
  <2> DEFINE x == Fibo!Number[fibI - 2]
             y == Fibo!Number[fibI - 1]
  <2>1. /\ fibN > 1 /\ fibI \in 2..fibN /\ fibI' = fibI + 1
        /\ fibA = x % Modulus /\ fibB = y % Modulus
    BY <1>1, <1>2, <1>3 DEF FibInv, Fibo!Round
  <2>2. x \in Nat /\ y \in Nat /\ Fibo!Number[fibI] = x + y
    <3>1. fibI \in Nat /\ fibI - 1 \in Nat /\ fibI - 2 \in Nat /\ ~(fibI < 2)
      BY <2>1
    <3> QED
      BY <3>1, NumberIs
  <2> HIDE DEF x, y
  <2>3. fibC' = (fibA + fibB) % Modulus /\ fibA' = fibB /\ fibB' = fibC'
    BY DEF Fibo!Round
  <2>4. ((x % Modulus) + (y % Modulus)) % Modulus = (x + y) % Modulus
    <3>1. x \in Int /\ y \in Int /\ Modulus \in Nat \ {0}
      BY <1>1, <2>2
    <3> QED
      BY <3>1, ModPlus, Zenon
  <2>5. fibC' = Fibo!Number[fibI] % Modulus
    BY <2>1, <2>2, <2>3, <2>4
  <2>6. fibI' - 2 = fibI - 1 /\ fibI' - 1 = fibI /\ fibI' \in 3..(fibN + 1)
    BY <1>1, <1>2, <1>3, <2>1 DEF FibInv
  <2> QED
    BY <2>1, <2>3, <2>5, <2>6 DEF y
<1> QED
  BY <1>2, <1>3 DEF FibInv

(* The loop ends behind n, and c is the number of its last round.             *)
LEMMA FibEndOfLoopStep == ASSUME FibInv, Fibo!EndOfLoop PROVE FibInv'
<1>1. /\ fpc = "loop" /\ fpc' = "returned" /\ ~(fibI <= fibN) /\ fibC' = fibC
      /\ UNCHANGED <<fibN, fibA, fibB, fibI>>
  BY DEF Fibo!EndOfLoop, Fibo!MoreRounds, Fibo!Returns
<1>2. ASSUME fibN < MaxInt PROVE fibN > 1 /\ fibC = Fibo!Number[fibN] % Modulus
  <2>1. fibN > 1 /\ fibI = fibN + 1
    BY <1>1, <1>2, PureFunctionsAssumption DEF FibInv, Fibo!FibonacciAssumption
  <2>2. fibI > 2 /\ fibI - 1 = fibN
    BY <2>1, PureFunctionsAssumption DEF FibInv, Fibo!FibonacciAssumption
  <2> QED
    BY <1>1, <1>2, <2>1, <2>2 DEF FibInv
<1>3. FibIsRight'
  <2>1. ASSUME fibN < MaxInt
        PROVE  fibC' = (IF fibN < 0 THEN 0 ELSE Fibo!Number[fibN]) % Modulus
    <3>1. ~(fibN < 0)
      BY <1>2, <2>1, PureFunctionsAssumption DEF FibInv, Fibo!FibonacciAssumption
    <3> QED
      BY <1>1, <1>2, <2>1, <3>1
  <2> QED
    BY <1>1, <2>1 DEF FibIsRight, Fibo!FibIsRight
<1> QED
  BY <1>1, <1>3 DEF FibInv

(* The loop is inductive: when it is to be run for i, a and b are the two      *)
(* numbers before the i-th.                                                    *)
LEMMA FibStep == FibInv /\ [FunctionsNext]_functionsVars => FibInv'
<1> SUFFICES ASSUME FibInv, [FunctionsNext]_functionsVars PROVE FibInv'
  OBVIOUS
<1>1. CASE Fibo!Call
  BY <1>1, FibCallStep
<1>2. CASE Fibo!Round
  BY <1>2, FibRoundStep
<1>3. CASE Fibo!EndOfLoop
  BY <1>3, FibEndOfLoopStep
<1>4. CASE UNCHANGED fibVars
  BY <1>4 DEF FibInv, FibIsRight, Fibo!FibIsRight, fibVars
<1> QED
  BY <1>1, <1>2, <1>3, <1>4
     DEF FunctionsNext, functionsVars, fibVars, Fibo!Next, Fibo!FibStep, Fibo!FibReturned, Fibo!fibVars

(* fibonacci has returned nothing yet.                                        *)
LEMMA FibInitInv == FunctionsInit => FibInv
<1>1. Modulus \in Nat \ {0, 1} /\ MaxInt \in Nat
  BY PureFunctionsAssumption DEF Fibo!FibonacciAssumption
<1> QED
  BY <1>1 DEF FunctionsInit, Fibo!Init, Fibo!FibInit, FibInv, FibIsRight, Fibo!FibIsRight, Fibo!MinInt

(* fibonacci returns the n-th number of Fibonacci modulo Modulus, for any n    *)
(* below the largest and any width of its numbers: reducing the sum in every   *)
(* round is as good as reducing the number at the end.                         *)
THEOREM FibonacciRight == FunctionsSafetySpec => []FibIsRight
<1>1. FibInv => FibIsRight
  BY DEF FibInv
<1> QED
  BY <1>1, FibInitInv, FibStep, PTL DEF FunctionsSafetySpec

(* What is left to fibonacci: of its steps, and of the rounds.                 *)
FibToDo ==
  <<IF fpc = "call" THEN 2 ELSE IF fpc = "loop" THEN 1 ELSE 0,
    IF fpc = "loop" THEN fibN + 1 - fibI ELSE 0>>

(* Every step leaves less of it.                                               *)
LEMMA FibToDoStep ==
  ASSUME FibInv, [FunctionsNext]_functionsVars
  PROVE  [fibN < MaxInt => Below(FibToDo', FibToDo)]_fibVars
<1> SUFFICES ASSUME fibN < MaxInt, ~UNCHANGED fibVars PROVE Below(FibToDo', FibToDo)
  OBVIOUS
<1>1. /\ DOMAIN FibToDo = 1..2
      /\ FibToDo[1] = (IF fpc = "call" THEN 2 ELSE IF fpc = "loop" THEN 1 ELSE 0)
      /\ FibToDo'[1] = (IF fpc' = "call" THEN 2 ELSE IF fpc' = "loop" THEN 1 ELSE 0)
      /\ FibToDo[2] = (IF fpc = "loop" THEN fibN + 1 - fibI ELSE 0)
      /\ FibToDo'[2] = (IF fpc' = "loop" THEN fibN' + 1 - fibI' ELSE 0)
  BY DEF FibToDo
<1>2. ASSUME NEW k \in 1..2, FibToDo'[k] < FibToDo[k], \A j \in 1..(k - 1) : FibToDo'[j] = FibToDo[j]
      PROVE  Below(FibToDo', FibToDo)
  BY <1>1, <1>2 DEF Below
<1> HIDE DEF FibToDo
<1>3. CASE Fibo!Call
  BY <1>1, <1>2, <1>3 DEF Fibo!Call, Fibo!Returns
<1>4. CASE Fibo!Round
  <2>1. fpc = "loop" /\ fpc' = "loop" /\ fibN' = fibN /\ fibI <= fibN
    BY <1>4 DEF Fibo!Round, Fibo!MoreRounds
  <2>2. MaxInt \in Nat /\ fibN \in Nat /\ fibI \in Nat /\ fibI < MaxInt
    BY <2>1, PureFunctionsAssumption DEF FibInv, Fibo!FibonacciAssumption
  <2>3. fibI' = fibI + 1
    BY <1>4, <2>2 DEF Fibo!Round
  <2>4. FibToDo'[2] < FibToDo[2] /\ FibToDo'[1] = FibToDo[1]
    BY <1>1, <2>1, <2>2, <2>3
  <2> QED
    BY <1>2, <2>4
<1>5. CASE Fibo!EndOfLoop
  BY <1>1, <1>2, <1>5 DEF Fibo!EndOfLoop, Fibo!Returns
<1> QED
  BY <1>3, <1>4, <1>5
     DEF FunctionsNext, functionsVars, fibVars, Fibo!Next, Fibo!FibStep, Fibo!FibReturned, Fibo!fibVars

(* The loop of fibonacci does not go round for ever, but for the largest int,  *)
(* which its counter cannot exceed (idea1.cpp:44-50).                          *)
THEOREM FibLoopEnds ==
  FunctionsSafetySpec =>
    /\ [](fibN < MaxInt => FibToDo \in [1..2 -> Nat])
    /\ [][fibN < MaxInt => Below(FibToDo', FibToDo)]_fibVars
<1>1. FibInv => (fibN < MaxInt => FibToDo \in [1..2 -> Nat])
  BY PureFunctionsAssumption DEF FibInv, FibToDo, Fibo!FibonacciAssumption
<1> QED
  BY <1>1, FibInitInv, FibStep, FibToDoStep, PTL DEF FunctionsSafetySpec

================================================================================
