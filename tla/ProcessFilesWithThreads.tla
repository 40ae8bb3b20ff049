----------------------- MODULE ProcessFilesWithThreads -----------------------
(***************************************************************************)
(* FileProcessor::processFilesWithThreads (mynewcode/file_processor.cpp):  *)
(* the calling thread owns a ThreadPool for the length of the call; it     *)
(* enqueues one task per file, waits for the futures in the order of the   *)
(* files, appends each result to results, and destroys the pool on return. *)
(*                                                                         *)
(* The tasks of the pool are the files of FileList. What processFile finds *)
(* is abstracted to "counted" or, when the file cannot be opened, "empty"; *)
(* a file listed by setDirectory may disappear before its task runs.       *)
(***************************************************************************)
EXTENDS ThreadPool

CONSTANT FileList   (* fileList: the files of the directory, as readdir gave them *)

NumFiles == Len(FileList)

ASSUME FileListAssumption ==
  /\ FileList \in Seq(Tasks)
  /\ \A i, j \in 1..NumFiles : FileList[i] = FileList[j] => i = j

VARIABLES
  onDisk,    (* the files that can still be opened                          *)
  future,    (* what each future will yield; "pending" until its task ran   *)
  results

callVars == <<onDisk, future, results>>
vars     == <<poolVars, callVars>>

Stats == {"counted", "empty"}

Init ==
  /\ PoolInit
  /\ onDisk = Tasks
  /\ future = [f \in Tasks |-> "pending"]
  /\ results = <<>>

(* The directory changes under the program. *)
RemoveFile(f) ==
  /\ f \in onDisk
  /\ onDisk' = onDisk \ {f}
  /\ UNCHANGED <<poolVars, future, results>>

processFile(f) == IF f \in onDisk THEN "counted" ELSE "empty"

(* task() of the worker: processFile, then the packaged_task sets its future.*)
RunTask(w) ==
  /\ WorkerRuns(w)
  /\ future' = [future EXCEPT ![job[w]] = processFile(job[w])]
  /\ UNCHANGED <<onDisk, results>>

WorkerElsewhere(w) ==
  /\ \/ WorkerLock(w) \/ WorkerBlocks(w) \/ WorkerSleeps(w)
     \/ WorkerReturns(w) \/ WorkerTakes(w)
  /\ UNCHANGED callVars

SpuriouslyWoken(w) == SpuriousWakeup(w) /\ UNCHANGED callVars

-------------------------------------------------------------------------------
(* The calling thread. The next file to enqueue follows those submitted.      *)

EnqueuedAll == \A i \in 1..NumFiles : FileList[i] \in submitted

(* for (const auto& file : fileList) pool.enqueue(...)                        *)
EnqueueNext ==
  /\ \E i \in 1..NumFiles :
       /\ \A j \in 1..(i - 1) : FileList[j] \in submitted
       /\ EnqueueCalled(FileList[i])
  /\ UNCHANGED callVars

(* Mutated form: whichever future is ready first is merged first. *)
MergeAnyReady ==
  /\ opc = "idle" /\ EnqueuedAll
  /\ Len(results) < NumFiles
  /\ \E f \in ready :
       /\ \A k \in 1..Len(results) : results[k].file # f
       /\ results' = Append(results, [file |-> f, stats |-> future[f]])
  /\ UNCHANGED <<poolVars, onDisk, future>>

(* for (auto& future : futures): get() blocks until that future is ready,     *)
(* mergeResults appends (resultsMutex is only ever taken by this thread).     *)
MergeNext ==
  /\ opc = "idle" /\ EnqueuedAll
  /\ Len(results) < NumFiles
  /\ LET f == FileList[Len(results) + 1] IN
       /\ f \in ready
       /\ results' = Append(results, [file |-> f, stats |-> future[f]])
  /\ UNCHANGED <<poolVars, onDisk, future>>

(* Mutated form: the pool is destroyed before the futures are read. *)
LeaveScopeEarly ==
  /\ EnqueuedAll
  /\ DtorCalled
  /\ UNCHANGED callVars

(* The end of the scope: futures and then pool are destroyed. *)
LeaveScope ==
  /\ EnqueuedAll /\ Len(results) = NumFiles
  /\ DtorCalled
  /\ UNCHANGED callVars

InsidePool == OwnerStep /\ UNCHANGED callVars

CallerStep == EnqueueNext \/ MergeNext \/ LeaveScope \/ InsidePool

Returned == opc = "gone" /\ UNCHANGED vars

Next ==
  \/ \E w \in Workers : WorkerElsewhere(w) \/ RunTask(w) \/ SpuriouslyWoken(w)
  \/ CallerStep
  \/ \E f \in Tasks : RemoveFile(f)
  \/ Returned

(* Runnable threads run; the mutex eventually admits the caller. Nothing      *)
(* removes files or wakes a sleeper without reason.                           *)
Fairness ==
  /\ \A w \in Workers : WF_vars(WorkerElsewhere(w) \/ RunTask(w))
  /\ WF_vars(CallerStep)
  /\ SF_vars(OwnerLocks /\ UNCHANGED callVars)

SafetySpec == Init /\ [][Next]_vars
Spec == SafetySpec /\ Fairness

-------------------------------------------------------------------------------
(* What the call promises.                                                    *)

(* The pool is used as ThreadPool allows, and the call's own state is typed. *)
TypeOK ==
  /\ PoolTypeOK
  /\ onDisk \in SUBSET Tasks
  /\ future \in [Tasks -> Stats \cup {"pending"}]
  /\ results \in Seq([file : Tasks, stats : Stats])

(* The k-th result is the k-th file's, whatever the order in which the tasks *)
(* ran and finished, and it is what that file's task computed.               *)
ResultsInFileOrder ==
  /\ Len(results) <= NumFiles
  /\ \A k \in 1..Len(results) :
       /\ results[k].file = FileList[k]
       /\ results[k].stats = future[FileList[k]]

(* Exactly the tasks that ran have stored a value, only their values are in  *)
(* results, and the pool is destroyed only after the last of them.           *)
FuturesFollowTasks ==
  /\ \A f \in Tasks : future[f] # "pending" <=> f \in ready
  /\ \A k \in 1..Len(results) : FileList[k] \in ready
  /\ opc \in {"dtorLock", "dtorStop", "notifyAll", "join", "gone"} => Len(results) = NumFiles

(* What the caller and the workers wait for: the mutex, a notification, the  *)
(* next future, the end of the threads to join.                              *)
CallerWaits ==
  \/ opc \in {"enqueueLock", "dtorLock"} /\ queue_mutex # Nobody
  \/ /\ opc = "idle" /\ EnqueuedAll
     /\ Len(results) < NumFiles /\ FileList[Len(results) + 1] \notin ready
  \/ opc = "join" /\ \E w \in Workers : wpc[w] # "exited"

WorkerWaits(w) ==
  \/ wpc[w] \in {"unborn", "asleep", "exited"}
  \/ wpc[w] = "lock" /\ queue_mutex # Nobody

(* While the caller waits, some worker does not: no future that get() blocks *)
(* on is left to sleeping workers, and no worker sleeps through the end of   *)
(* the pool. Without a worker the first get() blocks for ever.               *)
NeverAllWait ==
  Workers # {} /\ CallerWaits => \E w \in Workers : ~WorkerWaits(w)

(* The inductive invariant of the call. *)
CallInv == PoolInv /\ TypeOK /\ FuturesFollowTasks /\ ResultsInFileOrder

(* The call accounts for every file in order, drops none, and returns. *)
Report == INSTANCE BatchReport WITH
  numFiles <- NumFiles,
  reported <- [k \in 1..Len(results) |-> {k}],
  dropped <- {},
  accounted <- Len(results),
  returned <- (opc = "gone")

ReportSpec == Report!Spec
===============================================================================
