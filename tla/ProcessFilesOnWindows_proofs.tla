-------------------- MODULE ProcessFilesOnWindows_proofs --------------------
(***************************************************************************)
(* Proofs about ProcessFilesOnWindows, for any number of files and         *)
(* processes, any outputs and any sizes of the pipe and of a read: no turn *)
(* of the loop leaves a handle, a result is short only if its child died or*)
(* wrote a NUL, every step leaves less to do, and the call implements the  *)
(* abstract BatchReport.                                                   *)
(***************************************************************************)
EXTENDS ProcessFilesOnWindows, Operators_proofs

Entries == [process : 0..(NumFiles - 1), whole : BOOLEAN]

InTurn == ppc \in {"create", "closeWrite", "wait", "read", "merge", "aborted"}

(* The types, with what the loop has found out about the number of processes.*)
Typed ==
  /\ TypeOK
  /\ results \in Seq(Entries)
  /\ ppc \notin {"divide", "killed"} => p > 0
  /\ InTurn => i < p

(* Where the parent is says what it has open, and whether a child runs.      *)
HandlesFollow ==
  /\ ppc \in {"divide", "loop", "gone", "killed"} => handles = {}
  /\ ppc = "create" => handles = {"readPipe", "writePipe"}
  /\ ppc = "closeWrite" => handles = {"readPipe", "writePipe", "hProcess", "hThread"}
  /\ ppc \in {"wait", "read", "merge", "aborted"} => handles = {"readPipe", "hProcess", "hThread"}
  /\ ppc \in {"closeWrite", "wait"} => cpc # "none"
  /\ ppc \in {"read", "merge", "aborted"} => cpc \in {"exited", "dead"}
  /\ cpc = "write" => ppc \in {"closeWrite", "wait"}

HasChild == ppc \in {"closeWrite", "wait", "read", "merge", "aborted"}

(* Every unit of the child's output is with the child, in the pipe or has    *)
(* been read; what has been read is all in resultData if none of it is NUL.  *)
NothingLost ==
  /\ ppc = "create" => pipe = 0
  /\ ppc \in {"closeWrite", "wait"} => pipe + unwritten = size[i]
  /\ ppc \in {"read", "merge", "aborted"} =>
       /\ pipe + unwritten <= size[i]
       /\ resultData \subseteq 1..Taken
       /\ nuls = {} => resultData = 1..Taken
  /\ ppc \in {"merge", "aborted"} => pipe = 0
  /\ HasChild /\ cpc = "exited" => unwritten = 0
  /\ HasChild /\ cpc = "dead" => i \in died
  /\ HasChild /\ nuls # {} => i \in spoiled

Inv == Typed /\ HandlesFollow /\ NothingLost /\ ShortOnlyIfDiedOrNul

-------------------------------------------------------------------------------
(* p is the same in every state, and no larger than the number of files.     *)
LEMMA ProcessCount ==
  ASSUME Inv, [Next]_vars
  PROVE  p \in 0..NumFiles /\ p' = p /\ size' = size /\ maxThreads' = maxThreads
<1>1. maxThreads \in Nat /\ NumFiles \in Nat
  BY WindowsAssumption DEF Inv, Typed, TypeOK
<1>2. maxThreads' = maxThreads /\ size' = size
  BY DEF Next, ParentStep, ChildStep, ChildDies, vars, DivideFiles, CreatePipe, CreatePipeFails,
         CreateProcess, CreateProcessFails, CloseWrite, WaitForSingleObject, ReadFile, BrokenPipe,
         Merge, MergeThrows, Return, ChildWrites, ChildExits
<1> QED
  BY <1>1, <1>2 DEF p, numProcesses

(* The entry that Merge appends, and what results holds then. *)
LEMMA MergeAppends ==
  ASSUME Inv, [Next]_vars, Merge
  PROVE  LET e == [process |-> i, whole |-> Whole] IN
         /\ e \in Entries /\ results' = Append(results, e)
         /\ results' \in Seq(Entries) /\ Len(results) \in Nat
         /\ Len(results') = Len(results) + 1
         /\ \A k \in 1..Len(results) : results'[k] = results[k]
         /\ results'[Len(results) + 1] = e
<1>1. i \in 0..(NumFiles - 1) /\ results \in Seq(Entries)
  <2>1. p \in 0..NumFiles /\ NumFiles \in Nat
    BY ProcessCount, WindowsAssumption
  <2>2. i \in 0..p /\ i < p /\ results \in Seq(Entries)
    BY DEF Inv, Typed, TypeOK, InTurn, Merge
  <2> QED
    BY <2>1, <2>2
<1>2. [process |-> i, whole |-> Whole] \in Entries
  BY <1>1 DEF Entries, Whole
<1>3. results' = Append(results, [process |-> i, whole |-> Whole])
  BY DEF Merge
<1> DEFINE e == [process |-> i, whole |-> Whole]
<1>4. e \in Entries /\ results' = Append(results, e)
  BY <1>2, <1>3
<1> HIDE DEF e
<1>5. /\ results' \in Seq(Entries) /\ Len(results) \in Nat
      /\ Len(results') = Len(results) + 1
      /\ \A k \in 1..Len(results) : results'[k] = results[k]
      /\ results'[Len(results) + 1] = e
  BY <1>1, <1>4, AppendProperties, LenProperties
<1> QED
  BY <1>4, <1>5 DEF e

(* The numbers of a turn, and that results change only in Merge.             *)
LEMMA TurnNumbers ==
  ASSUME Inv, [Next]_vars
  PROVE  /\ i \in Nat /\ p \in Nat /\ i \in 0..p /\ (InTurn => i \in 0..(p - 1))
         /\ (i < p => size[i] \in 1..MaxSize)
         /\ pipe \in Nat /\ unwritten \in Nat
         /\ (results' = results => Reported' = Reported)
<1>1. p \in 0..NumFiles /\ NumFiles \in Nat
  BY ProcessCount, WindowsAssumption
<1>2. i \in 0..p /\ size \in [0..(NumFiles - 1) -> 1..MaxSize] /\ (InTurn => i < p)
  BY DEF Inv, Typed, TypeOK
<1>3. pipe \in Nat /\ unwritten \in Nat
  BY WindowsAssumption DEF Inv, Typed, TypeOK
<1>4. i < p => size[i] \in 1..MaxSize
  BY <1>1, <1>2
<1>5. results' = results => Reported' = Reported
  BY DEF Reported
<1> QED
  BY <1>1, <1>2, <1>3, <1>4, <1>5

(* Every step keeps what is open and where the child is in step with ppc.    *)
LEMMA HandlesStep ==
  ASSUME HandlesFollow, [Next]_vars
  PROVE  HandlesFollow'
<1> USE DEF HandlesFollow, Goes, childVars, parentVars
<1>1. CASE DivideFiles \/ CreatePipe \/ CreatePipeFails \/ CreateProcess \/ CreateProcessFails
  BY <1>1 DEF DivideFiles, CreatePipe, CreatePipeFails, CreateProcess, CreateProcessFails,
       NextProcess
<1>2. CASE CloseWrite \/ WaitForSingleObject \/ ReadFile \/ BrokenPipe
  BY <1>2 DEF CloseWrite, WaitForSingleObject, ReadFile, BrokenPipe, ChildEnded
<1>3. CASE Merge \/ MergeThrows \/ Return
  BY <1>3 DEF Merge, MergeThrows, Return, NextProcess
<1>4. CASE ChildWrites \/ ChildExits \/ ChildDies \/ UNCHANGED vars
  BY <1>4 DEF ChildWrites, ChildExits, ChildDies, vars
<1> QED
  BY <1>1, <1>2, <1>3, <1>4 DEF Next, ParentStep, ChildStep

(* A read takes what it returns out of the pipe, and no more than is in it;  *)
(* it goes on where the read before ended, and keeps all but for a NUL.      *)
LEMMA ReadTakes ==
  ASSUME Inv, [Next]_vars, ReadFile
  PROVE  /\ BytesRead \in 1..pipe /\ pipe' \in 0..pipe
         /\ Taken \in Nat /\ Taken' = Taken + BytesRead /\ Taken' \in 1..size[i]
         /\ resultData' \subseteq 1..Taken'
         /\ nuls = {} => resultData' = 1..Taken'
<1>1. pipe \in Nat /\ unwritten \in Nat /\ BufferSize \in Nat \ {0} /\ size[i] \in Nat
  BY TurnNumbers, WindowsAssumption DEF Inv, Typed, ReadFile, InTurn
<1>2. BytesRead \in 1..pipe
  BY <1>1 DEF ReadFile, BytesRead
<1>3. /\ resultData' = resultData \cup CString /\ pipe' = pipe - BytesRead
      /\ unwritten' = unwritten /\ i' = i /\ size' = size
  BY DEF ReadFile, childVars
<1>4. /\ pipe + unwritten <= size[i] /\ resultData \subseteq 1..Taken
      /\ nuls = {} => resultData = 1..Taken
  BY DEF Inv, NothingLost, ReadFile
<1>5. /\ Taken \in Nat /\ Taken' = Taken + BytesRead
  BY <1>1, <1>2, <1>3, <1>4 DEF Taken
<1>6. Taken + BytesRead \in 1..size[i]
  BY <1>1, <1>2, <1>4 DEF Taken
<1>7. BytesRead \in Nat /\ 1..(Taken + BytesRead) = (1..Taken) \cup Buffer
  BY <1>1, <1>2, <1>5 DEF Buffer
<1>8. CString \subseteq Buffer /\ (nuls = {} => CString = Buffer)
  BY DEF CString
<1>9. /\ resultData' \subseteq 1..(Taken + BytesRead)
      /\ nuls = {} => resultData' = 1..(Taken + BytesRead)
  BY <1>3, <1>4, <1>7, <1>8
<1> QED
  BY <1>1, <1>2, <1>3, <1>5, <1>6, <1>9

(* Every step loses none of the child's output, unless the child dies.       *)
LEMMA LostStep ==
  ASSUME Inv, [Next]_vars
  PROVE  NothingLost'
<1> USE DEF NothingLost, Goes, childVars, parentVars
<1>1. /\ NothingLost /\ HandlesFollow /\ HandlesFollow' /\ size' = size
      /\ pipe \in Nat /\ unwritten \in Nat
  BY HandlesStep, TurnNumbers, ProcessCount DEF Inv
<1>2. i < p => size[i] \in Nat
  BY TurnNumbers, WindowsAssumption
<1> USE DEF HasChild
<1>3. InTurn => i < p
  BY DEF Inv, Typed
<1>4. CASE DivideFiles \/ CreatePipe \/ CreatePipeFails \/ CreateProcessFails \/ Return
  BY <1>1, <1>4 DEF HandlesFollow, DivideFiles, CreatePipe, CreatePipeFails, CreateProcessFails,
       Return, NextProcess
<1>5. CASE CreateProcess
  <2>1. /\ ppc = "create" /\ ppc' = "closeWrite" /\ pipe' = 0 /\ cpc' = "write"
        /\ unwritten' = size'[i'] /\ (nuls' # {} => i' \in spoiled')
    BY <1>1, <1>5 DEF CreateProcess
  <2>2. size'[i'] \in Nat
    BY <1>2, <1>3, <1>5 DEF CreateProcess, InTurn
  <2> QED
    BY <2>1, <2>2
<1>6. CASE CloseWrite \/ WaitForSingleObject
  <2>1. CASE CloseWrite
    BY <1>1, <2>1 DEF CloseWrite
  <2>2. CASE WaitForSingleObject
    <3>1. Taken' = 0 /\ pipe + unwritten = size[i] /\ size[i] \in Nat
      BY <1>1, <1>2, <1>3, <2>2 DEF WaitForSingleObject, Taken, InTurn
    <3> QED
      BY <1>1, <2>2, <3>1 DEF WaitForSingleObject, HandlesFollow
  <2> QED
    BY <1>6, <2>1, <2>2
<1>7. CASE ReadFile
  <2>1. /\ pipe' \in 0..pipe
        /\ resultData' \subseteq 1..Taken' /\ (nuls = {} => resultData' = 1..Taken')
    BY <1>7, ReadTakes
  <2>2. /\ ppc = "read" /\ UNCHANGED <<ppc, i, size, unwritten, nuls, cpc, died, spoiled>>
    BY <1>7 DEF ReadFile
  <2>3. pipe' + unwritten <= size[i] /\ size[i] \in Nat
    BY <1>1, <1>2, <1>3, <2>1, <2>2 DEF InTurn
  <2> QED
    BY <1>1, <2>1, <2>2, <2>3
<1>8. CASE BrokenPipe \/ MergeThrows
  <2>1. Taken' = Taken
    BY <1>8 DEF BrokenPipe, MergeThrows, Taken
  <2> QED
    BY <1>1, <1>8, <2>1 DEF BrokenPipe, MergeThrows
<1>9. CASE Merge
  BY <1>1, <1>9 DEF Merge, NextProcess
<1>10. CASE ChildWrites
  BY <1>1, <1>10 DEF ChildWrites, HandlesFollow
<1>11. CASE ChildExits \/ ChildDies \/ UNCHANGED vars
  <2>1. Taken' = Taken
    BY <1>11 DEF ChildExits, ChildDies, vars, Taken
  <2> QED
    BY <1>1, <1>11, <2>1 DEF ChildExits, ChildDies, vars, HandlesFollow
<1> QED
  BY <1>4, <1>5, <1>6, <1>7, <1>8, <1>9, <1>10, <1>11 DEF Next, ParentStep, ChildStep

(* Every step but Merge leaves results alone.                                *)
LEMMA ResultsStay ==
  ASSUME [Next]_vars
  PROVE  Merge \/ results' = results
BY DEF Next, ParentStep, ChildStep, ChildDies, vars, parentVars, DivideFiles, CreatePipe,
   CreatePipeFails, CreateProcess, CreateProcessFails, CloseWrite, WaitForSingleObject, ReadFile,
   BrokenPipe, MergeThrows, Return, ChildWrites, ChildExits

(* died and spoiled only grow.                                               *)
LEMMA CausesGrow ==
  ASSUME [Next]_vars
  PROVE  died \subseteq died' /\ spoiled \subseteq spoiled'
BY DEF childVars, Next, ParentStep, ChildStep, ChildDies, vars, parentVars, DivideFiles, CreatePipe,
   CreatePipeFails, CreateProcess, CreateProcessFails, CloseWrite, WaitForSingleObject, ReadFile,
   BrokenPipe, Merge, MergeThrows, Return, ChildWrites, ChildExits

(* What is missing in the result that is merged was never written, or after a*)
(* NUL.                                                                      *)
LEMMA ShortStep ==
  ASSUME Inv, [Next]_vars
  PROVE  ShortOnlyIfDiedOrNul'
<1>1. ShortOnlyIfDiedOrNul /\ died \cup spoiled \subseteq died' \cup spoiled'
  BY CausesGrow DEF Inv
<1>2. ppc = "merge" /\ ~Whole => i \in died \cup spoiled
  <2> SUFFICES ASSUME ppc = "merge", i \notin died \cup spoiled PROVE Whole
    OBVIOUS
  <2>1. unwritten = 0 /\ pipe = 0 /\ resultData = 1..Taken
    BY DEF Inv, HandlesFollow, NothingLost, HasChild
  <2>2. size[i] \in Nat
    BY TurnNumbers, WindowsAssumption DEF InTurn
  <2> QED
    BY <2>1, <2>2 DEF Whole, Taken
<1>3. CASE Merge
  <2> DEFINE e == [process |-> i, whole |-> Whole]
  <2>1. /\ results' \in Seq(Entries) /\ Len(results) \in Nat
        /\ Len(results') = Len(results) + 1
        /\ \A k \in 1..Len(results) : results'[k] = results[k]
        /\ results'[Len(results) + 1] = e
    BY <1>3, MergeAppends
  <2>2. e.process = i /\ e.whole = Whole
    BY Zenon
  <2>3. ~e.whole => e.process \in died \cup spoiled
    BY <1>2, <1>3, <2>2 DEF Merge
  <2> HIDE DEF e
  <2>4. \A k \in 1..Len(results') :
          ~results'[k].whole => results'[k].process \in died' \cup spoiled'
    <3> SUFFICES ASSUME NEW k \in 1..Len(results'), ~results'[k].whole
                 PROVE  results'[k].process \in died' \cup spoiled'
      OBVIOUS
    <3>1. k \in 1..Len(results) \/ k = Len(results) + 1
      BY <2>1
    <3> QED
      BY <1>1, <2>1, <2>3, <3>1 DEF ShortOnlyIfDiedOrNul
  <2>5. ppc' # "aborted"
    BY <1>3 DEF Merge, NextProcess
  <2> QED
    BY <2>4, <2>5 DEF ShortOnlyIfDiedOrNul
<1>4. CASE results' = results
  <2>1. ppc' = "aborted" => i' \in died' \cup spoiled'
    <3>1. ppc' = "aborted" => MergeThrows \/ (ppc = "aborted" /\ i' = i)
      BY DEF Next, ParentStep, ChildStep, ChildDies, vars, parentVars, Goes, NextProcess,
         DivideFiles, CreatePipe, CreatePipeFails, CreateProcess, CreateProcessFails, CloseWrite,
         WaitForSingleObject, ReadFile, BrokenPipe, Merge, Return, ChildWrites, ChildExits
    <3> QED
      BY <1>1, <1>2, <3>1 DEF MergeThrows, Goes, ShortOnlyIfDiedOrNul
  <2> QED
    BY <1>1, <1>4, <2>1 DEF ShortOnlyIfDiedOrNul
<1> QED
  BY <1>3, <1>4, ResultsStay

(* Every step keeps the types.                                               *)
LEMMA TypesStep ==
  ASSUME Inv, [Next]_vars
  PROVE  Typed'
<1>1. p' = p /\ size' = size /\ maxThreads' = maxThreads
  BY ProcessCount
<1>2. /\ i \in 0..p /\ p \in Nat /\ (InTurn => i \in 0..(p - 1))
  BY TurnNumbers
<1>3. i < p => size[i] \in 1..MaxSize
  BY TurnNumbers
<1>4. maxThreads' \in ThreadChoices /\ size' \in [0..(NumFiles - 1) -> 1..MaxSize]
  BY <1>1 DEF Inv, Typed, TypeOK
<1>5. /\ ppc' \in {"divide", "loop", "create", "closeWrite", "wait", "read", "merge", "gone",
                   "killed", "aborted"}
      /\ i' \in 0..p /\ (InTurn' => i' < p)
      /\ ppc' \notin {"divide", "killed"} => p > 0
  <2>1. /\ ppc \in {"divide", "loop", "create", "closeWrite", "wait", "read", "merge", "gone",
                    "killed", "aborted"}
        /\ ppc \notin {"divide", "killed"} => p > 0
    BY DEF Inv, Typed, TypeOK
  <2> QED
    BY <1>2, <2>1
    DEF InTurn, Next, ParentStep, ChildStep, ChildDies, vars, parentVars, Goes, NextProcess,
        DivideFiles, CreatePipe, CreatePipeFails, CreateProcess, CreateProcessFails, CloseWrite,
        WaitForSingleObject, ReadFile, BrokenPipe, Merge, MergeThrows, Return, ChildWrites,
        ChildExits
<1>6. /\ handles' \subseteq {"readPipe", "writePipe", "hProcess", "hThread"}
      /\ cpc' \in {"none", "write", "exited", "dead"}
  <2>1. /\ handles \subseteq {"readPipe", "writePipe", "hProcess", "hThread"}
        /\ cpc \in {"none", "write", "exited", "dead"}
    BY DEF Inv, Typed, TypeOK
  <2> QED
    BY <2>1
    DEF Next, ParentStep, ChildStep, ChildDies, vars, parentVars, childVars, DivideFiles,
        CreatePipe, CreatePipeFails, CreateProcess, CreateProcessFails, CloseWrite,
        WaitForSingleObject, ReadFile, BrokenPipe, Merge, MergeThrows, Return, ChildWrites,
        ChildExits
<1>7. pipe' \in 0..PipeCapacity /\ unwritten' \in 0..MaxSize
  <2>1. /\ pipe \in 0..PipeCapacity /\ unwritten \in 0..MaxSize
        /\ PipeCapacity \in Nat /\ MaxSize \in Nat
    BY WindowsAssumption DEF Inv, Typed, TypeOK
  <2>2. CASE ReadFile
    BY <2>1, <2>2, ReadTakes DEF ReadFile, childVars
  <2>3. CASE CreateProcess
    BY <1>2, <1>3, <2>1, <2>3 DEF CreateProcess, Goes, InTurn
  <2>4. CASE ChildWrites
    BY <2>1, <2>4 DEF ChildWrites
  <2>5. CASE ~ReadFile /\ ~CreateProcess /\ ~ChildWrites
    BY <2>1, <2>5
    DEF Next, ParentStep, ChildStep, ChildDies, vars, childVars, DivideFiles, CreatePipe,
        CreatePipeFails, CreateProcessFails, CloseWrite, WaitForSingleObject, BrokenPipe, Merge,
        MergeThrows, Return, ChildExits
  <2> QED
    BY <2>2, <2>3, <2>4, <2>5
<1>8. resultData' \in SUBSET (1..MaxSize)
  <2>1. resultData \in SUBSET (1..MaxSize) /\ MaxSize \in Nat
    BY WindowsAssumption DEF Inv, Typed, TypeOK
  <2>2. CASE ReadFile
    <3>1. resultData' \subseteq 1..Taken' /\ Taken' \in 1..size[i]
      BY <2>2, ReadTakes
    <3>2. size[i] \in 1..MaxSize
      BY <1>3, <2>2 DEF ReadFile, Inv, Typed, InTurn
    <3> QED
      BY <2>1, <3>1, <3>2
  <2>3. CASE ~ReadFile
    BY <2>1, <2>3
    DEF Next, ParentStep, ChildStep, ChildDies, vars, parentVars, DivideFiles, CreatePipe,
        CreatePipeFails, CreateProcess, CreateProcessFails, CloseWrite, WaitForSingleObject,
        BrokenPipe, Merge, MergeThrows, Return, ChildWrites, ChildExits
  <2> QED
    BY <2>2, <2>3
<1>9. /\ failed' \subseteq 0..(p - 1) /\ died' \subseteq 0..(p - 1)
      /\ spoiled' \subseteq 0..(p - 1) /\ nuls' \subseteq 1..MaxSize
  <2>1. /\ failed \subseteq 0..(p - 1) /\ died \subseteq 0..(p - 1)
        /\ spoiled \subseteq 0..(p - 1) /\ nuls \subseteq 1..MaxSize
    BY DEF Inv, Typed, TypeOK
  <2>2. CASE CreatePipeFails \/ CreateProcessFails
    <3>1. i \in 0..(p - 1)
      BY <1>2, <2>2 DEF CreatePipeFails, CreateProcessFails, InTurn
    <3>2. failed' = failed \cup {i} /\ UNCHANGED <<died, spoiled, nuls>>
      BY <2>2 DEF CreatePipeFails, CreateProcessFails, childVars
    <3> QED
      BY <2>1, <3>1, <3>2
  <2>3. CASE ChildDies
    <3>1. i \in 0..(p - 1)
      BY <1>2, <2>3 DEF ChildDies, Inv, HandlesFollow, Typed, TypeOK, InTurn
    <3> QED
      BY <2>1, <2>3, <3>1 DEF ChildDies, parentVars
  <2>4. CASE CreateProcess
    <3>1. i \in 0..(p - 1) /\ size[i] \in 1..MaxSize /\ MaxSize \in Nat
      BY <1>2, <1>3, <2>4, WindowsAssumption DEF CreateProcess, Goes, InTurn
    <3>2. /\ UNCHANGED <<failed, died>> /\ nuls' \subseteq 1..size[i]
          /\ spoiled' \subseteq spoiled \cup {i}
      BY <2>4 DEF CreateProcess
    <3> QED
      BY <2>1, <3>1, <3>2
  <2>5. CASE ~CreatePipeFails /\ ~CreateProcessFails /\ ~ChildDies /\ ~CreateProcess
    BY <2>1, <2>5
    DEF Next, ParentStep, ChildStep, vars, childVars, DivideFiles, CreatePipe, CloseWrite,
        WaitForSingleObject, ReadFile, BrokenPipe, Merge, MergeThrows, Return, ChildWrites,
        ChildExits
  <2> QED
    BY <2>2, <2>3, <2>4, <2>5
<1>10. results' \in Seq(Entries) /\ Reported' \subseteq 0..(p - 1)
  <2>1. results \in Seq(Entries) /\ Reported \subseteq 0..(p - 1)
    BY DEF Inv, Typed, TypeOK
  <2>2. CASE Merge
    <3> DEFINE e == [process |-> i, whole |-> Whole]
    <3>1. /\ results' \in Seq(Entries) /\ Len(results) \in Nat
          /\ Len(results') = Len(results) + 1
          /\ \A k \in 1..Len(results) : results'[k] = results[k]
          /\ results'[Len(results) + 1] = e
      BY <2>2, MergeAppends
    <3>2. e.process = i /\ i \in 0..(p - 1)
      BY <1>2, <2>2 DEF Merge, InTurn
    <3> HIDE DEF e
    <3>3. \A k \in 1..Len(results') : k \in 1..Len(results) \/ results'[k] = e
      BY <3>1
    <3>4. Reported' \subseteq Reported \cup {e.process}
      BY <3>1, <3>3 DEF Reported
    <3> QED
      BY <2>1, <3>1, <3>2, <3>4
  <2>3. CASE results' = results
    BY <2>1, <2>3 DEF Reported
  <2> QED
    BY <2>2, <2>3, ResultsStay
<1>11. TypeOK'
  BY <1>1, <1>4, <1>5, <1>6, <1>7, <1>8, <1>9, <1>10 DEF TypeOK
<1> QED
  BY <1>1, <1>5, <1>10, <1>11 DEF Typed

(* Every step of the parent or the child keeps Inv. *)
LEMMA InvStep ==
  ASSUME Inv, [Next]_vars
  PROVE  Inv'
<1>1. HandlesFollow'
  BY HandlesStep DEF Inv
<1> QED
  BY <1>1, TypesStep, LostStep, ShortStep DEF Inv

(* Inv is inductive: it holds in every state of the call. *)
THEOREM CallInvariant == Spec => []Inv
<1>1. Init => Inv
  <2> SUFFICES ASSUME Init PROVE Inv
    OBVIOUS
  <2>1. p \in Nat
    BY WindowsAssumption DEF Init, p, numProcesses
  <2>2. results = <<>> /\ results \in Seq(Entries) /\ Len(results) = 0
    BY EmptySeq DEF Init
  <2> QED
    BY <2>1, <2>2, WindowsAssumption
    DEF Init, Inv, Typed, TypeOK, Reported, InTurn, HasChild, HandlesFollow, NothingLost,
        ShortOnlyIfDiedOrNul
<1> QED
  BY <1>1, InvStep, PTL DEF Spec

(* Each variable has its type: the parent never reads more than the child's  *)
(* largest output, and the pipe holds no more than it can.                   *)
THEOREM TypeCorrect == Spec => []TypeOK
BY CallInvariant, PTL DEF Inv, Typed

(* What a turn of the loop opened is closed when it is over, whichever way it*)
(* ended, and its child does not run any more.                               *)
THEOREM NoHandleLeftHolds == Spec => []NoHandleLeft
<1>1. Inv => NoHandleLeft
  BY DEF Inv, HandlesFollow, NoHandleLeft
<1> QED
  BY <1>1, CallInvariant, PTL

(* A result is short, or the program aborts, only if the child was killed or *)
(* its output has a NUL: whatever else fits in the pipe is read in full after*)
(* the child has ended.                                                      *)
THEOREM ShortOnlyIfDiedOrNulHolds == Spec => []ShortOnlyIfDiedOrNul
BY CallInvariant, PTL DEF Inv

(* What the parent waits for in WaitForSingleObject and ReadFile, and the    *)
(* child in its write; a child that does not run cannot go on either.        *)
ParentWaits ==
  \/ ppc = "wait" /\ ~ChildEnded
  \/ ppc = "read" /\ pipe = 0 /\ "writePipe" \in handles

ChildWaits ==
  \/ cpc # "write"
  \/ unwritten > 0 /\ pipe >= PipeCapacity

(* Parent and child wait for each other (file_processor.cpp:150) only if     *)
(* the child's output does not fit in the pipe, and then at the parent's     *)
(* wait for its end, with the pipe full.                                     *)
THEOREM WaitOnlyOnLargeOutput ==
  Spec => [](ParentWaits /\ ChildWaits => size[i] > PipeCapacity /\ Stuck)
<1>1. Inv /\ ParentWaits /\ ChildWaits => size[i] > PipeCapacity /\ Stuck
  <2> SUFFICES ASSUME Inv, ParentWaits, ChildWaits PROVE size[i] > PipeCapacity /\ Stuck
    OBVIOUS
  <2>1. ppc = "wait" /\ ~ChildEnded
    BY DEF ParentWaits, Inv, HandlesFollow
  <2>2. cpc = "write"
    BY <2>1 DEF Inv, HandlesFollow, Typed, TypeOK, ChildEnded
  <2>3. unwritten > 0 /\ pipe >= PipeCapacity
    BY <2>2 DEF ChildWaits
  <2>4. unwritten \in Nat /\ pipe \in 0..PipeCapacity /\ PipeCapacity \in Nat
    BY WindowsAssumption DEF Inv, Typed, TypeOK
  <2>5. pipe + unwritten = size[i]
    BY <2>1 DEF Inv, NothingLost
  <2>6. pipe = PipeCapacity /\ size[i] > PipeCapacity
    BY <2>3, <2>4, <2>5
  <2> QED
    BY <2>1, <2>2, <2>3, <2>6 DEF Stuck
<1> QED
  BY <1>1, CallInvariant, PTL

(* What is left to do: turns of the loop, and in this turn what is left to   *)
(* the parent, to the child, of its output, and in the pipe.                 *)
ParentLeft ==
  CASE ppc = "divide" -> 7 [] ppc = "loop" -> 6 [] ppc = "create" -> 5 [] ppc = "closeWrite" -> 4
    [] ppc = "wait" -> 3 [] ppc = "read" -> 2 [] ppc = "merge" -> 1 [] OTHER -> 0

ChildLeft == IF cpc = "write" THEN 1 ELSE 0

ToDo == <<p - i, ParentLeft, ChildLeft, unwritten, pipe>>

(* What is left to do is counted by numbers. *)
LEMMA ToDoTyped == Inv => ToDo \in [1..5 -> Nat]
<1> SUFFICES ASSUME Inv PROVE ToDo \in [1..5 -> Nat]
  OBVIOUS
<1>1. p - i \in Nat
  BY WindowsAssumption DEF Inv, Typed, TypeOK, p, numProcesses
<1>2. ParentLeft \in Nat /\ ChildLeft \in Nat
  BY DEF ParentLeft, ChildLeft
<1>3. unwritten \in Nat /\ pipe \in Nat
  BY WindowsAssumption DEF Inv, Typed, TypeOK
<1> QED
  BY <1>1, <1>2, <1>3 DEF ToDo

(* Every step of the parent or the child leaves less to do. *)
LEMMA ToDoStep ==
  ASSUME Inv, [Next]_vars
  PROVE  [Below(ToDo', ToDo)]_vars
<1> SUFFICES ASSUME Next, ~UNCHANGED vars PROVE Below(ToDo', ToDo)
  OBVIOUS
<1>1. /\ DOMAIN ToDo = 1..5
      /\ ToDo[1] = p - i /\ ToDo[2] = ParentLeft /\ ToDo[3] = ChildLeft
      /\ ToDo[4] = unwritten /\ ToDo[5] = pipe
  BY DEF ToDo
<1>2. /\ ToDo'[1] = p' - i' /\ ToDo'[2] = ParentLeft' /\ ToDo'[3] = ChildLeft'
      /\ ToDo'[4] = unwritten' /\ ToDo'[5] = pipe'
  BY DEF ToDo
<1>3. ASSUME NEW k \in 1..5, ToDo'[k] < ToDo[k], \A j \in 1..(k - 1) : ToDo'[j] = ToDo[j]
      PROVE  Below(ToDo', ToDo)
  BY <1>1, <1>3 DEF Below
<1>4. p \in Nat /\ p' = p /\ i \in Nat /\ unwritten \in Nat /\ pipe \in Nat
  BY ProcessCount, TurnNumbers
<1> HIDE DEF ToDo
<1>5. ASSUME i' = i + 1 PROVE Below(ToDo', ToDo)
  <2>1. ToDo'[1] < ToDo[1]
    BY <1>1, <1>2, <1>4, <1>5
  <2> QED
    BY <1>3, <2>1
<1>6. ASSUME i' = i, ParentLeft' < ParentLeft PROVE Below(ToDo', ToDo)
  <2>1. ToDo'[1] = ToDo[1] /\ ToDo'[2] < ToDo[2]
    BY <1>1, <1>2, <1>4, <1>6
  <2> QED
    BY <1>3, <2>1
<1>7. ASSUME i' = i, ppc' = ppc PROVE ToDo'[1] = ToDo[1] /\ ToDo'[2] = ToDo[2]
  BY <1>1, <1>2, <1>4, <1>7 DEF ParentLeft
<1>8. CASE CreatePipeFails \/ CreateProcessFails \/ Merge
  BY <1>5, <1>8 DEF CreatePipeFails, CreateProcessFails, Merge, NextProcess
<1>9. CASE DivideFiles \/ CreatePipe \/ CreateProcess \/ CloseWrite \/ WaitForSingleObject
           \/ BrokenPipe \/ MergeThrows \/ Return
  <2>1. i' = i
    BY <1>9 DEF DivideFiles, CreatePipe, CreateProcess, CloseWrite, WaitForSingleObject, BrokenPipe,
       MergeThrows, Return
  <2>2. ParentLeft' < ParentLeft
    BY <1>9 DEF DivideFiles, CreatePipe, CreateProcess, CloseWrite, WaitForSingleObject, BrokenPipe,
       MergeThrows, Return, Goes, ParentLeft
  <2> QED
    BY <1>6, <2>1, <2>2
<1>10. CASE ChildExits \/ ChildDies
  <2>1. i' = i /\ ppc' = ppc /\ ChildLeft' < ChildLeft
    BY <1>10 DEF ChildExits, ChildDies, parentVars, ChildLeft
  <2>2. ToDo'[3] < ToDo[3]
    BY <1>1, <1>2, <2>1
  <2> QED
    BY <1>3, <1>7, <2>1, <2>2
<1>11. CASE ChildWrites
  <2>1. i' = i /\ ppc' = ppc /\ ChildLeft' = ChildLeft /\ unwritten' < unwritten
    BY <1>4, <1>11 DEF ChildWrites, parentVars, ChildLeft
  <2>2. ToDo'[3] = ToDo[3] /\ ToDo'[4] < ToDo[4]
    BY <1>1, <1>2, <2>1
  <2> QED
    BY <1>3, <1>7, <2>1, <2>2
<1>12. CASE ReadFile
  <2>1. i' = i /\ ppc' = ppc /\ ChildLeft' = ChildLeft /\ unwritten' = unwritten
    BY <1>12 DEF ReadFile, childVars, ChildLeft
  <2>2. pipe' < pipe
    <3>1. BytesRead \in 1..pipe /\ pipe' = pipe - BytesRead
      BY <1>12, ReadTakes DEF ReadFile
    <3> QED
      BY <1>4, <3>1
  <2>3. ToDo'[3] = ToDo[3] /\ ToDo'[4] = ToDo[4] /\ ToDo'[5] < ToDo[5]
    BY <1>1, <1>2, <2>1, <2>2
  <2> QED
    BY <1>3, <1>7, <2>1, <2>3
<1> QED
  BY <1>8, <1>9, <1>10, <1>11, <1>12 DEF Next, ParentStep, ChildStep

(* Every step leaves less to do, in an order in which nothing goes down for  *)
(* ever (NoEndlessDescent): the loops of file_processor.cpp:87-171 cannot go *)
(* round for ever, and with WaitOnlyOnLargeOutput steps only come to an end  *)
(* when the call has returned, the program has died, or the output of a child*)
(* does not fit in the pipe.                                                 *)
THEOREM EveryStepGetsOn == Spec => [](ToDo \in [1..5 -> Nat]) /\ [][Below(ToDo', ToDo)]_vars
BY ToDoTyped, ToDoStep, CallInvariant, PTL DEF Spec

-------------------------------------------------------------------------------
accountedNow == IF p = 0 THEN 0 ELSE startIdx(NumFiles, p, i)
reportedNow  == [k \in 1..Len(results) |-> Group(results[k].process)]
droppedNow   == UNION {Group(k) : k \in failed}

(* A turn of the loop accounts for the share of process i. *)
LEMMA TurnAccounts ==
  ASSUME Inv, [Next]_vars, i < p, i' = i + 1
  PROVE  /\ Group(i) = (accountedNow + 1)..accountedNow'
         /\ accountedNow' \in (accountedNow + 1)..NumFiles
<1>1. p \in 1..NumFiles /\ p' = p /\ i \in 0..(p - 1) /\ NumFiles \in Nat \ {0}
  <2>1. p \in 0..NumFiles /\ p' = p /\ NumFiles \in Nat \ {0}
    BY ProcessCount, WindowsAssumption
  <2>2. i \in 0..p
    BY DEF Inv, Typed, TypeOK
  <2> QED
    BY <2>1, <2>2
<1>2. accountedNow = startIdx(NumFiles, p, i) /\ accountedNow' = startIdx(NumFiles, p, i + 1)
  BY <1>1 DEF accountedNow
<1>3. endIdx(NumFiles, p, i) = startIdx(NumFiles, p, i + 1)
  BY <1>1, SharesAdjacent
<1>4. /\ startIdx(NumFiles, p, i) \in 0..(NumFiles - 1)
      /\ startIdx(NumFiles, p, i) < endIdx(NumFiles, p, i) /\ endIdx(NumFiles, p, i) \in 1..NumFiles
  BY <1>1, SharesEven
<1> QED
  BY <1>1, <1>2, <1>3, <1>4 DEF Group

(* Every group has the same files in every state. *)
LEMMA GroupsStay ==
  ASSUME Inv, [Next]_vars
  PROVE  /\ \A k : Group(k)' = Group(k)
         /\ results' = results => reportedNow' = reportedNow
         /\ failed' = failed => droppedNow' = droppedNow
<1>1. \A k : Group(k)' = Group(k)
  BY ProcessCount DEF Group
<1> QED
  BY <1>1 DEF reportedNow, droppedNow

(* The call implements the abstract report: the groups are reported or       *)
(* dropped in the order of the files, and the call returns after the last.   *)
THEOREM CallImplementsReport == Spec => ReportSpec
<1>1. Init => Report!Init
  <2> SUFFICES ASSUME Init PROVE Report!Init
    OBVIOUS
  <2>1. NumFiles \in Nat /\ p \in Nat /\ (p = 0 \/ startIdx(NumFiles, p, 0) = 0)
    BY WindowsAssumption, SharesCover DEF Init, p, numProcesses
  <2>2. Len(results) = 0 /\ failed = {} /\ i = 0 /\ ppc = "divide"
    BY EmptySeq DEF Init
  <2>3. reportedNow = <<>> /\ droppedNow = {}
    BY <2>2 DEF reportedNow, droppedNow
  <2> QED
    BY <2>1, <2>2, <2>3 DEF Report!Init, reportedNow, droppedNow
<1>2. Inv /\ [Next]_vars => [Report!Next]_(Report!vars)
  <2> SUFFICES ASSUME Inv, [Next]_vars PROVE [Report!Next]_(Report!vars)
    OBVIOUS
  <2>0. p' = p
    BY ProcessCount
  <2>1. ASSUME UNCHANGED <<i, results, failed>>, (ppc = "gone") = (ppc' = "gone")
        PROVE  UNCHANGED Report!vars
    <3>1. reportedNow' = reportedNow /\ droppedNow' = droppedNow /\ accountedNow' = accountedNow
      BY <2>0, <2>1, GroupsStay DEF accountedNow
    <3> QED
      BY <2>1, <3>1 DEF Report!vars, reportedNow, droppedNow, accountedNow
  <2>2. ASSUME i < p, NextProcess, ppc # "gone", UNCHANGED results, failed' = failed \cup {i}
        PROVE  Report!Next
    <3>1. droppedNow' = droppedNow \cup Group(i)
      BY <2>2, GroupsStay DEF droppedNow
    <3>2. reportedNow' = reportedNow /\ ppc' # "gone"
      BY <2>2, GroupsStay DEF NextProcess
    <3>3. /\ Group(i) = (accountedNow + 1)..accountedNow'
          /\ accountedNow' \in (accountedNow + 1)..NumFiles
      BY <2>2, TurnAccounts DEF NextProcess
    <3>4. Report!Drop(accountedNow')
      BY <2>2, <3>1, <3>2, <3>3 DEF Report!Drop, reportedNow, droppedNow, accountedNow
    <3> QED
      BY <3>3, <3>4 DEF Report!Next, accountedNow
  <2>3. CASE Merge
    <3> DEFINE e == [process |-> i, whole |-> Whole]
               g == [x \in Entries |-> Group(x.process)]
               T == {Group(x.process) : x \in Entries}
    <3>1. /\ e \in Entries /\ results' = Append(results, e) /\ e.process = i
          /\ results \in Seq(Entries) /\ results' \in Seq(Entries)
      BY <2>3, MergeAppends DEF Inv, Typed
    <3>2. reportedNow' = Append(reportedNow, Group(i))
      <4>1. \A x \in Entries : Group(x.process) \in T
        OBVIOUS
      <4>2. g \in [Entries -> T] /\ g[e] = Group(i)
        BY <3>1, <4>1
      <4>3. /\ \A k \in 1..Len(results) : results[k] \in Entries
            /\ \A k \in 1..Len(results') : results'[k] \in Entries
        BY <3>1, ElementOfSeq
      <4> HIDE DEF e
      <4>4. reportedNow = [k \in 1..Len(results) |-> g[results[k]]]
        BY <4>3 DEF reportedNow
      <4>5. reportedNow' = [k \in 1..Len(results') |-> g[results'[k]]]
        BY <4>3, GroupsStay DEF reportedNow
      <4> HIDE DEF g, T
      <4> QED
        BY <3>1, <4>2, <4>4, <4>5, OneMoreGroup
    <3>3. /\ ppc = "merge" /\ ppc' = "loop" /\ i' = i + 1 /\ i < p /\ failed' = failed
      BY <2>3 DEF Merge, NextProcess, Inv, Typed, InTurn
    <3>4. /\ Group(i) = (accountedNow + 1)..accountedNow'
          /\ accountedNow' \in (accountedNow + 1)..NumFiles
      BY <3>3, TurnAccounts
    <3>5. droppedNow' = droppedNow
      BY <3>3, GroupsStay
    <3>6. Report!Report(accountedNow')
      BY <3>2, <3>3, <3>4, <3>5 DEF Report!Report, reportedNow, droppedNow, accountedNow
    <3> QED
      BY <3>4, <3>6 DEF Report!Next, accountedNow
  <2>4. CASE Return
    <3>1. /\ i = p /\ ppc = "loop" /\ ppc' = "gone" /\ p > 0 /\ p \in Nat /\ NumFiles \in Nat
          /\ UNCHANGED <<i, results, failed>>
      BY <2>4, WindowsAssumption, ProcessCount DEF Return, Goes, Inv, Typed
    <3>2. accountedNow = NumFiles
      BY <3>1, SharesCover DEF accountedNow
    <3>3. reportedNow' = reportedNow /\ droppedNow' = droppedNow /\ accountedNow' = accountedNow
      BY <2>0, <3>1, GroupsStay DEF accountedNow
    <3>4. Report!Return
      BY <3>1, <3>2, <3>3 DEF Report!Return, reportedNow, droppedNow, accountedNow
    <3> QED
      BY <3>4 DEF Report!Next
  <2>5. CASE CreatePipeFails \/ CreateProcessFails
    <3>1. i < p /\ NextProcess /\ ppc # "gone" /\ UNCHANGED results /\ failed' = failed \cup {i}
      BY <2>5 DEF CreatePipeFails, CreateProcessFails, Inv, Typed, InTurn
    <3> QED
      BY <2>2, <3>1
  <2>6. CASE \/ DivideFiles \/ CreatePipe \/ CreateProcess \/ CloseWrite \/ WaitForSingleObject
             \/ ReadFile \/ BrokenPipe \/ MergeThrows \/ ChildStep \/ ChildDies \/ UNCHANGED vars
    <3>1. UNCHANGED <<i, results, failed>> /\ (ppc = "gone") = (ppc' = "gone")
      BY <2>6 DEF DivideFiles, CreatePipe, CreateProcess, CloseWrite, WaitForSingleObject,
           ReadFile, BrokenPipe, MergeThrows, ChildStep, ChildWrites, ChildExits, ChildDies,
           Goes, vars, parentVars
    <3> QED
      BY <2>1, <3>1
  <2> QED
    BY <2>3, <2>4, <2>5, <2>6 DEF Next, ParentStep
<1> QED
  BY <1>1, <1>2, CallInvariant, PTL DEF Spec, ReportSpec, Report!SafetySpec
===============================================================================
