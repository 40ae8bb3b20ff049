------------------------- MODULE ProcessFilesOnWindows -------------------------
(***************************************************************************)
(* FileProcessor::processFilesWithProcesses (mynewcode/file_processor.cpp), *)
(* the branch for Windows: the parent starts child_process.exe with a pipe *)
(* as its output, waits until it has ended, and reads the pipe then. The   *)
(* child is not in the repository: it writes what deserializeFileStats      *)
(* reads, size[k] units for group k, each at most a line, some of them NUL  *)
(* characters if the files have any in their words.                         *)
(***************************************************************************)
EXTENDS Partition, Sequences, FiniteSets

CONSTANTS
  NumFiles,
  ThreadChoices,
  MaxSize,        (* of a child's output                                      *)
  PipeCapacity,   (* the size CreatePipe chooses when it is asked for 0       *)
  BufferSize      (* BUFSIZE - 1                                              *)

ASSUME WindowsAssumption ==
  /\ NumFiles \in Nat \ {0} /\ ThreadChoices \subseteq Nat
  /\ {MaxSize, PipeCapacity, BufferSize} \subseteq Nat \ {0}

VARIABLES
  maxThreads, size,
  ppc, i, resultData, results,   (* of the parent; resultData is the set of   *)
                                 (* the units of the output that are in it    *)
  handles,                       (* what the parent has open in this turn     *)
  pipe,                          (* how many units are in the pipe            *)
  cpc, unwritten, nuls,          (* of the child; nuls: the units that are NUL*)
  failed, died,                  (* groups that were not started, or died     *)
  spoiled                        (* groups whose output has a NUL             *)

parentVars == <<ppc, i, resultData, results, handles>>
childVars  == <<cpc, unwritten, nuls, spoiled>>
vars == <<maxThreads, size, parentVars, pipe, childVars, failed, died>>

p == numProcesses(maxThreads, NumFiles)

Group(k) == (startIdx(NumFiles, p, k) + 1)..endIdx(NumFiles, p, k)

Init ==
  /\ maxThreads \in ThreadChoices
  /\ size \in [0..(NumFiles - 1) -> 1..MaxSize]
  /\ ppc = "divide" /\ i = 0 /\ resultData = {} /\ results = <<>> /\ handles = {}
  /\ pipe = 0 /\ cpc = "none" /\ unwritten = 0 /\ nuls = {}
  /\ failed = {} /\ died = {} /\ spoiled = {}

Goes(from, to) == ppc = from /\ ppc' = to

NextProcess == ppc' = "loop" /\ i' = i + 1

-------------------------------------------------------------------------------
(* The parent.                                                                *)

DivideFiles ==
  /\ Goes("divide", IF p = 0 THEN "killed" ELSE "loop")
  /\ UNCHANGED <<maxThreads, size, i, resultData, results, handles, pipe, childVars, failed, died>>

CreatePipe ==
  /\ i < p /\ Goes("loop", "create")
  /\ handles' = handles \cup {"readPipe", "writePipe"} /\ pipe' = 0
  /\ UNCHANGED <<maxThreads, size, i, resultData, results, childVars, failed, died>>

CreatePipeFails ==
  /\ ppc = "loop" /\ i < p
  /\ NextProcess
  /\ failed' = failed \cup {i}
  /\ UNCHANGED <<maxThreads, size, resultData, results, handles, pipe, childVars, died>>

CreateProcess ==
  /\ Goes("create", "closeWrite")
  /\ handles' = handles \cup {"hProcess", "hThread"}
  /\ cpc' = "write" /\ unwritten' = size[i]
  /\ nuls' \in SUBSET (1..size[i])
  /\ spoiled' = IF nuls' = {} THEN spoiled ELSE spoiled \cup {i}
  /\ UNCHANGED <<maxThreads, size, i, resultData, results, pipe, failed, died>>

(* Mutated form: one end of the pipe stays open. *)
CreateProcessFailsOpen ==
  /\ ppc = "create"
  /\ NextProcess
  /\ handles' = handles \ {"readPipe"}
  /\ failed' = failed \cup {i}
  /\ UNCHANGED <<maxThreads, size, resultData, results, pipe, childVars, died>>

CreateProcessFails ==
  /\ ppc = "create"
  /\ NextProcess
  /\ handles' = handles \ {"readPipe", "writePipe"}
  /\ failed' = failed \cup {i}
  /\ UNCHANGED <<maxThreads, size, resultData, results, pipe, childVars, died>>

(* Mutated form: the parent keeps its handle of the write end. *)
KeepWrite ==
  /\ Goes("closeWrite", "wait")
  /\ UNCHANGED <<maxThreads, size, i, resultData, results, handles, pipe, childVars, failed, died>>

CloseWrite ==
  /\ Goes("closeWrite", "wait")
  /\ handles' = handles \ {"writePipe"}
  /\ UNCHANGED <<maxThreads, size, i, resultData, results, pipe, childVars, failed, died>>

ChildEnded == cpc \in {"exited", "dead"}

WaitForSingleObject ==
  /\ ChildEnded /\ Goes("wait", "read")
  /\ resultData' = {}
  /\ UNCHANGED <<maxThreads, size, i, results, handles, pipe, childVars, failed, died>>

BytesRead == IF pipe < BufferSize THEN pipe ELSE BufferSize

(* The units that have been read before, and those that the next read returns.*)
Taken  == size[i] - unwritten - pipe
Buffer == (Taken + 1)..(Taken + BytesRead)

(* resultData += buffer takes the buffer as a C string: up to its first NUL.  *)
CString == {u \in Buffer : \A n \in nuls \cap Buffer : u < n}

(* Mutated form: one read is taken for the whole result. *)
ReadOnce ==
  /\ pipe > 0 /\ Goes("read", "merge")
  /\ resultData' = CString
  /\ UNCHANGED <<maxThreads, size, i, results, handles, pipe, childVars, failed, died>>

ReadFile ==
  /\ ppc = "read" /\ pipe > 0
  /\ resultData' = resultData \cup CString
  /\ pipe' = pipe - BytesRead
  /\ UNCHANGED <<maxThreads, size, ppc, i, results, handles, childVars, failed, died>>

(* ReadFile fails when the pipe is empty and all handles of its other end are *)
(* closed; the child's was closed when it ended.                              *)
BrokenPipe ==
  /\ pipe = 0 /\ "writePipe" \notin handles
  /\ Goes("read", "merge")
  /\ UNCHANGED <<maxThreads, size, i, resultData, results, handles, pipe, childVars, failed, died>>

Whole == resultData = 1..size[i]

(* The exit code of the child is not looked at. Data of which something is    *)
(* missing is read as another result, or makes std::stoull or std::stoi throw,*)
(* as they do without any; nothing catches that.                              *)
Merge ==
  /\ ppc = "merge" /\ resultData # {}
  /\ results' = Append(results, [process |-> i, whole |-> Whole])
  /\ NextProcess
  /\ handles' = handles \ {"hProcess", "hThread", "readPipe"}
  /\ UNCHANGED <<maxThreads, size, resultData, pipe, childVars, failed, died>>

MergeThrows ==
  /\ Goes("merge", "aborted") /\ ~Whole
  /\ UNCHANGED <<maxThreads, size, i, resultData, results, handles, pipe, childVars, failed, died>>

Return ==
  /\ i = p /\ Goes("loop", "gone")
  /\ UNCHANGED <<maxThreads, size, i, resultData, results, handles, pipe, childVars, failed, died>>

ParentStep ==
  \/ DivideFiles \/ CreatePipe \/ CreatePipeFails \/ CreateProcess \/ CreateProcessFails
  \/ CloseWrite \/ WaitForSingleObject \/ ReadFile \/ BrokenPipe
  \/ Merge \/ MergeThrows \/ Return

-------------------------------------------------------------------------------
(* The child.                                                                 *)

ChildWrites ==
  /\ cpc = "write" /\ unwritten > 0 /\ pipe < PipeCapacity
  /\ pipe' = pipe + 1 /\ unwritten' = unwritten - 1
  /\ UNCHANGED <<maxThreads, size, parentVars, cpc, nuls, failed, died, spoiled>>

ChildExits ==
  /\ cpc = "write" /\ unwritten = 0
  /\ cpc' = "exited"
  /\ UNCHANGED <<maxThreads, size, parentVars, pipe, unwritten, nuls, failed, died, spoiled>>

(* The child can end at any time, before it has written all. *)
ChildDies ==
  /\ cpc = "write"
  /\ cpc' = "dead"
  /\ died' = died \cup {i}
  /\ UNCHANGED <<maxThreads, size, parentVars, pipe, unwritten, nuls, failed, spoiled>>

ChildStep == ChildWrites \/ ChildExits

(* A child that has filled the pipe and a parent that waits for its end. *)
Stuck == ppc = "wait" /\ cpc = "write" /\ unwritten > 0 /\ pipe = PipeCapacity

Ended == ppc \in {"gone", "killed", "aborted"}

Next == ParentStep \/ ChildStep \/ ChildDies \/ ((Ended \/ Stuck) /\ UNCHANGED vars)

(* Both processes run; nothing need kill the child.                           *)
Spec == Init /\ [][Next]_vars /\ WF_vars(ParentStep) /\ WF_vars(ChildStep)

-------------------------------------------------------------------------------
Reported == {results[k].process : k \in 1..Len(results)}

TypeOK ==
  /\ maxThreads \in ThreadChoices /\ size \in [0..(NumFiles - 1) -> 1..MaxSize]
  /\ ppc \in {"divide", "loop", "create", "closeWrite", "wait", "read", "merge",
              "gone", "killed", "aborted"}
  /\ i \in 0..p /\ resultData \in SUBSET (1..MaxSize)
  /\ handles \subseteq {"readPipe", "writePipe", "hProcess", "hThread"}
  /\ pipe \in 0..PipeCapacity
  /\ cpc \in {"none", "write", "exited", "dead"} /\ unwritten \in 0..MaxSize
  /\ nuls \in SUBSET (1..MaxSize)
  /\ Reported \cup failed \cup died \cup spoiled \subseteq 0..(p - 1)

(* What a turn of the loop opens it closes, on each of its ways to the next:  *)
(* both ends of the pipe, the process and its thread; none of an earlier pipe *)
(* is there for a child to inherit, and no earlier child runs.                *)
NoHandleLeft == ppc \in {"loop", "gone"} => handles = {} /\ cpc # "write"

(* Waiting before reading, and reading in pieces, loses nothing of what the   *)
(* pipe could take: a result is short, or the program aborts, only if the     *)
(* child was killed or a NUL in its output cut a piece.                       *)
ShortOnlyIfDiedOrNul ==
  /\ \A k \in 1..Len(results) : ~results[k].whole => results[k].process \in died \cup spoiled
  /\ ppc = "aborted" => i \in died \cup spoiled

Report == INSTANCE BatchReport WITH
  numFiles  <- NumFiles,
  reported  <- [k \in 1..Len(results) |-> Group(results[k].process)],
  dropped   <- UNION {Group(k) : k \in failed},
  accounted <- IF p = 0 THEN 0 ELSE startIdx(NumFiles, p, i),
  returned  <- (ppc = "gone")

(* Groups are reported or dropped in the order of the files, each once.       *)
ReportSpec == Report!SafetySpec

(* The call ends if the output of each child fits in the pipe: only that can  *)
(* keep parent and child waiting for each other.                              *)
CallReturns ==
  p > 0 /\ (\A k \in 0..(p - 1) : size[k] <= PipeCapacity) => <>(ppc \in {"gone", "aborted"})
================================================================================
