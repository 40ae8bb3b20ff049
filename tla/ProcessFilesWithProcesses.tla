---------------------- MODULE ProcessFilesWithProcesses ----------------------
(***************************************************************************)
(* FileProcessor::processFilesWithProcesses, the POSIX branch              *)
(* (mynewcode/file_processor.cpp), with IPC::serializeFileStats and        *)
(* deserializeFileStats (mynewcode/ipc.cpp): for each group of files the   *)
(* parent makes a pipe, forks a child, reads the child's serialized result *)
(* until end of file, reaps the child and appends the result to results.   *)
(*                                                                         *)
(* Files are numbered 1..NumFiles. A serialized FileStats is a sequence of *)
(* tokens: the five numeric lines as one header, and for each word its     *)
(* line and its count. A read may end inside a word, so that its line is   *)
(* three tokens: the front, one character, which may be a NUL, the rest.   *)
(***************************************************************************)
EXTENDS Partition, Sequences, FiniteSets, Functions, SequencesExt

CONSTANTS
  NumFiles,
  ThreadChoices,  (* the values of maxThreads that are tried                  *)
  Words,          (* the words of the files                                   *)
  NulWords,       (* those with a NUL character in them                       *)
  Directories,    (* the contents that are tried: how often each file has     *)
                  (* each word                                                *)
  PipeCapacity,   (* how many tokens a pipe holds                             *)
  BufferSize      (* how many tokens one read returns at most                 *)

Files == 1..NumFiles

ASSUME ProcessesAssumption ==
  /\ NumFiles \in Nat \ {0}     \* main returns when setDirectory finds no file
  /\ ThreadChoices \in SUBSET Nat
  /\ IsFiniteSet(Words) /\ NulWords \subseteq Words
  /\ Directories \subseteq [Files -> [Words -> Nat]]
  /\ PipeCapacity \in Nat \ {0}
  /\ BufferSize \in Nat \ {0}

VARIABLES
  maxThreads,
  Freq,        (* Freq[f][w]: how often file f contains word w                *)
  onDisk,      (* the files that can still be opened                          *)
  ppc,         (* where the parent is                                         *)
  i,           (* its loop counter: the process it is working on              *)
  resultData,
  results,
  pipe,        (* the tokens in the pipe                                      *)
  readers,     (* the processes that hold pipefd[0] open, and pipefd[1]       *)
  writers,
  cpc,         (* where the child is                                          *)
  next,        (* the next file it counts                                     *)
  combined,    (* combinedStats.wordFrequency                                 *)
  unsent,      (* the tokens its write has not put in the pipe yet            *)
  opened,      (* history: the files that could be opened when counted        *)
  failed       (* history: the processes whose pipe, fork or child failed     *)

parentVars  == <<ppc, i, resultData, results>>
pipeVars    == <<pipe, readers, writers>>
childVars   == <<cpc, next, combined, unsent>>
historyVars == <<opened, failed>>
vars == <<maxThreads, Freq, onDisk, parentVars, pipeVars, childVars, historyVars>>

p == numProcesses(maxThreads, NumFiles)

first(k) == startIdx(NumFiles, p, k) + 1
last(k)  == endIdx(NumFiles, p, k)
Group(k) == first(k)..last(k)

Nothing == [w \in Words |-> 0]

-------------------------------------------------------------------------------
(* The FileStats on the wire.                                                 *)

(* The words of a std::map come in an order of their own, whichever it is.    *)
serializeFileStats(freq) ==
  LET order == SetToSeq({w \in Words : freq[w] > 0})
      Entry(w) == <<[kind |-> "front"],
                    [kind |-> IF w \in NulWords THEN "nul" ELSE "middle"],
                    [kind |-> "word", word |-> w],
                    [kind |-> "count", n |-> freq[w]]>>
  IN <<[kind |-> "header", words |-> SumFunction(freq), entries |-> Len(order)]>>
       \o [k \in 1..(4 * Len(order)) |-> Entry(order[1 + (k - 1) \div 4])[1 + ((k - 1) % 4)]]

(* Mutated form: the chunk replaces what was read before. *)
AppendChunkReplaces(data, chunk) == chunk

(* resultData += buffer takes the buffer as a C string: up to its first NUL. *)
AppendChunk(data, chunk) ==
  LET nul == SelectInSeq(chunk, LAMBDA tok : tok.kind = "nul")
  IN data \o (IF nul = 0 THEN chunk ELSE SubSeq(chunk, 1, nul - 1))

EndsLine(tok) == tok.kind \in {"header", "word", "count"}

(* A header and two lines per entry. When a line is missing, the last count  *)
(* read by deserializeFileStats is an empty string and std::stoi throws.     *)
Parses(data) ==
  /\ data # <<>> /\ data[1].kind = "header"
  /\ Cardinality({k \in 1..Len(data) : EndsLine(data[k])}) >= 1 + 2 * data[1].entries

(* A word whose NUL was cut from a chunk, but whose end came in the next one,*)
(* is read as another word.                                                  *)
deserializeFileStats(data) ==
  LET At(w) == {k \in 1..Len(data) : data[k].kind = "word" /\ data[k].word = w}
  IN [wordCount |-> data[1].words,
      wordFrequency |-> [w \in Words |->
        IF At(w) = {} THEN 0 ELSE data[(CHOOSE k \in At(w) : TRUE) + 1].n],
      spliced |-> {w \in NulWords : At(w) # {}}]

-------------------------------------------------------------------------------
Init ==
  /\ maxThreads \in ThreadChoices
  /\ Freq \in Directories
  /\ onDisk = Files
  /\ ppc = "divide" /\ i = 0 /\ resultData = <<>> /\ results = <<>>
  /\ pipe = <<>> /\ readers = {} /\ writers = {}
  /\ cpc = "none" /\ next = 0 /\ combined = Nothing /\ unsent = <<>>
  /\ opened = {} /\ failed = {}

(* The directory changes under the program. *)
RemoveFile(f) ==
  /\ f \in onDisk
  /\ onDisk' = onDisk \ {f}
  /\ UNCHANGED <<maxThreads, Freq, parentVars, pipeVars, childVars, historyVars>>

(* numFiles / numProcesses: an integer division by zero kills the program.   *)
DivideFiles ==
  /\ ppc = "divide"
  /\ ppc' = IF p = 0 THEN "killed" ELSE "loop"
  /\ UNCHANGED <<maxThreads, Freq, onDisk, i, resultData, results, pipeVars, childVars, historyVars>>

CreatePipe ==
  /\ ppc = "loop" /\ i < p
  /\ ppc' = "fork"
  /\ pipe' = <<>> /\ readers' = {"parent"} /\ writers' = {"parent"}
  /\ UNCHANGED <<maxThreads, Freq, onDisk, i, resultData, results, childVars, historyVars>>

NextProcess ==
  /\ ppc' = "loop"
  /\ i' = i + 1

(* pipe() fails: continue *)
PipeFails ==
  /\ ppc = "loop" /\ i < p
  /\ NextProcess
  /\ failed' = failed \cup {i}
  /\ UNCHANGED <<maxThreads, Freq, onDisk, resultData, results, pipeVars, childVars, opened>>

(* Mutated form: only the end that the parent reads from is closed. *)
ForkFailsLeaks ==
  /\ ppc = "fork"
  /\ readers' = readers \ {"parent"}
  /\ NextProcess
  /\ failed' = failed \cup {i}
  /\ UNCHANGED <<maxThreads, Freq, onDisk, resultData, results, pipe, writers, childVars, opened>>

(* fork() fails: both ends are closed; continue *)
ForkFails ==
  /\ ppc = "fork"
  /\ readers' = readers \ {"parent"} /\ writers' = writers \ {"parent"}
  /\ NextProcess
  /\ failed' = failed \cup {i}
  /\ UNCHANGED <<maxThreads, Freq, onDisk, resultData, results, pipe, childVars, opened>>

(* The child starts with copies of both ends. *)
Fork ==
  /\ ppc = "fork"
  /\ ppc' = "closeWrite"
  /\ cpc' = "start"
  /\ readers' = readers \cup {"child"} /\ writers' = writers \cup {"child"}
  /\ UNCHANGED <<maxThreads, Freq, onDisk, i, resultData, results, pipe,
                 next, combined, unsent, historyVars>>

-------------------------------------------------------------------------------
(* The child process.                                                         *)

ChildStarts ==
  /\ cpc = "start"
  /\ cpc' = "count"
  /\ readers' = readers \ {"child"}
  /\ next' = first(i)
  /\ combined' = Nothing
  /\ UNCHANGED <<maxThreads, Freq, onDisk, parentVars, pipe, writers, unsent, historyVars>>

MoreFiles == next <= last(i)

(* Mutated form: the counts of a file replace those of the files before it.  *)
CountFileOverwrites ==
  /\ cpc = "count" /\ MoreFiles
  /\ next' = next + 1
  /\ combined' = IF next \in onDisk THEN Freq[next] ELSE combined
  /\ opened' = opened \cup ({next} \cap onDisk)
  /\ UNCHANGED <<maxThreads, Freq, onDisk, parentVars, pipeVars, cpc, unsent, failed>>

(* processFile yields empty statistics for a file it cannot open. *)
CountFile ==
  /\ cpc = "count" /\ MoreFiles
  /\ next' = next + 1
  /\ combined' = IF next \in onDisk
                 THEN [w \in Words |-> combined[w] + Freq[next][w]] ELSE combined
  /\ opened' = opened \cup ({next} \cap onDisk)
  /\ UNCHANGED <<maxThreads, Freq, onDisk, parentVars, pipeVars, cpc, unsent, failed>>

Serialize ==
  /\ cpc = "count" /\ ~MoreFiles
  /\ cpc' = "write"
  /\ unsent' = serializeFileStats(combined)
  /\ UNCHANGED <<maxThreads, Freq, onDisk, parentVars, pipeVars, next, combined, historyVars>>

(* write() copies what the pipe has room for and blocks while it has none.   *)
ChildWrites ==
  /\ cpc = "write" /\ unsent # <<>> /\ Len(pipe) < PipeCapacity
  /\ pipe' = Append(pipe, Head(unsent))
  /\ unsent' = Tail(unsent)
  /\ UNCHANGED <<maxThreads, Freq, onDisk, parentVars, readers, writers,
                 cpc, next, combined, historyVars>>

ChildClosesWrite ==
  /\ cpc = "write" /\ unsent = <<>>
  /\ cpc' = "exit"
  /\ writers' = writers \ {"child"}
  /\ UNCHANGED <<maxThreads, Freq, onDisk, parentVars, pipe, readers,
                 next, combined, unsent, historyVars>>

ChildExits ==
  /\ cpc = "exit"
  /\ cpc' = "exited"
  /\ UNCHANGED <<maxThreads, Freq, onDisk, parentVars, pipeVars, next, combined, unsent, historyVars>>

(* A signal or an uncaught exception ends the child at any point; the kernel *)
(* closes its ends of the pipe.                                              *)
ChildDies ==
  /\ cpc \in {"start", "count", "write", "exit"}
  /\ cpc' = "dead"
  /\ readers' = readers \ {"child"} /\ writers' = writers \ {"child"}
  /\ unsent' = <<>>
  /\ failed' = failed \cup {i}
  /\ UNCHANGED <<maxThreads, Freq, onDisk, parentVars, pipe, next, combined, opened>>

ChildStep ==
  \/ ChildStarts \/ CountFile \/ Serialize
  \/ ChildWrites \/ ChildClosesWrite \/ ChildExits

-------------------------------------------------------------------------------
(* The parent, after the fork.                                                *)

(* Mutated form: the parent keeps its copy of the write end. *)
ParentKeepsWrite ==
  /\ ppc = "closeWrite"
  /\ ppc' = "read"
  /\ resultData' = <<>>
  /\ UNCHANGED <<maxThreads, Freq, onDisk, i, results, pipeVars, childVars, historyVars>>

ParentClosesWrite ==
  /\ ppc = "closeWrite"
  /\ ppc' = "read"
  /\ writers' = writers \ {"parent"}
  /\ resultData' = <<>>
  /\ UNCHANGED <<maxThreads, Freq, onDisk, i, results, pipe, readers, childVars, historyVars>>

(* read() returns what is there, up to the size of the buffer; it blocks     *)
(* while the pipe is empty and a writer is left.                             *)
ParentReads ==
  /\ ppc = "read" /\ pipe # <<>>
  /\ LET n == IF Len(pipe) < BufferSize THEN Len(pipe) ELSE BufferSize IN
       /\ resultData' = AppendChunk(resultData, SubSeq(pipe, 1, n))
       /\ pipe' = SubSeq(pipe, n + 1, Len(pipe))
  /\ UNCHANGED <<maxThreads, Freq, onDisk, ppc, i, results, readers, writers, childVars, historyVars>>

(* read() returns 0: close(pipefd[0]) *)
ParentSeesEof ==
  /\ ppc = "read" /\ pipe = <<>> /\ writers = {}
  /\ ppc' = "wait"
  /\ readers' = readers \ {"parent"}
  /\ UNCHANGED <<maxThreads, Freq, onDisk, i, resultData, results, pipe, writers, childVars, historyVars>>

(* Mutated form: how the child ended is not looked at. *)
ChildSucceededUnchecked == resultData # <<>>

(* WIFEXITED && WEXITSTATUS == 0 && !resultData.empty() *)
ChildSucceeded == cpc = "exited" /\ resultData # <<>>

(* waitpid, then deserialize and mergeResults if the child succeeded. *)
WaitAndMerge ==
  /\ ppc = "wait" /\ cpc \in {"exited", "dead"}
  /\ cpc' = "none"
  /\ \/ /\ ~ChildSucceeded
        /\ NextProcess
        /\ UNCHANGED results
     \/ /\ ChildSucceeded /\ Parses(resultData)
        /\ NextProcess
        /\ results' = Append(results, [process |-> i, stats |-> deserializeFileStats(resultData)])
     \/ /\ ChildSucceeded /\ ~Parses(resultData)   \* an exception nobody catches
        /\ ppc' = "aborted"
        /\ UNCHANGED <<i, results>>
  /\ UNCHANGED <<maxThreads, Freq, onDisk, resultData, pipeVars, next, combined, unsent, historyVars>>

ReturnFromCall ==
  /\ ppc = "loop" /\ i = p
  /\ ppc' = "gone"
  /\ UNCHANGED <<maxThreads, Freq, onDisk, i, resultData, results, pipeVars, childVars, historyVars>>

ParentStep ==
  \/ DivideFiles \/ CreatePipe \/ PipeFails \/ ForkFails \/ Fork
  \/ ParentClosesWrite \/ ParentReads \/ ParentSeesEof \/ WaitAndMerge \/ ReturnFromCall

Finished == ppc \in {"gone", "killed", "aborted"} /\ UNCHANGED vars

Next ==
  \/ ParentStep \/ ChildStep \/ ChildDies
  \/ \E f \in Files : RemoveFile(f)
  \/ Finished

(* The kernel runs both processes. Nothing removes files or kills the child. *)
Fairness == WF_vars(ParentStep) /\ WF_vars(ChildStep)

SafetySpec == Init /\ [][Next]_vars
Spec == SafetySpec /\ Fairness

-------------------------------------------------------------------------------
Reported == {results[k].process : k \in 1..Len(results)}

(* The variables hold values of their types: no more in the pipe than it     *)
(* holds, and the child counts no file outside its group.                    *)
TypeOK ==
  /\ maxThreads \in ThreadChoices /\ Freq \in Directories
  /\ onDisk \subseteq Files /\ opened \subseteq Files
  /\ ppc \in {"divide", "loop", "fork", "closeWrite", "read", "wait", "gone", "killed", "aborted"}
  /\ cpc \in {"none", "start", "count", "write", "exit", "exited", "dead"}
  /\ i \in 0..p
  /\ readers \subseteq {"parent", "child"} /\ writers \subseteq {"parent", "child"}
  /\ Len(pipe) <= PipeCapacity
  /\ cpc = "count" => next \in first(i)..(last(i) + 1)
  /\ combined \in [Words -> Nat]
  /\ failed \subseteq 0..(p - 1) /\ Reported \subseteq 0..(p - 1)

(* Each turn of the loop, whichever way it ended, leaves nothing behind: no  *)
(* descriptor of a pipe is open and no child is running or unreaped.         *)
LoopHeadClean ==
  ppc \in {"loop", "gone"} => readers = {} /\ writers = {} /\ cpc = "none"

HasNul(f) == \E w \in NulWords : Freq[f][w] > 0

Faithful(k) ==
  LET files == Group(results[k].process) \cap opened
      total(w) == SumFunctionOnSet([f \in Files |-> Freq[f][w]], files)
      stats == results[k].stats
  IN /\ stats.wordFrequency = [w \in Words |-> total(w)]
     /\ stats.wordCount = SumFunction([w \in Words |-> total(w)])
     /\ stats.spliced = {}

(* An entry of results holds the words of exactly the files of its group     *)
(* that could be opened, whatever the sizes of the pieces in which it was    *)
(* written and read, if none of them has a NUL character in it.              *)
ReportedIsCounted ==
  \A k \in 1..Len(results) :
    (\A f \in Group(results[k].process) : ~HasNul(f)) => Faithful(k)

(* A group is left out exactly when its pipe or its fork failed or its child *)
(* did not exit normally, even if that child had written all of its result.  *)
FailedIsLeftOut ==
  /\ Reported \cap failed = {}
  /\ 0..(i - 1) = Reported \cup (failed \cap 0..(i - 1))

(* Every run reports or drops the groups in the order of the files, and      *)
(* returns only when it has accounted for every file once.                   *)
Report == INSTANCE BatchReport WITH
  numFiles <- NumFiles,
  reported  <- [k \in 1..Len(results) |-> Group(results[k].process)],
  dropped   <- UNION {Group(k) : k \in (0..(i - 1)) \ Reported},
  accounted <- IF p = 0 THEN 0 ELSE startIdx(NumFiles, p, i),
  returned  <- (ppc = "gone")

ReportSpec == Report!SafetySpec

(* The call returns, unless the parent dies: it and the child never wait for *)
(* each other for ever.                                                      *)
CallReturns == maxThreads > 0 => <>(ppc \in {"gone", "aborted"})

(* Only a NUL character in a file makes the parent die of an exception.      *)
AbortsOnlyOnNul ==
  ppc = "aborted" => \E f \in Group(i) \cap opened : HasNul(f)

(* What is serialized can be deserialized, and is the same then. *)
RoundTrip == ppc # "aborted" /\ \A k \in 1..Len(results) : Faithful(k)
===============================================================================
