--------------------------- MODULE FileProcessorMain ---------------------------
(***************************************************************************)
(* The program file_processor (mynewcode/main.cpp) on POSIX: main checks    *)
(* the arguments and the directory, FileProcessor::setDirectory lists the  *)
(* regular files, one of the two modes computes the results, and main       *)
(* prints and saves them. Meanwhile other programs change the directory.   *)
(* The mode is BatchReport, which ProcessFilesWithThreads and               *)
(* ProcessFilesWithProcesses implement.                                     *)
(***************************************************************************)
EXTENDS Partition, Sequences, FiniteSets

CONSTANTS
  Names,       (* what can be in the directory                               *)
  Threads,     (* the numbers of threads tried                               *)
  MaxChanges   (* how often the directory changes during a run               *)

ASSUME MainAssumption == Threads \subseteq Nat /\ MaxChanges \in Nat

Kinds == {"absent", "file", "directory"}

(* What argv[1] is the path of: the directory that opendir opens, once moved  *)
(* away perhaps another one, or no directory.                                 *)
Paths == {"this", "other", "none"}

VARIABLES
  args,        (* argv: the mode and the number of threads or processes      *)
  path,        (* what argv[1] names now                                     *)
  kind,        (* what each name in the directory is now                     *)
  steady,      (* the names that have not changed since opendir              *)
  changes,
  pc,
  unread,      (* the names that readdir can still return                    *)
  entry,       (* the name that stat is called on                            *)
  fileList,
  strayed,     (* history: the names whose stat failed, or found another file*)
  cut,         (* history: whether readdir ended with an error               *)
  reported, dropped, accounted, returned,    (* of the call of the mode      *)
  printed,     (* the groups printed by printResults                         *)
  opened,      (* whether the output file could be opened                    *)
  saved        (* the groups that were written to it                         *)

diskVars  == <<path, kind, steady, changes>>
listVars  == <<unread, entry, fileList, strayed, cut>>
batchVars == <<reported, dropped, accounted, returned>>
outVars   == <<printed, opened, saved>>
vars == <<args, diskVars, pc, listVars, batchVars, outVars>>

Batch == INSTANCE BatchReport WITH numFiles <- Len(fileList)

Init ==
  /\ args \in [mode : {"thread", "process", "other"}, threads : Threads]
  /\ path \in {"this", "none"}
  /\ kind \in [Names -> Kinds]
  /\ steady = Names /\ changes = 0
  /\ pc = "arguments"
  /\ unread = {} /\ entry = "none" /\ fileList = <<>> /\ strayed = {} /\ cut = FALSE
  /\ reported = <<>> /\ dropped = {} /\ accounted = 0 /\ returned = FALSE
  /\ printed = <<>> /\ opened = FALSE /\ saved = <<>>

Goes(from, to) == pc = from /\ pc' = to

-------------------------------------------------------------------------------
(* Other programs.                                                            *)

BeforeOpen == pc \in {"arguments", "isDirectory", "opendir"}

(* An entry is created, removed or replaced. A directory that is being read   *)
(* may or may not return a name that comes, also when it has been returned.   *)
ChangeEntry(f) ==
  /\ changes < MaxChanges
  /\ changes' = changes + 1
  /\ \E k \in Kinds \ {kind[f]} : kind' = [kind EXCEPT ![f] = k]
  /\ unread' = IF pc \in {"readdir", "stat"} THEN unread \cup {f} ELSE unread
  /\ steady' = IF BeforeOpen THEN steady ELSE steady \ {f}
  /\ UNCHANGED <<args, path, pc, entry, fileList, strayed, cut, batchVars, outVars>>

(* The directory, or one above it, is renamed, removed or put back. Until     *)
(* opendir, what is in its place is the directory that will be read.          *)
ChangeDirectory ==
  /\ changes < MaxChanges
  /\ changes' = changes + 1
  /\ path' \in Paths \ {path}
  /\ BeforeOpen => path' # "other"
  /\ UNCHANGED <<args, kind, steady, pc, listVars, batchVars, outVars>>

-------------------------------------------------------------------------------
(* main, before the mode.                                                     *)

(* There may be too few. *)
CheckArguments ==
  /\ Goes("arguments", "isDirectory") \/ Goes("arguments", "failure")
  /\ UNCHANGED <<args, diskVars, listVars, batchVars, outVars>>

(* std::stoul throws on what is not a number; nothing catches it. *)
BadNumber ==
  /\ Goes("arguments", "aborted")
  /\ UNCHANGED <<args, diskVars, listVars, batchVars, outVars>>

(* stat may fail also if the directory is there. *)
IsDirectory ==
  /\ \/ Goes("isDirectory", "opendir") /\ path = "this"
     \/ Goes("isDirectory", "failure")
  /\ UNCHANGED <<args, diskVars, listVars, batchVars, outVars>>

(* opendir fails if the directory has gone since it was checked, or for       *)
(* another reason; then nothing is listed.                                    *)
OpenDirectory ==
  /\ \/ /\ Goes("opendir", "readdir") /\ path = "this"
        /\ unread' = {f \in Names : kind[f] # "absent"}
     \/ Goes("opendir", "listed") /\ UNCHANGED unread
  /\ UNCHANGED <<args, diskVars, entry, fileList, strayed, cut, batchVars, outVars>>

ReadEntry ==
  /\ Goes("readdir", "stat")
  /\ entry' \in unread
  /\ unread' = unread \ {entry'}
  /\ UNCHANGED <<args, diskVars, fileList, strayed, cut, batchVars, outVars>>

(* Mutated form: whatever readdir returned is a file. *)
StatEntryOfAnyKind ==
  /\ Goes("stat", "readdir")
  /\ fileList' = Append(fileList, entry)
  /\ UNCHANGED <<args, diskVars, unread, entry, strayed, cut, batchVars, outVars>>

(* stat is called on the path, dirPath/name: it finds the entry, which may    *)
(* have changed since readdir, only while argv[1] is the path of the directory*)
(* that is read. Otherwise it fails, as it may at any time, or finds a name of*)
(* the directory that is there now, which is listed if it is a regular file.  *)
StatEntry ==
  /\ Goes("stat", "readdir")
  /\ \/ /\ path = "this"
        /\ fileList' = IF kind[entry] = "file" THEN Append(fileList, entry) ELSE fileList
        /\ UNCHANGED strayed
     \/ /\ \/ UNCHANGED fileList
           \/ path = "other" /\ fileList' = Append(fileList, entry)
        /\ strayed' = strayed \cup {entry}
  /\ UNCHANGED <<args, diskVars, unread, entry, cut, batchVars, outVars>>

(* readdir ends when it has returned all that has been there all the time.    *)
EndOfDirectory ==
  /\ Goes("readdir", "listed")
  /\ unread \cap steady = {}
  /\ entry' = "none"
  /\ UNCHANGED <<args, diskVars, unread, fileList, strayed, cut, batchVars, outVars>>

(* readdir returns a null pointer also on an error, which is not looked at.   *)
ReadError ==
  /\ Goes("readdir", "listed")
  /\ cut' = TRUE /\ entry' = "none"
  /\ UNCHANGED <<args, diskVars, unread, fileList, strayed, batchVars, outVars>>

(* Mutated form: an empty list is left to the mode. *)
ChooseModeUnchecked ==
  /\ pc = "listed"
  /\ pc' = IF args.mode = "other" THEN "failure" ELSE "mode"
  /\ UNCHANGED <<args, diskVars, listVars, batchVars, outVars>>

(* setDirectory returns false if it found nothing. *)
ChooseMode ==
  /\ pc = "listed"
  /\ pc' = IF fileList = <<>> \/ args.mode = "other" THEN "failure" ELSE "mode"
  /\ UNCHANGED <<args, diskVars, listVars, batchVars, outVars>>

-------------------------------------------------------------------------------
(* The call of processFilesWithThreads or processFilesWithProcesses.          *)

p == numProcesses(args.threads, Len(fileList))

(* One thread's result at a time is merged; without a thread there is none.   *)
MergeFile ==
  /\ pc = "mode" /\ args.mode = "thread" /\ args.threads > 0
  /\ accounted < Len(fileList)
  /\ UNCHANGED <<args, diskVars, pc, listVars, outVars>>
  /\ Batch!Report(accounted + 1)

(* The group of one child is merged, or left out if anything failed. *)
MergeGroup ==
  /\ pc = "mode" /\ args.mode = "process" /\ p > 0
  /\ accounted < Len(fileList)
  /\ UNCHANGED <<args, diskVars, pc, listVars, outVars>>
  /\ \E i \in 0..(p - 1) :
       /\ accounted = startIdx(Len(fileList), p, i)
       /\ \/ Batch!Report(endIdx(Len(fileList), p, i))
          \/ Batch!Drop(endIdx(Len(fileList), p, i))

(* A NUL character in a file: std::stoi throws in the parent. *)
ModeAborts ==
  /\ pc = "mode" /\ args.mode = "process" /\ p > 0 /\ ~returned
  /\ accounted < Len(fileList)
  /\ pc' = "aborted"
  /\ UNCHANGED <<args, diskVars, listVars, batchVars, outVars>>

DivideByZero ==
  /\ pc = "mode" /\ args.mode = "process" /\ p = 0
  /\ pc' = "killed"
  /\ UNCHANGED <<args, diskVars, listVars, batchVars, outVars>>

ModeReturns ==
  /\ pc = "mode" /\ (args.mode = "process" => p > 0)
  /\ pc' = "print"
  /\ UNCHANGED <<args, diskVars, listVars, outVars>>
  /\ Batch!Return

-------------------------------------------------------------------------------
(* main, after the mode.                                                      *)

(* Mutated form: the first entry is printed again and again. *)
PrintFirst ==
  /\ pc = "print" /\ Len(printed) < Len(reported)
  /\ printed' = Append(printed, reported[1])
  /\ UNCHANGED <<args, diskVars, pc, listVars, batchVars, opened, saved>>

PrintEntry ==
  /\ pc = "print" /\ Len(printed) < Len(reported)
  /\ printed' = Append(printed, reported[Len(printed) + 1])
  /\ UNCHANGED <<args, diskVars, pc, listVars, batchVars, opened, saved>>

(* The name of an output file may be among the arguments or not. *)
EndOfResults ==
  /\ Goes("print", "save") \/ Goes("print", "success")
  /\ Len(printed) = Len(reported)
  /\ UNCHANGED <<args, diskVars, listVars, batchVars, outVars>>

(* The file cannot be opened, or takes only some of the entries: in each case *)
(* main says that the results were saved.                                     *)
SaveResults ==
  /\ Goes("save", "success")
  /\ \/ UNCHANGED <<opened, saved>>
     \/ opened' = TRUE /\ \E k \in 0..Len(reported) : saved' = SubSeq(reported, 1, k)
  /\ UNCHANGED <<args, diskVars, listVars, batchVars, printed>>

Ended == pc \in {"success", "failure", "aborted", "killed"}

(* Without threads the first future.get() waits for ever. *)
WaitsForThreads == pc = "mode" /\ args.mode = "thread" /\ args.threads = 0

Program ==
  \/ CheckArguments \/ BadNumber \/ IsDirectory
  \/ OpenDirectory \/ ReadEntry \/ StatEntry \/ EndOfDirectory \/ ReadError
  \/ ChooseMode
  \/ MergeFile \/ MergeGroup \/ ModeAborts \/ DivideByZero \/ ModeReturns
  \/ PrintEntry \/ EndOfResults \/ SaveResults

(* What comes after the listing does not look at the directory: what a change *)
(* does to a file of the list is in MergeFile and MergeGroup.                 *)
Next ==
  \/ Program
  \/ /\ BeforeOpen \/ pc \in {"readdir", "stat"}
     /\ ChangeDirectory \/ \E f \in Names : ChangeEntry(f)
  \/ (Ended \/ WaitsForThreads) /\ UNCHANGED vars

(* The program runs; others need not change anything. *)
Spec == Init /\ [][Next]_vars /\ WF_vars(Program)

-------------------------------------------------------------------------------
TypeOK ==
  /\ args \in [mode : {"thread", "process", "other"}, threads : Threads]
  /\ path \in Paths /\ kind \in [Names -> Kinds] /\ steady \in SUBSET Names
  /\ unread \in SUBSET Names /\ fileList \in Seq(Names)
  /\ strayed \in SUBSET Names /\ cut \in BOOLEAN
  /\ Batch!TypeOK
  /\ printed \in Seq(SUBSET (1..Len(fileList)))
  /\ saved \in Seq(SUBSET (1..Len(fileList)))
  /\ (returned <=> pc \in {"print", "save", "success"})

(* Whatever happens to the directory and its path while it is read, and      *)
(* between readdir and stat: no name that stays is listed twice. A file that *)
(* stays is listed, and what stays but is not a file is not, unless its path *)
(* no longer led to it, its stat failed, or readdir failed before it.        *)
SteadyFilesListedOnce ==
  pc \in {"mode", "print", "save", "success"} =>
    \A f \in steady :
      LET times == Cardinality({k \in DOMAIN fileList : fileList[k] = f})
      IN  /\ times <= 1
          /\ f \notin strayed /\ ~(cut /\ f \in unread) =>
               times = IF kind[f] = "file" THEN 1 ELSE 0

(* The exit status 0 means that each listed file is in exactly one of the     *)
(* entries that were printed, unless its process failed; with threads, always.*)
SuccessIsCompleteReport ==
  pc = "success" =>
    /\ \A k \in DOMAIN fileList :
         Cardinality({e \in DOMAIN printed : k \in printed[e]}) = IF k \in dropped THEN 0 ELSE 1
    /\ args.mode = "thread" => dropped = {}

(* A run with threads ends, however many groups fail, and not in the division *)
(* among processes: setDirectory and main keep an empty list from it.         *)
RunEnds == args.threads > 0 => <>(pc \in {"success", "failure", "aborted"})
================================================================================
