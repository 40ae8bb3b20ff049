----------------------------- MODULE SharedMemory -----------------------------
(***************************************************************************)
(* Lines left in shared memory: IPC/day1/01shmget.cpp reads them from      *)
(* stdin straight into the segment, 02shmrv.cpp prints the segment over    *)
(* and over until it holds quit, and then removes it. Nothing synchronizes *)
(* them: the segment changes cell by cell while it is compared cell by     *)
(* cell, and torn records that a comparison overlaps a change. The segment *)
(* outlives the programs; one that was removed serves those that are still *)
(* attached to it, of which there is only a writer.                        *)
(***************************************************************************)
EXTENDS Naturals, Sequences

CONSTANTS
  Texts,     (* the lines that are typed, of one or two cells                  *)
  MaxRuns,   (* how often each program is started                              *)
  MaxTyped   (* how many lines are typed                                       *)

quit == <<"qu", "it">>
End  == "nul"

MemoryAssumption ==
  /\ quit \in Texts
  /\ \A line \in Texts :
       line \in Seq(STRING) /\ Len(line) <= 2 /\ \A k \in DOMAIN line : line[k] # End

VARIABLES
  cells,     (* what the segment of the key holds                             *)
  writer,    (* where the writer is                                           *)
  attached,  (* whether it is attached to this segment, not one removed since *)
  text,      (* the line it is storing, with newline and terminator           *)
  at,        (* how many cells of it have been stored                         *)
  stored,    (* the last line stored whole in the segment                     *)
  left,      (* how many lines will still be typed at most                    *)
  reader,    (* where the reader is                                           *)
  same,      (* how many cells it has found to be those of quit               *)
  torn,
  leftOn,    (* the last line stored when it left its loop                    *)
  runs       (* how often each program will still be started at most          *)

memoryVars ==
  <<cells, writer, attached, text, at, stored, left, reader, same, torn, leftOn, runs>>

Zeros == [i \in 1..4 |-> End]

Init ==
  /\ cells = Zeros /\ stored = <<>> /\ leftOn = <<>>
  /\ writer = "off" /\ attached = FALSE /\ text = <<>> /\ at = 0 /\ left = MaxTyped
  /\ reader = "off" /\ same = 0 /\ torn = FALSE
  /\ runs = [p \in {"writer", "reader"} |-> MaxRuns]

(* shmget(key, IPC_CREAT) and shmat by program p; a new segment is zero.      *)
Attach(p) == runs[p] > 0 /\ runs' = [runs EXCEPT ![p] = @ - 1]

-------------------------------------------------------------------------------
(* 01shmget.cpp                                                               *)

StartWriter ==
  /\ writer = "off" /\ Attach("writer")
  /\ writer' = "prompt" /\ attached' = TRUE
  /\ UNCHANGED <<cells, text, at, stored, left, reader, same, torn, leftOn>>

TypeLine ==
  /\ writer = "prompt" /\ left > 0
  /\ \E line \in Texts : text' = line \o <<"newline", End>>
  /\ writer' = "store" /\ at' = 0 /\ left' = left - 1
  /\ stored' = IF attached THEN <<>> ELSE stored
  /\ UNCHANGED <<cells, attached, reader, same, torn, leftOn, runs>>

(* Changes to a segment that was removed concern nobody. *)
Store(i, cell) ==
  /\ cells' = IF attached THEN [cells EXCEPT ![i] = cell] ELSE cells
  /\ torn' = (torn \/ (attached /\ same > 0))

(* fgets *)
StoreCell ==
  /\ writer = "store" /\ at < Len(text)
  /\ at' = at + 1 /\ Store(at + 1, text[at + 1])
  /\ UNCHANGED <<writer, attached, text, stored, left, reader, same, leftOn, runs>>

(* addr[strlen(addr)-1]=0, and the writer leaves after quit. *)
StripNewline ==
  /\ writer = "store" /\ at = Len(text)
  /\ Store(Len(text) - 1, End)
  /\ writer' = IF text = quit \o <<"newline", End>> THEN "off" ELSE "prompt"
  /\ stored' = IF attached THEN SubSeq(text, 1, Len(text) - 2) ELSE stored
  /\ UNCHANGED <<attached, text, at, left, reader, same, leftOn, runs>>

WriterDies ==
  /\ writer \in {"prompt", "store"} /\ writer' = "off"
  /\ UNCHANGED <<cells, attached, text, at, stored, left, reader, same, torn, leftOn, runs>>

-------------------------------------------------------------------------------
(* 02shmrv.cpp                                                                *)

StartReader ==
  /\ reader = "off" /\ Attach("reader")
  /\ reader' = "strcmp" /\ same' = 0 /\ torn' = FALSE /\ leftOn' = <<>>
  /\ UNCHANGED <<cells, writer, attached, text, at, stored, left>>

Storing == writer = "store" /\ attached

(* What strcmp compares with. *)
Pattern == Append(quit, End)

(* strcmp(addr,"quit"), one cell; a difference starts the loop again. *)
CompareCell ==
  /\ reader = "strcmp"
  /\ LET equal == cells[same + 1] = Pattern[same + 1] IN
     /\ same' = IF equal THEN same + 1 ELSE 0
     /\ reader' = IF equal /\ same + 1 = Len(Pattern) THEN "shmctl" ELSE "strcmp"
     /\ torn' = (equal /\ ((same > 0 /\ torn) \/ Storing))
     /\ leftOn' = IF reader' = "shmctl" THEN stored ELSE <<>>
  /\ UNCHANGED <<cells, writer, attached, text, at, stored, left, runs>>

(* shmctl(shmid, IPC_RMID) *)
RemoveSegment ==
  /\ reader = "shmctl"
  /\ cells' = Zeros /\ stored' = <<>>
  /\ reader' = "off" /\ same' = 0 /\ torn' = FALSE /\ leftOn' = <<>>
  /\ attached' = FALSE
  /\ UNCHANGED <<writer, text, at, left, runs>>

ReaderDies ==
  /\ reader \in {"strcmp", "shmctl"} /\ reader' = "off" /\ same' = 0 /\ torn' = FALSE /\ leftOn' = <<>>
  /\ UNCHANGED <<cells, writer, attached, text, at, stored, left, runs>>

Next ==
  \/ StartWriter \/ TypeLine \/ StoreCell \/ StripNewline \/ WriterDies
  \/ StartReader \/ CompareCell \/ RemoveSegment \/ ReaderDies

(* Programs run; users need not type. *)
Fairness ==
  /\ WF_memoryVars(StoreCell \/ StripNewline)
  /\ WF_memoryVars(CompareCell \/ RemoveSegment)

-------------------------------------------------------------------------------
(* The reader leaves only when the last line stored in the segment, by this   *)
(* run of the writer or an earlier one, is quit. It may find a quit that      *)
(* nobody typed if the line changed while it was compared, or if a writer was *)
(* killed while it stored a line (nothing is stored whole then).              *)
LeavesOnlyOnQuit == reader = "shmctl" /\ ~torn => leftOn \in {quit, <<>>}

(* quit ends a reader that is attached, unless another writer overwrites it.  *)
QuitIsHeeded == stored = quit /\ reader = "strcmp" ~> reader # "strcmp" \/ stored # quit
===============================================================================
