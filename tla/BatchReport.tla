----------------------------- MODULE BatchReport -----------------------------
(***************************************************************************)
(* What a run of FileProcessor promises of its results, whichever mode     *)
(* computes them (processFilesWithThreads or processFilesWithProcesses):   *)
(* the files of fileList, numbered 1..numFiles, are accounted for from the *)
(* first to the last in consecutive groups; a group is reported as one     *)
(* entry of results, or dropped as a whole; the call returns when no file  *)
(* is left. Nothing is reported twice, out of order, or after a later one. *)
(***************************************************************************)
EXTENDS Naturals, Sequences

VARIABLES
  numFiles,   (* how many files the list has                                *)
  reported,   (* the groups of results, in its order: sets of file numbers  *)
  dropped,    (* the files whose statistics never reach results             *)
  accounted,  (* how many files have been accounted for                     *)
  returned

vars == <<numFiles, reported, dropped, accounted, returned>>

Init ==
  /\ numFiles \in Nat
  /\ reported = <<>>
  /\ dropped = {}
  /\ accounted = 0
  /\ returned = FALSE

Report(last) ==
  /\ ~returned
  /\ reported' = Append(reported, (accounted + 1)..last)
  /\ accounted' = last
  /\ UNCHANGED <<numFiles, dropped, returned>>

Drop(last) ==
  /\ ~returned
  /\ dropped' = dropped \cup (accounted + 1)..last
  /\ accounted' = last
  /\ UNCHANGED <<numFiles, reported, returned>>

Return ==
  /\ ~returned
  /\ accounted = numFiles
  /\ returned' = TRUE
  /\ UNCHANGED <<numFiles, reported, dropped, accounted>>

Next ==
  \/ \E last \in (accounted + 1)..numFiles : Report(last) \/ Drop(last)
  \/ Return

SafetySpec == Init /\ [][Next]_vars

Spec == SafetySpec /\ WF_vars(Next)

-------------------------------------------------------------------------------
InReport == UNION {reported[k] : k \in 1..Len(reported)}

(* The variables hold groups of files of the list. *)
TypeOK ==
  /\ numFiles \in Nat
  /\ reported \in Seq(SUBSET (1..numFiles))
  /\ dropped \in SUBSET (1..numFiles)
  /\ accounted \in 0..numFiles
  /\ returned \in BOOLEAN

(* The entries of results are disjoint and in the order of fileList. *)
GroupsAscend ==
  \A k, l \in 1..Len(reported) :
    k < l => \A i \in reported[k], j \in reported[l] : i < j

(* Every file accounted for is in the report or dropped, and not both; so    *)
(* when the call returns each file of the list is one or the other.          *)
EveryFileOnce ==
  /\ InReport \cup dropped = 1..accounted
  /\ InReport \cap dropped = {}
  /\ returned => accounted = numFiles
===============================================================================
