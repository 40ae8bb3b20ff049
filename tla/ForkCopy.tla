------------------------------- MODULE ForkCopy -------------------------------
(***************************************************************************)
(* fork/day1/08fork.cpp: a file is copied by two processes at once, the    *)
(* parent its first half and the child its second half, each with its own  *)
(* descriptors and a buffer of BufferSize bytes. The source is the         *)
(* sequence of bytes 1, 2, 3...; a byte of the destination that was never  *)
(* written, but lies before one that was, reads as a hole. A source that   *)
(* is a directory can be opened, but not read. Every write is taken to     *)
(* succeed whole: the program does not look at what write returns, and on  *)
(* a full disk it would go on with the two offsets apart.                  *)
(***************************************************************************)
EXTENDS Integers, Sequences

CONSTANTS
  Lengths,       (* how long the files to copy are                           *)
  IntSize,       (* how many values an int has: 2^32                         *)
  BufferSize,    (* sizeof(buf)                                              *)
  MaxFailures    (* bound: how many reads of a process fail                  *)

CopyAssumption ==
  /\ Lengths \subseteq Nat /\ MaxFailures \in Nat
  /\ IntSize \in Nat \ {0} /\ BufferSize \in Nat \ {0}

Processes == {"parent", "child"}
Hole == 0
Stale == -1   (* a byte that buf holds from before the last read              *)

VARIABLES
  regular,   (* the source is a file, and not a directory                    *)
  length,    (* what get_file_size returned; -1 if it could not open a file  *)
  src,       (* the source                                                   *)
  dest,      (* what was written to the destination                          *)
  pc,        (* where each process is in copyfile                            *)
  pos,       (* the offset of its two descriptors, which are always equal    *)
  buf,       (* what its last successful read returned                       *)
  sum,       (* what its reads returned, added up                            *)
  failures,  (* history: how many of its reads returned -1                   *)
  failed     (* history: the processes that could not open their files       *)

vars == <<regular, length, src, dest, pc, pos, buf, sum, failures, failed>>

(* int len=lseek(...): what is left of an off_t in an int. *)
ToInt(n) ==
  LET m == n % IntSize IN IF 2 * m < IntSize THEN m ELSE m - IntSize

(* The arguments of copyfile. C++ divides towards zero: -1/2 is 0. *)
half      == IF length < 0 THEN -((-length) \div 2) ELSE length \div 2
start(q)  == IF q = "parent" THEN 0 ELSE half
len(q)    == IF q = "parent" THEN half ELSE length - half

(* For a directory, lseek may return anything. *)
CopyInit ==
  /\ regular \in BOOLEAN
  /\ \E n \in Lengths :
       /\ src = [k \in 1..(IF regular THEN n ELSE 0) |-> k]
       /\ length \in {-1, ToInt(n)}
  /\ dest = <<>>
  /\ pos = [q \in Processes |-> 0]
  /\ buf = [q \in Processes |-> <<>>]
  /\ sum = [q \in Processes |-> 0]
  /\ failures = [q \in Processes |-> 0]
  /\ failed = {}

Init == CopyInit /\ pc = [q \in Processes |-> IF q = "parent" THEN "fork" ELSE "unborn"]

Goes(q, from, to) == pc[q] = from /\ pc' = [pc EXCEPT ![q] = to]

Fork ==
  /\ pc["parent"] = "fork"
  /\ pc' = [q \in Processes |-> "open"]
  /\ UNCHANGED <<regular, length, src, dest, pos, buf, sum, failures, failed>>

(* fork fails: the program ends, nothing is copied. *)
ForkFails ==
  /\ Goes("parent", "fork", "exited")
  /\ failed' = Processes
  /\ UNCHANGED <<regular, length, src, dest, pos, buf, sum, failures>>

(* lseek to a negative offset fails, and leaves the file at its beginning. *)
offset(q) == IF start(q) < 0 THEN 0 ELSE start(q)

(* open and lseek on both files, whatever get_file_size returned. *)
Open(q) ==
  /\ Goes(q, "open", "read")
  /\ pos' = [pos EXCEPT ![q] = offset(q)]
  /\ UNCHANGED <<regular, length, src, dest, buf, sum, failures, failed>>

Returns(q) == IF q = "parent" THEN "wait" ELSE "exited"

OpenFails(q) ==
  /\ Goes(q, "open", Returns(q))
  /\ failed' = failed \cup {q}
  /\ UNCHANGED <<regular, length, src, dest, pos, buf, sum, failures>>

Available(q) == Len(src) - pos[q]

(* read, and sum += res *)
Read(q) ==
  /\ regular
  /\ Goes(q, "read", "write")
  /\ LET res == IF Available(q) < BufferSize THEN Available(q) ELSE BufferSize IN
       /\ buf' = [buf EXCEPT ![q] = SubSeq(src, pos[q] + 1, pos[q] + res)]
       /\ sum' = [sum EXCEPT ![q] = @ + res]
  /\ UNCHANGED <<regular, length, src, dest, pos, failures, failed>>

(* read returns -1, which is added to sum like any other result. The write of *)
(* a negative number of bytes fails, and the loop goes round unless sum is    *)
(* not below len. A directory fails so for ever: from MaxFailures on, nothing *)
(* that the model looks at changes.                                           *)
ReadFails(q) ==
  /\ failures[q] < MaxFailures
  /\ Goes(q, "read", IF sum[q] - 1 >= len(q) THEN Returns(q) ELSE "read")
  /\ sum' = [sum EXCEPT ![q] = @ - 1]
  /\ failures' = [failures EXCEPT ![q] = @ + 1]
  /\ UNCHANGED <<regular, length, src, dest, pos, buf, failed>>

Done(q) == buf[q] = <<>> \/ sum[q] >= len(q)

(* Mutated form: the loop is left before the last buffer is written. *)
ToWriteLoses(q) == IF Done(q) THEN 0 ELSE Len(buf[q])

(* The last write is cut to the share of the process. After failed reads it   *)
(* may be longer than what was read; when it is negative it fails.            *)
ToWrite(q) == IF Done(q) THEN Len(buf[q]) - (sum[q] - len(q)) ELSE Len(buf[q])

Bytes(q) == [k \in 1..ToWrite(q) |-> IF k <= Len(buf[q]) THEN buf[q][k] ELSE Stale]

(* Mutated form: the descriptors of the two processes share their offset. *)
WriteAppends(q) == Len(dest)

WriteAt(q) == pos[q]

(* d with the bytes s written at offset at; a gap before them is a hole. *)
Written(d, at, s) ==
  [k \in 1..(IF s # <<>> /\ at + Len(s) > Len(d) THEN at + Len(s) ELSE Len(d)) |->
     IF k \in (at + 1)..(at + Len(s)) THEN s[k - at]
     ELSE IF k <= Len(d) THEN d[k] ELSE Hole]

Write(q) ==
  /\ Goes(q, "write", IF Done(q) THEN Returns(q) ELSE "read")
  /\ dest' = Written(dest, WriteAt(q), Bytes(q))
  /\ pos' = [pos EXCEPT ![q] = @ + Len(buf[q])]
  /\ UNCHANGED <<regular, length, src, buf, sum, failures, failed>>

(* wait(NULL), whatever the child's status. *)
Wait ==
  /\ pc["child"] = "exited"
  /\ Goes("parent", "wait", "exited")
  /\ UNCHANGED <<regular, length, src, dest, pos, buf, sum, failures, failed>>

Exited == pc["parent"] = "exited" /\ UNCHANGED vars

Step(q) == Open(q) \/ OpenFails(q) \/ Read(q) \/ ReadFails(q) \/ Write(q)

Next == Fork \/ ForkFails \/ Wait \/ Exited \/ \E q \in Processes : Step(q)

Fairness == WF_vars(Fork \/ Wait) /\ \A q \in Processes : WF_vars(Step(q))

Spec == Init /\ [][Next]_vars /\ Fairness

-------------------------------------------------------------------------------
(* The first byte after the share of a process. *)
end(q) == start(q) + len(q)

Copied(k) == k \in 1..Len(dest) /\ dest[k] = src[k]

(* The copy may be incomplete, but none of its bytes is wrong: each is the   *)
(* source's or a hole in front of the other process's bytes. It is longer    *)
(* than the source by no more bytes than reads of one process failed.        *)
NeverWrong ==
  /\ \A k \in 1..Len(dest) : k <= Len(src) => dest[k] \in {src[k], Hole}
  /\ \E q \in Processes : Len(dest) <= Len(src) + failures[q]

(* When the parent has waited for the child, the shares of the processes     *)
(* that could open the files have been copied, failed reads or not. If       *)
(* get_file_size and both of them could, and the length of the source fits   *)
(* in an int, this is the whole source; a longer one is cut, or not copied.  *)
CopyIsComplete ==
  pc["parent"] = "exited" =>
    /\ \A q \in Processes \ failed : \A k \in (start(q) + 1)..end(q) : Copied(k)
    /\ failed = {} /\ length # -1 /\ 2 * Len(src) < IntSize =>
         \A k \in 1..Len(src) : Copied(k)

(* The loops of copyfile end for every length, also when a share is empty or *)
(* the length is negative, if the source is a file of which no read fails    *)
(* for ever. For a directory they end only where len is negative for both.   *)
CopyEnds == pc["parent"] = "fork" /\ (regular \/ length < -1) ~> pc["parent"] = "exited"
===============================================================================
