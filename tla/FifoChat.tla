-------------------------------- MODULE FifoChat --------------------------------
(***************************************************************************)
(* Lines sent through FIFOs: fork/day2/fifo (send.cpp, recv.cpp), where    *)
(* one process writes myfifo and another reads it, and fork/day2/test,     *)
(* where both programs fork and there is a second FIFO for the other       *)
(* direction: the parent of send.cpp writes FIFO 1 and its child reads     *)
(* FIFO 2, the parent of recv.cpp reads FIFO 1 and its child writes        *)
(* FIFO 2. create.cpp has made the FIFOs.                                  *)
(*                                                                         *)
(* A line is a sequence of pieces of text. It is written without its       *)
(* newline and in one piece (a line is shorter than PIPE_BUF), and a read  *)
(* takes what has been written by then, so lines can run together: merged  *)
(* records for each FIFO that a line was written while another was in it.  *)
(* A program that is killed stays killed, and stdin does not end.          *)
(***************************************************************************)
EXTENDS Naturals, Sequences, SequencesExt

CONSTANTS
  Texts,       (* the lines that users type                                    *)
  MaxTyped,    (* how many of them at each writer                              *)
  BufferSize   (* sizeof(rbuf), in pieces                                      *)

quit == <<"qu", "it">>

(* wbuf and rbuf have the same size: what is typed fits into one read.        *)
FifoAssumption ==
  /\ BufferSize \in Nat /\ quit \in Texts
  /\ \A text \in Texts : text \in Seq(STRING) /\ Len(text) <= BufferSize

VARIABLES
  chat,      (* whether the programs are those of fork/day2/test              *)
  w, r,      (* where the writer and the reader of each FIFO are              *)
  pipe,      (* what is in each FIFO                                          *)
  typed,     (* how many lines have been written to it                        *)
  quitted,   (* the FIFOs that quit was written to                            *)
  merged     (* the FIFOs in which lines have run together                    *)

fifoVars == <<chat, w, r, pipe, typed, quitted, merged>>

Fifos == {1, 2}

Init ==
  /\ chat \in BOOLEAN
  /\ w = [k \in Fifos |-> "off"]
  /\ r = [k \in Fifos |-> "off"]
  /\ pipe = [k \in Fifos |-> <<>>]
  /\ typed = [k \in Fifos |-> 0]
  /\ quitted = {} /\ merged = {}

(* send.cpp is started; its child opens FIFO 2. *)
StartSend ==
  /\ w[1] = "off" /\ w' = [w EXCEPT ![1] = "open"]
  /\ r' = IF chat THEN [r EXCEPT ![2] = "open"] ELSE r
  /\ UNCHANGED <<chat, pipe, typed, quitted, merged>>

(* recv.cpp is started; its child opens FIFO 2. *)
StartRecv ==
  /\ r[1] = "off" /\ r' = [r EXCEPT ![1] = "open"]
  /\ w' = IF chat THEN [w EXCEPT ![2] = "open"] ELSE w
  /\ UNCHANGED <<chat, pipe, typed, quitted, merged>>

(* open returns when the other end has been opened too. *)
OpenWrite(k) ==
  /\ w[k] = "open" /\ r[k] # "off"
  /\ w' = [w EXCEPT ![k] = "prompt"]
  /\ UNCHANGED <<chat, r, pipe, typed, quitted, merged>>

OpenRead(k) ==
  /\ r[k] = "open" /\ w[k] # "off"
  /\ r' = [r EXCEPT ![k] = "read"]
  /\ UNCHANGED <<chat, w, pipe, typed, quitted, merged>>

(* Mutated form: quit is not written, the writer only closes the FIFO. *)
WriteLineButQuit(k) ==
  /\ w[k] = "prompt" /\ typed[k] < MaxTyped /\ r[k] \in {"open", "read"}
  /\ typed' = [typed EXCEPT ![k] = @ + 1]
  /\ \E text \in Texts :
       /\ w' = [w EXCEPT ![k] = IF text = quit THEN "left" ELSE "prompt"]
       /\ pipe' = IF text = quit THEN pipe ELSE [pipe EXCEPT ![k] = @ \o text]
       /\ quitted' = IF text = quit THEN quitted \cup {k} ELSE quitted
  /\ merged' = IF pipe[k] # <<>> THEN merged \cup {k} ELSE merged
  /\ UNCHANGED <<chat, r>>

WriteLine(k) ==
  /\ w[k] = "prompt" /\ typed[k] < MaxTyped /\ r[k] \in {"open", "read"}
  /\ typed' = [typed EXCEPT ![k] = @ + 1]
  /\ \E text \in Texts :
       /\ pipe' = [pipe EXCEPT ![k] = @ \o text]
       /\ w' = [w EXCEPT ![k] = IF text = quit THEN "left" ELSE "prompt"]
       /\ quitted' = IF text = quit THEN quitted \cup {k} ELSE quitted
  /\ merged' = IF pipe[k] # <<>> THEN merged \cup {k} ELSE merged
  /\ UNCHANGED <<chat, r>>

(* The reader is gone: SIGPIPE. *)
WriteIsBroken(k) ==
  /\ w[k] = "prompt" /\ typed[k] < MaxTyped /\ r[k] \notin {"open", "read"}
  /\ w' = [w EXCEPT ![k] = "killed"]
  /\ UNCHANGED <<chat, r, pipe, typed, quitted, merged>>

(* read, and the comparison with quit. Once the writer is gone read returns 0 *)
(* and the loop goes on: that changes nothing.                                *)
ReadText(k) ==
  /\ r[k] = "read" /\ pipe[k] # <<>>
  /\ LET size == IF Len(pipe[k]) < BufferSize THEN Len(pipe[k]) ELSE BufferSize
         rbuf == SubSeq(pipe[k], 1, size)
     IN  /\ pipe' = [pipe EXCEPT ![k] = SubSeq(@, size + 1, Len(@))]
         /\ r' = [r EXCEPT ![k] = IF rbuf = quit THEN "left" ELSE "read"]
  /\ UNCHANGED <<chat, w, typed, quitted, merged>>

Over == {"left", "killed", "done"}

(* wait(NULL) in the parents. *)
WaitForChild ==
  /\ chat
  /\ \/ w[1] = "left" /\ r[2] \in Over /\ w' = [w EXCEPT ![1] = "done"] /\ UNCHANGED r
     \/ r[1] = "left" /\ w[2] \in Over /\ r' = [r EXCEPT ![1] = "done"] /\ UNCHANGED w
  /\ UNCHANGED <<chat, pipe, typed, quitted, merged>>

Killed(k) ==
  /\ \/ w[k] = "prompt" /\ w' = [w EXCEPT ![k] = "killed"] /\ UNCHANGED r
     \/ r[k] = "read" /\ r' = [r EXCEPT ![k] = "killed"] /\ UNCHANGED w
  /\ UNCHANGED <<chat, pipe, typed, quitted, merged>>

ProgramStep(k) == OpenWrite(k) \/ OpenRead(k) \/ ReadText(k)

Next ==
  \/ StartSend \/ StartRecv \/ WaitForChild
  \/ \E k \in Fifos : ProgramStep(k) \/ WriteLine(k) \/ WriteIsBroken(k) \/ Killed(k)

(* Programs run; users need not type. *)
Fairness ==
  /\ \A k \in Fifos : WF_fifoVars(OpenWrite(k) \/ OpenRead(k)) /\ WF_fifoVars(ReadText(k))
  /\ WF_fifoVars(WaitForChild)

-------------------------------------------------------------------------------
(* A reader leaves only when quit was typed, and has read all before it,      *)
(* unless lines ran together, some of which may read as quit.                 *)
LeavesOnlyOnQuit ==
  \A k \in Fifos \ merged :
    r[k] \in {"left", "done"} => k \in quitted /\ pipe[k] = <<>>

(* The reader leaves after quit was typed, unless it ran together with        *)
(* another line: then the reader reads nothing for ever.                      *)
QuitIsHeeded == \A k \in Fifos : k \in quitted ~> r[k] \in Over \/ k \in merged

(* A parent's wait for its child ends, if quit is typed in the other direction*)
WaitersReturn ==
  chat /\ 2 \in quitted /\ (w[1] = "left" \/ r[1] = "left") ~>
    2 \in merged \/ (w[1] # "left" /\ r[1] # "left")
===============================================================================
