------------------------------- MODULE ForkAndIpc -------------------------------
(***************************************************************************)
(* The programs of several processes or threads under fork, IPC and        *)
(* pthread that exchange something: the two-process copy, lines sent       *)
(* through FIFOs, a message queue or shared memory until quit is typed,    *)
(* and the threads that wait for a broadcast. They share no file, so one   *)
(* of them is looked at in each behaviour, and the others do not start.    *)
(***************************************************************************)
EXTENDS Integers, Sequences

CONSTANTS
  Lengths, IntSize, CopyBuffer, MaxFailures,         (* ForkCopy              *)
  FifoTexts, MaxTypedFifo, ReadBuffer,               (* FifoChat              *)
  Receivers, Types, Capacity, MaxRuns, MaxTyped,     (* MessageQueue          *)
  CellTexts,                                         (* SharedMemory          *)
  Waiters                                            (* CondBroadcast         *)

VARIABLES
  program,
  regular, length, src, dest, pc, pos, copied, sum, failures, failed,
  chat, w, r, pipe, typed, quitted, merged,
  msgs, got, sender, run, buf, left, receiver, quitRun,
  cells, writer, attached, text, at, stored, leftLines, reader, same, torn, leftOn, runs,
  task1, task2, joined, late

Copy   == INSTANCE ForkCopy WITH buf <- copied, BufferSize <- CopyBuffer
Fifo   == INSTANCE FifoChat WITH Texts <- FifoTexts, MaxTyped <- MaxTypedFifo,
                                 BufferSize <- ReadBuffer
Queue  == INSTANCE MessageQueue
Memory == INSTANCE SharedMemory WITH Texts <- CellTexts, left <- leftLines
Cond   == INSTANCE CondBroadcast

ASSUME ForkAndIpcAssumption ==
  /\ Copy!CopyAssumption /\ Fifo!FifoAssumption
  /\ Queue!QueueAssumption /\ Memory!MemoryAssumption

copyVars   == <<regular, length, src, dest, pc, pos, copied, sum, failures, failed>>
fifoVars   == <<chat, w, r, pipe, typed, quitted, merged>>
queueVars  == <<msgs, got, sender, run, buf, left, receiver, quitRun>>
memoryVars ==
  <<cells, writer, attached, text, at, stored, leftLines, reader, same, torn, leftOn, runs>>
condVars   == <<task1, task2, joined, late>>
vars       == <<program, copyVars, fifoVars, queueVars, memoryVars, condVars>>

Init ==
  /\ program \in {"copy", "fifo", "queue", "memory", "cond"}
  /\ IF program = "copy" THEN Copy!Init
     ELSE /\ Copy!CopyInit /\ ~regular /\ length = -1
          /\ pc = [q \in Copy!Processes |-> "exited"]
  /\ Fifo!Init /\ (program # "fifo" => ~chat)
  /\ Queue!Init
  /\ Memory!Init
  /\ Cond!CondInit /\ task1 = IF program = "cond" THEN "sleep" ELSE "off"

Next ==
  /\ UNCHANGED program
  /\ \/ /\ program = "copy" /\ Copy!Next
        /\ UNCHANGED <<fifoVars, queueVars, memoryVars, condVars>>
     \/ /\ program = "fifo" /\ Fifo!Next
        /\ UNCHANGED <<copyVars, queueVars, memoryVars, condVars>>
     \/ /\ program = "queue" /\ Queue!Next
        /\ UNCHANGED <<copyVars, fifoVars, memoryVars, condVars>>
     \/ /\ program = "memory" /\ Memory!Next
        /\ UNCHANGED <<copyVars, fifoVars, queueVars, condVars>>
     \/ /\ program = "cond" /\ Cond!Next
        /\ UNCHANGED <<copyVars, fifoVars, queueVars, memoryVars>>

(* Nothing that must happen is possible in a program that has not started.    *)
Fairness ==
  /\ Copy!Fairness /\ Fifo!Fairness /\ Queue!Fairness /\ Memory!Fairness
  /\ program = "cond" => Cond!Fairness

Spec == Init /\ [][Next]_vars /\ Fairness

-------------------------------------------------------------------------------
(* The two-process copy is incomplete at worst: what it wrote of the source is*)
(* right, and it is longer by at most a byte for each read that failed.       *)
NeverWrong == Copy!NeverWrong

(* The parent of the two-process copy exits after both shares are copied; they*)
(* are the whole source if its length was found and fits in an int.           *)
CopyIsComplete == Copy!CopyIsComplete

(* Who takes lines from another process leaves on the line quit alone, and    *)
(* loses none typed before it; the exceptions are stated in each module.      *)
LeavesOnlyOnQuit ==
  Fifo!LeavesOnlyOnQuit /\ Queue!LeavesOnlyOnQuit /\ Memory!LeavesOnlyOnQuit

(* Who takes lines from another process leaves when quit is typed; the        *)
(* exceptions are stated in each module.                                      *)
QuitIsHeeded == Fifo!QuitIsHeeded /\ Queue!QuitIsHeeded /\ Memory!QuitIsHeeded

(* Nobody waits for ever for a child process (of the copy of a file or of the *)
(* chat), for room in a message queue or for a broadcast; the exceptions are  *)
(* stated in each module.                                                     *)
WaitersReturn ==
  /\ Copy!CopyEnds /\ Fifo!WaitersReturn /\ Queue!WaitersReturn
  /\ program = "cond" => Cond!WaitersReturn
===============================================================================
