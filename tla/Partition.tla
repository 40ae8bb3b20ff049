------------------------------ MODULE Partition ------------------------------
(***************************************************************************)
(* How processFilesWithProcesses (mynewcode/file_processor.cpp) deals      *)
(* numFiles files out to numProcesses child processes: process number i,   *)
(* from 0, gets the files startIdx .. endIdx - 1.                          *)
(***************************************************************************)
EXTENDS Naturals

(* std::min(maxThreads, numFiles); 0 when the user asked for 0 processes. *)
numProcesses(maxThreads, numFiles) ==
  IF maxThreads < numFiles THEN maxThreads ELSE numFiles

filesPerProcess(n, p) == n \div p
remainingFiles(n, p)  == n % p

(* Mutated form: the processes that take one file more do not shift the      *)
(* others.                                                                   *)
startIdxUnshifted(n, p, i) == i * filesPerProcess(n, p)

startIdx(n, p, i) ==
  i * filesPerProcess(n, p)
    + (IF i < remainingFiles(n, p) THEN i ELSE remainingFiles(n, p))

endIdx(n, p, i) ==
  startIdx(n, p, i) + filesPerProcess(n, p) + (IF i < remainingFiles(n, p) THEN 1 ELSE 0)
===============================================================================
