---------------------- MODULE MCProcessFilesWithThreads ----------------------
(* Two workers, a directory of three files. *)
EXTENDS ProcessFilesWithThreads, TLC

CONSTANTS w1, w2, f1, f2, f3

MCWorkers  == {w1, w2}
MCFiles    == {f1, f2, f3}
MCFileList == <<f1, f2, f3>>
===============================================================================
