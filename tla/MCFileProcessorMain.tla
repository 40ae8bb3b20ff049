-------------------------- MODULE MCFileProcessorMain --------------------------
(* A directory of up to three entries which changes twice during the run: a   *)
(* name can go and come back, two files can differ in kind from what was read.*)
EXTENDS FileProcessorMain

CONSTANTS f1, f2, f3

MCNames == {f1, f2, f3}
================================================================================
