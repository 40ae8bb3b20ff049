---------------------- MODULE MCProcessFilesWithProcesses ----------------------
(* A directory of three files over two words, and one in which the first file *)
(* holds a word with a NUL character. With a pipe of two tokens and a read of *)
(* two, a result is written and read in pieces.                               *)
EXTENDS ProcessFilesWithProcesses, TLC

CONSTANTS alpha, beta, cutWord

Counts(na, nb, nn) == (alpha :> na) @@ (beta :> nb) @@ (cutWord :> nn)

Plain   == <<Counts(1, 1, 0), Counts(0, 2, 0), Counts(0, 0, 0)>>
WithNul == <<Counts(0, 0, 1), Counts(0, 1, 0), Counts(0, 0, 0)>>

MCDirectories == {Plain, WithNul}
OnlyWithNul   == {WithNul}
===============================================================================
