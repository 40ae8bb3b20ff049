------------------------ MODULE MCProcessFilesOnWindows ------------------------
(* Three files in groups of every size; results that fit in the pipe, fill it *)
(* and do not fit, read in one piece or two, with NULs at any places in them. *)
EXTENDS ProcessFilesOnWindows
================================================================================
