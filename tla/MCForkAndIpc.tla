------------------------------ MODULE MCForkAndIpc ------------------------------
(* Files of up to seven bytes, copied with buffers of two: shares that are a  *)
(* multiple of the buffer, that are not, and that are empty; two reads of each *)
(* process may fail. Ints of four bits, and files whose length becomes -7, -1 *)
(* or 2 in them. Lines that run together to quit, or overwrite another to     *)
(* read as quit. A queue that two messages fill, and a second run of the      *)
(* sender and of the reader.                                                  *)
EXTENDS ForkAndIpc

CONSTANTS r1, r2, t1, t2, t3

MCFifoTexts == {<<"qu", "it">>, <<"qu">>, <<"it">>}
MCCellTexts == {<<"qu", "it">>, <<"an", "it">>, <<"qu">>}
MCReceivers == {r1, r2}
MCWaiters   == {t1, t2, t3}
===============================================================================
