----------------------------- MODULE MCPureFunctions -----------------------------
(* All files of up to four characters over two letters. All integers of five  *)
(* bits; numbers of eight bits, so that the 14th and the 15th wrap around.    *)
EXTENDS PureFunctions
CONSTANTS x, y
MCLetters == {x, y}
===============================================================================
