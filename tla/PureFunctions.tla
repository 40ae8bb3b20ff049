------------------------------ MODULE PureFunctions ------------------------------
(***************************************************************************)
(* What the tasks of the two pools compute, in loops that share nothing:   *)
(* processFile of the file processor and fibonacci of the server. One of   *)
(* them is called in each behaviour.                                       *)
(***************************************************************************)
EXTENDS Integers, Sequences

CONSTANTS Letters, Blank, Newline, MaxLength, Modulus, MaxInt

VARIABLES
  content, unread, line, pc, lineCount, wordCount, charCount, wordFrequency,
  fibN, fibA, fibB, fibC, fibI, fpc

File == INSTANCE ProcessFile
Fibo == INSTANCE Fibonacci WITH n <- fibN, a <- fibA, b <- fibB, c <- fibC, i <- fibI

ASSUME PureFunctionsAssumption == File!ProcessFileAssumption /\ Fibo!FibonacciAssumption

fileVars == <<content, unread, line, pc, lineCount, wordCount, charCount, wordFrequency>>
fibVars  == <<fibN, fibA, fibB, fibC, fibI, fpc>>
functionsVars == <<fileVars, fibVars>>

FunctionsInit ==
  \/ File!Init /\ Fibo!FibInit /\ fibN = 0 /\ fpc = "off"
  \/ File!Init /\ content = <<>> /\ Fibo!Init

FunctionsNext ==
  \/ fpc = "off" /\ File!Next /\ UNCHANGED fibVars
  \/ Fibo!Next /\ UNCHANGED fileVars

FunctionsSafetySpec == FunctionsInit /\ [][FunctionsNext]_functionsVars

FunctionsSpec == FunctionsSafetySpec /\ Fibo!Fairness

-------------------------------------------------------------------------------
(* processFile counts the lines, words and characters that there are.         *)
CountsAreRight == File!CountsAreRight

(* fibonacci returns the number of Fibonacci modulo Modulus.                  *)
FibIsRight == Fibo!FibIsRight

(* fibonacci returns.                                                         *)
FibReturns == Fibo!FibReturns
===============================================================================
