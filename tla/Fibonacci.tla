-------------------------------- MODULE Fibonacci --------------------------------
(***************************************************************************)
(* The function fibonacci of the server my_idea/idea1.cpp. Its numbers are *)
(* unsigned and wrap around at Modulus (2^64 in the code). Its argument and *)
(* its loop counter are signed, up to MaxInt (2^31 - 1); the overflow of   *)
(* the counter is undefined, and the loop does not end whatever the        *)
(* counter becomes: here it wraps around.                                  *)
(***************************************************************************)
EXTENDS Integers

CONSTANTS Modulus, MaxInt

FibonacciAssumption == Modulus \in Nat \ {0, 1} /\ MaxInt \in Nat

MinInt == -MaxInt - 1

VARIABLES
  n, a, b, c, i,
  fpc           (* where the call is; "off": not called                       *)

fibVars == <<n, a, b, c, i, fpc>>

FibInit == n \in MinInt..MaxInt /\ a = 0 /\ b = 1 /\ c = 0 /\ i = 2

Init == FibInit /\ fpc = "call"

Returns(value) == fpc' = "returned" /\ c' = value

Call ==
  /\ fpc = "call"
  /\ \/ n <= 0 /\ Returns(0)
     \/ n = 1 /\ Returns(1)
     \/ n > 1 /\ fpc' = "loop" /\ UNCHANGED c
  /\ UNCHANGED <<n, a, b, i>>

(* Mutated form: the loop ends one round early. *)
MoreRoundsOneShort == i < n

(* Mutated form: the loop goes one round further. *)
MoreRoundsOneMore == i <= n + 1

MoreRounds == i <= n

Round ==
  /\ fpc = "loop" /\ MoreRounds
  /\ c' = (a + b) % Modulus
  /\ a' = b
  /\ b' = c'
  /\ i' = IF i = MaxInt THEN MinInt ELSE i + 1
  /\ UNCHANGED <<n, fpc>>

EndOfLoop == fpc = "loop" /\ ~MoreRounds /\ Returns(c) /\ UNCHANGED <<n, a, b, i>>

FibReturned == fpc = "returned" /\ UNCHANGED fibVars

FibStep == Call \/ Round \/ EndOfLoop

Next == FibStep \/ FibReturned

Fairness == WF_fibVars(FibStep)

Spec == Init /\ [][Next]_fibVars /\ Fairness

-------------------------------------------------------------------------------
(* The numbers of Fibonacci, of any size.                                     *)
Number[k \in Nat] == IF k < 2 THEN k ELSE Number[k - 2] + Number[k - 1]

(* What a call returns is the n-th number of Fibonacci, or the rest of it     *)
(* that uint64_t can hold, whatever wraps around on the way; 0 for a negative *)
(* n.                                                                         *)
FibIsRight ==
  fpc = "returned" /\ n < MaxInt => c = (IF n < 0 THEN 0 ELSE Number[n]) % Modulus

(* A call returns, except for the largest int, which the counter cannot exceed.*)
FibReturns == fpc = "call" /\ n < MaxInt ~> fpc = "returned"
===============================================================================
