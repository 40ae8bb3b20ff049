--------------------------- MODULE Operators_proofs ---------------------------
(***************************************************************************)
(* Facts about the operators that the models share: the shares of the      *)
(* processes (Partition), the groups that the entries of results report,   *)
(* sums over sets of files (SumFunctionOnSet), the least of a set of       *)
(* numbers, the sequence of a set (SetToSeq), queues in which nobody       *)
(* stands twice, and measures of what is left to do.                       *)
(***************************************************************************)
EXTENDS Partition, SequencesExt, SequenceTheorems, FiniteSetTheorems, TLAPS

(* The share of a process ends where the next one's starts. *)
THEOREM SharesAdjacent ==
  ASSUME NEW n \in Nat, NEW p \in Nat \ {0}, NEW i \in 0..(p - 1)
  PROVE  endIdx(n, p, i) = startIdx(n, p, i + 1)
<1> DEFINE q == n \div p
           r == n % p
<1>1. q \in Nat /\ r \in 0..(p - 1)
  OBVIOUS
<1>2. (i + 1) * q = i * q + q /\ i * q \in Nat
  BY <1>1
<1> HIDE DEF q, r
<1>3. startIdx(n, p, i) = i * q + (IF i < r THEN i ELSE r)
  BY DEF startIdx, filesPerProcess, remainingFiles, q, r
<1>4. startIdx(n, p, i + 1) = (i + 1) * q + (IF i + 1 < r THEN i + 1 ELSE r)
  BY DEF startIdx, filesPerProcess, remainingFiles, q, r
<1>5. endIdx(n, p, i) = startIdx(n, p, i) + q + (IF i < r THEN 1 ELSE 0)
  BY DEF endIdx, filesPerProcess, remainingFiles, q, r
<1>6. CASE i < r
  BY <1>1, <1>2, <1>3, <1>4, <1>5, <1>6
<1>7. CASE ~(i < r)
  BY <1>1, <1>2, <1>3, <1>4, <1>5, <1>7
<1> QED
  BY <1>6, <1>7

(* The first share starts at the first file and the last ends at the last.   *)
THEOREM SharesCover ==
  ASSUME NEW n \in Nat, NEW p \in Nat \ {0}
  PROVE  startIdx(n, p, 0) = 0 /\ startIdx(n, p, p) = n
<1> DEFINE q == n \div p
           r == n % p
<1>1. q \in Nat /\ r \in 0..(p - 1) /\ n = p * q + r
  OBVIOUS
<1> HIDE DEF q, r
<1>2. startIdx(n, p, 0) = 0 * q + (IF 0 < r THEN 0 ELSE r)
  BY DEF startIdx, filesPerProcess, remainingFiles, q, r
<1>3. startIdx(n, p, p) = p * q + (IF p < r THEN p ELSE r)
  BY DEF startIdx, filesPerProcess, remainingFiles, q, r
<1> QED
  BY <1>1, <1>2, <1>3

(* No process is started without a file to work on, and no two shares differ *)
(* by more than one file.                                                    *)
THEOREM SharesEven ==
  ASSUME NEW n \in Nat \ {0}, NEW p \in 1..n, NEW i \in 0..(p - 1)
  PROVE  /\ startIdx(n, p, i) \in 0..(n - 1)
         /\ endIdx(n, p, i) - startIdx(n, p, i) \in {n \div p, (n \div p) + 1}
         /\ startIdx(n, p, i) < endIdx(n, p, i) /\ endIdx(n, p, i) \in 1..n
<1> DEFINE q == n \div p
           r == n % p
<1>1. q \in Nat /\ r \in 0..(p - 1) /\ n = p * q + r
  OBVIOUS
<1>2. q >= 1
  BY <1>1
<1>3. (i + 1) * q <= p * q /\ (i + 1) * q = i * q + q /\ i * q \in Nat /\ p * q \in Nat
  BY <1>1
<1> HIDE DEF q, r
<1>4. startIdx(n, p, i) = i * q + (IF i < r THEN i ELSE r)
  BY DEF startIdx, filesPerProcess, remainingFiles, q, r
<1>5. endIdx(n, p, i) = startIdx(n, p, i) + q + (IF i < r THEN 1 ELSE 0)
  BY DEF endIdx, filesPerProcess, remainingFiles, q, r
<1>6. endIdx(n, p, i) - startIdx(n, p, i) \in {q, q + 1}
  BY <1>1, <1>3, <1>4, <1>5
<1>7. startIdx(n, p, i) < endIdx(n, p, i) /\ endIdx(n, p, i) <= n
  BY <1>1, <1>2, <1>3, <1>4, <1>5
<1>8. startIdx(n, p, i) \in Nat /\ endIdx(n, p, i) \in Nat
  BY <1>1, <1>3, <1>4, <1>5
<1> QED
  BY <1>6, <1>7, <1>8 DEF q

(* A share ends before every later one starts. *)
THEOREM SharesAscend ==
  ASSUME NEW n \in Nat, NEW p \in Nat \ {0}, NEW i \in 0..p, NEW j \in 0..(i - 1)
  PROVE  endIdx(n, p, j) <= startIdx(n, p, i)
<1> DEFINE q == n \div p
           r == n % p
<1>1. q \in Nat /\ r \in 0..(p - 1)
  OBVIOUS
<1> HIDE DEF q, r
<1>2. (j + 1) * q <= i * q /\ (j + 1) * q = j * q + q /\ j * q \in Nat /\ i * q \in Nat
  <2>1. j + 1 \in Nat /\ j \in Nat /\ i \in Nat /\ j + 1 <= i
    OBVIOUS
  <2> QED
    BY <1>1, <2>1
<1>3. startIdx(n, p, j) = j * q + (IF j < r THEN j ELSE r)
  BY DEF startIdx, filesPerProcess, remainingFiles, q, r
<1>4. startIdx(n, p, i) = i * q + (IF i < r THEN i ELSE r)
  BY DEF startIdx, filesPerProcess, remainingFiles, q, r
<1>5. endIdx(n, p, j) = startIdx(n, p, j) + q + (IF j < r THEN 1 ELSE 0)
  BY DEF endIdx, filesPerProcess, remainingFiles, q, r
<1> QED
  BY <1>1, <1>2, <1>3, <1>4, <1>5

(* A group for each entry of results: one more entry is one more group. *)
LEMMA OneMoreGroup ==
  ASSUME NEW R, NEW T, NEW s \in Seq(R), NEW e \in R, NEW g \in [R -> T]
  PROVE  [k \in 1..Len(Append(s, e)) |-> g[Append(s, e)[k]]]
           = Append([k \in 1..Len(s) |-> g[s[k]]], g[e])
<1> DEFINE a == Append(s, e)
           u == [k \in 1..Len(s) |-> g[s[k]]]
           v == [k \in 1..Len(a) |-> g[a[k]]]
<1>1. /\ Len(s) \in Nat /\ Len(a) = Len(s) + 1
      /\ \A k \in 1..Len(s) : s[k] \in R /\ a[k] = s[k]
      /\ a[Len(s) + 1] = e
  BY AppendProperties, LenProperties, ElementOfSeq
<1>2. /\ u \in [1..Len(s) -> T] /\ u \in Seq(T) /\ Len(u) = Len(s)
  BY <1>1
<1>3. /\ v \in [1..Len(a) -> T] /\ v \in Seq(T) /\ Len(v) = Len(a)
  <2>1. \A k \in 1..Len(a) : a[k] \in R
    BY <1>1
  <2> QED
    BY <1>1, <2>1
<1>4. /\ Append(u, g[e]) \in Seq(T) /\ Len(Append(u, g[e])) = Len(s) + 1
      /\ \A k \in 1..Len(s) : Append(u, g[e])[k] = u[k]
      /\ Append(u, g[e])[Len(s) + 1] = g[e]
  BY <1>2, AppendProperties
<1>5. \A k \in 1..Len(v) : v[k] = Append(u, g[e])[k]
  BY <1>1, <1>3, <1>4
<1> HIDE DEF u, v
<1>6. v = Append(u, g[e])
  BY <1>1, <1>3, <1>4, <1>5, SeqEqual
<1> QED
  BY <1>6 DEF u, v

-------------------------------------------------------------------------------
(* Sums of naturals over a finite set, by induction over its subsets.          *)

(* A set that has every subset of S whose own proper subsets it has, has all. *)
LEMMA SubsetInduction ==
  ASSUME NEW S, IsFiniteSet(S), NEW U \in SUBSET (SUBSET S),
         \A s \in SUBSET S : (\A t \in SUBSET s : t # s => t \in U) => s \in U
  PROVE  U = SUBSET S
<1> SUFFICES ASSUME (SUBSET S) \ U # {} PROVE FALSE
  OBVIOUS
<1> DEFINE R == StrictSubsetOrdering(S)
           Z == SUBSET S
<1>1. IsWellFoundedOn(R, Z)
  <2>1. IsWellFoundedOn(StrictSubsetOrdering(S), FiniteSubsetsOf(S))
    BY FS_StrictSubsetOrderingWellFounded
  <2>2. FiniteSubsetsOf(S) = SUBSET S
    BY FS_FiniteSubsetsOfFinite
  <2> QED
    BY <2>1, <2>2
<1> HIDE DEF R, Z
<1>2. PICK s \in Z \ U : \A t \in Z \ U : ~ (<<t, s>> \in R)
  <2> DEFINE B == Z \ U
  <2>1. B \subseteq Z /\ B # {}
    BY DEF Z
  <2> HIDE DEF B
  <2>2. \E s \in B : \A t \in B : ~ (<<t, s>> \in R)
    BY <1>1, <2>1, WFMin
  <2> QED
    BY <2>2 DEF B
<1>3. ASSUME NEW t \in SUBSET s, t # s PROVE t \in U
  <2>1. t \in SUBSET S /\ <<t, s>> \in StrictSubsetOrdering(S)
    BY <1>2, <1>3 DEF Z, StrictSubsetOrdering
  <2> QED
    BY <1>2, <2>1 DEF R, Z, StrictSubsetOrdering
<1> QED
  BY <1>2, <1>3 DEF Z

Picked(s) == CHOOSE x \in s : TRUE

(* h sums f over every subset of S, taking the picked element first. *)
SumsOver(S, f, h) ==
  h = [s \in SUBSET S |-> IF s = {} THEN 0 ELSE f[Picked(s)] + h[s \ {Picked(s)}]]

(* Without the element it picks a set is a smaller one. *)
LEMMA PickedIn == \A s : s # {} => Picked(s) \in s /\ s \ {Picked(s)} # s
BY DEF Picked

(* Two such sums give the same value to the same set. *)
LEMMA SumsAgree ==
  ASSUME NEW S, NEW T, IsFiniteSet(S), NEW f, NEW h, NEW g,
         SumsOver(S, f, h), SumsOver(T, f, g)
  PROVE  \A s \in SUBSET S : s \in SUBSET T => h[s] = g[s]
<1> DEFINE U == {s \in SUBSET S : s \in SUBSET T => h[s] = g[s]}
<1>1. ASSUME NEW s \in SUBSET S, s \in SUBSET T, \A t \in SUBSET s : t # s => t \in U
      PROVE  h[s] = g[s]
  <2>1. h[s] = IF s = {} THEN 0 ELSE f[Picked(s)] + h[s \ {Picked(s)}]
    BY <1>1 DEF SumsOver
  <2>2. g[s] = IF s = {} THEN 0 ELSE f[Picked(s)] + g[s \ {Picked(s)}]
    BY <1>1 DEF SumsOver
  <2>3. s # {} => h[s \ {Picked(s)}] = g[s \ {Picked(s)}]
    BY <1>1, PickedIn
  <2> QED
    BY <2>1, <2>2, <2>3
<1>2. U = SUBSET S
  <2>1. \A s \in SUBSET S : (\A t \in SUBSET s : t # s => t \in U) => s \in U
    BY <1>1
  <2> HIDE DEF U
  <2>2. U \in SUBSET (SUBSET S)
    BY DEF U
  <2> QED
    BY <2>1, <2>2, SubsetInduction
<1> QED
  BY <1>2

(* Such sums exist over every finite set, and are naturals. *)
LEMMA SumsExist ==
  ASSUME NEW S, IsFiniteSet(S), NEW f, \A x \in S : f[x] \in Nat
  PROVE  \E h \in [SUBSET S -> Nat] : SumsOver(S, f, h)
<1> DEFINE Sums(s, h) == h \in [SUBSET s -> Nat] /\ SumsOver(s, f, h)
           U == {s \in SUBSET S : \E h : Sums(s, h)}
           H(s) == CHOOSE h : Sums(s, h)
<1>1. ASSUME NEW s \in SUBSET S, \A t \in SUBSET s : t # s => t \in U
      PROVE  s \in U
  <2> DEFINE V(t) == IF t = {} THEN 0 ELSE f[Picked(t)] + H(t \ {Picked(t)})[t \ {Picked(t)}]
             h == [t \in SUBSET s |-> V(t)]
  <2>1. \A t \in SUBSET s : t # s => Sums(t, H(t))
    BY <1>1
  <2> HIDE DEF H
  <2>2. ASSUME NEW t \in SUBSET s PROVE V(t) \in Nat
    <3>1. CASE t = {}
      BY <3>1
    <3>2. CASE t # {}
      <4>1. Picked(t) \in S /\ t \ {Picked(t)} \in SUBSET s /\ t \ {Picked(t)} # s
        BY <3>2, PickedIn
      <4>2. H(t \ {Picked(t)})[t \ {Picked(t)}] \in Nat
        <5> DEFINE r == t \ {Picked(t)}
        <5>1. r \in SUBSET s /\ r # s
          BY <4>1
        <5> HIDE DEF r
        <5>2. H(r) \in [SUBSET r -> Nat] /\ r \in SUBSET r
          BY <2>1, <5>1
        <5> QED
          BY <5>2 DEF r
      <4> QED
        BY <3>2, <4>1, <4>2
    <3> QED
      BY <3>1, <3>2
  <2>3. ASSUME NEW t \in SUBSET s, t # s PROVE H(t)[t] = V(t)
    <3>1. H(t)[t] = IF t = {} THEN 0 ELSE f[Picked(t)] + H(t)[t \ {Picked(t)}]
      BY <2>1, <2>3 DEF SumsOver
    <3>2. CASE t # {}
      <4> DEFINE r == t \ {Picked(t)}
      <4>1. r \in SUBSET s /\ r # s /\ r \in SUBSET t
        BY <3>2, PickedIn
      <4>2. Sums(r, H(r)) /\ Sums(t, H(t))
        BY <2>1, <2>3, <4>1
      <4>3. IsFiniteSet(r)
        BY <4>1, FS_Subset
      <4> HIDE DEF r
      <4>4. H(r)[r] = H(t)[r]
        BY <4>1, <4>2, <4>3, SumsAgree
      <4> QED
        BY <3>1, <3>2, <4>4 DEF r
    <3> QED
      BY <3>1, <3>2
  <2>4. ASSUME NEW t \in SUBSET s, t # {} PROVE h[t] = f[Picked(t)] + h[t \ {Picked(t)}]
    <3>1. t \ {Picked(t)} \in SUBSET s /\ t \ {Picked(t)} # s
      BY <2>4, PickedIn
    <3>2. H(t \ {Picked(t)})[t \ {Picked(t)}] = V(t \ {Picked(t)})
      BY <2>3, <3>1
    <3> QED
      BY <2>4, <3>1, <3>2
  <2>5. h \in [SUBSET s -> Nat] /\ h[{}] = 0
    BY <2>2
  <2> HIDE DEF h, V
  <2>6. SumsOver(s, f, h)
    BY <2>4, <2>5 DEF SumsOver
  <2> QED
    BY <2>5, <2>6
<1>2. U = SUBSET S
  <2>1. \A s \in SUBSET S : (\A t \in SUBSET s : t # s => t \in U) => s \in U
    BY <1>1
  <2> HIDE DEF U
  <2>2. U \in SUBSET (SUBSET S)
    BY DEF U
  <2> QED
    BY <2>1, <2>2, SubsetInduction
<1> QED
  BY <1>2

(* The order in which a set is summed makes no difference. *)
LEMMA SumsExchange ==
  ASSUME NEW S, IsFiniteSet(S), NEW f, \A x \in S : f[x] \in Nat,
         NEW h \in [SUBSET S -> Nat], SumsOver(S, f, h)
  PROVE  \A s \in SUBSET S : \A x \in s : h[s] = f[x] + h[s \ {x}]
<1> DEFINE U == {s \in SUBSET S : \A x \in s : h[s] = f[x] + h[s \ {x}]}
<1>1. ASSUME NEW s \in SUBSET S, \A t \in SUBSET s : t # s => t \in U, NEW x \in s
      PROVE  h[s] = f[x] + h[s \ {x}]
  <2> DEFINE y == Picked(s)
  <2>1. y \in s /\ h[s] = f[y] + h[s \ {y}]
    BY <1>1, PickedIn DEF SumsOver
  <2> HIDE DEF y
  <2>2. CASE y # x
    <3>1. s \ {x} \in U /\ s \ {y} \in U /\ y \in s \ {x} /\ x \in s \ {y}
      BY <1>1, <2>1, <2>2
    <3>2. h[s \ {x}] = f[y] + h[(s \ {x}) \ {y}] /\ h[s \ {y}] = f[x] + h[(s \ {y}) \ {x}]
      BY <3>1
    <3>3. (s \ {x}) \ {y} = (s \ {y}) \ {x} /\ (s \ {x}) \ {y} \in SUBSET S
      OBVIOUS
    <3> DEFINE r == (s \ {x}) \ {y}
    <3>4. h[s \ {x}] = f[y] + h[r] /\ h[s \ {y}] = f[x] + h[r] /\ h[r] \in Nat
      BY <3>2, <3>3
    <3> HIDE DEF r
    <3>5. f[x] \in Nat /\ f[y] \in Nat
      BY <2>1
    <3> QED
      BY <2>1, <3>4, <3>5
  <2> QED
    BY <2>1, <2>2
<1>2. U = SUBSET S
  <2>1. \A s \in SUBSET S : (\A t \in SUBSET s : t # s => t \in U) => s \in U
    BY <1>1
  <2> HIDE DEF U
  <2>2. U \in SUBSET (SUBSET S)
    BY DEF U
  <2> QED
    BY <2>1, <2>2, SubsetInduction
<1> QED
  BY <1>2

(* SumFunctionOnSet is such a sum. *)
LEMMA SumFunctionIs ==
  ASSUME NEW S, IsFiniteSet(S), NEW f, \A x \in S : f[x] \in Nat
  PROVE  \E h \in [SUBSET S -> Nat] : SumsOver(S, f, h) /\ SumFunctionOnSet(f, S) = h[S]
<1> DEFINE h == CHOOSE iter : SumsOver(S, f, iter)
<1>1. PICK g \in [SUBSET S -> Nat] : SumsOver(S, f, g)
  BY SumsExist
<1>2. SumsOver(S, f, h)
  BY <1>1
<1>3. SumFunctionOnSet(f, S) = h[S]
  BY DEF SumFunctionOnSet, FoldFunctionOnSet, MapThenFoldSet, SumsOver, Picked
<1> HIDE DEF h
<1>4. SumFunctionOnSet(f, S) = g[S]
  BY <1>1, <1>2, <1>3, SumsAgree
<1> QED
  BY <1>1, <1>4

(* The sum over no element is 0. *)
THEOREM SumOfNone == ASSUME NEW f PROVE SumFunctionOnSet(f, {}) = 0
<1>1. IsFiniteSet({})
  BY FS_EmptySet
<1>2. PICK h \in [SUBSET {} -> Nat] : SumsOver({}, f, h) /\ SumFunctionOnSet(f, {}) = h[{}]
  BY <1>1, SumFunctionIs
<1> QED
  BY <1>2 DEF SumsOver

(* One element more adds its value to a sum over a finite set. *)
THEOREM SumOfOneMore ==
  ASSUME NEW S, IsFiniteSet(S), NEW f, \A y \in S : f[y] \in Nat, NEW x, f[x] \in Nat, x \notin S
  PROVE  SumFunctionOnSet(f, S \cup {x}) = SumFunctionOnSet(f, S) + f[x]
<1> DEFINE T == S \cup {x}
<1>1. IsFiniteSet(T) /\ (\A y \in T : f[y] \in Nat) /\ T \ {x} = S /\ x \in T
  BY FS_AddElement
<1> HIDE DEF T
<1>2. PICK g \in [SUBSET S -> Nat] : SumsOver(S, f, g) /\ SumFunctionOnSet(f, S) = g[S]
  BY SumFunctionIs
<1>3. PICK h \in [SUBSET T -> Nat] : SumsOver(T, f, h) /\ SumFunctionOnSet(f, T) = h[T]
  BY <1>1, SumFunctionIs
<1>4. h[T] = f[x] + h[S]
  BY <1>1, <1>3, SumsExchange
<1>5. h[S] = g[S]
  BY <1>1, <1>2, <1>3, SumsAgree
<1> QED
  BY <1>2, <1>3, <1>4, <1>5 DEF T

(* A sum over a finite set is a natural. *)
THEOREM SumIsNat ==
  ASSUME NEW S, IsFiniteSet(S), NEW f, \A x \in S : f[x] \in Nat
  PROVE  SumFunctionOnSet(f, S) \in Nat
<1>1. PICK h \in [SUBSET S -> Nat] : SumsOver(S, f, h) /\ SumFunctionOnSet(f, S) = h[S]
  BY SumFunctionIs
<1>2. S \in SUBSET S
  OBVIOUS
<1> QED
  BY <1>1, <1>2

(* A set of naturals that is not empty has a least element. *)
LEMMA LeastOf ==
  ASSUME NEW T \in SUBSET Nat, T # {}
  PROVE  \E x \in T : \A y \in T : x <= y
<1> DEFINE R == OpToRel(<, Nat)
<1>1. PICK x \in T : \A y \in T : ~ (<<y, x>> \in R)
  <2>1. IsWellFoundedOn(R, Nat)
    BY NatLessThanWellFounded
  <2> HIDE DEF R
  <2> QED
    BY <2>1, WFMin
<1>2. x \in Nat /\ \A y \in T : y \in Nat
  OBVIOUS
<1>3. \A y \in Nat : y < x => <<y, x>> \in R
  BY <1>2 DEF OpToRel
<1> HIDE DEF R
<1>4. \A y \in T : ~(y < x)
  BY <1>1, <1>2, <1>3
<1> QED
  BY <1>2, <1>4

(* A set of naturals with 0 and with the successor of each of its elements    *)
(* has them all: induction over the naturals.                                  *)
LEMMA NatInductionOf ==
  ASSUME NEW T \in SUBSET Nat, 0 \in T, \A k \in T : k + 1 \in T
  PROVE  T = Nat
<1> SUFFICES ASSUME Nat \ T # {} PROVE FALSE
  OBVIOUS
<1> DEFINE Z == Nat \ T
<1>1. PICK x \in Z : \A y \in Z : x <= y
  BY LeastOf
<1>2. x \in Nat /\ x # 0 /\ x - 1 \in Nat
  OBVIOUS
<1>3. x - 1 \in T
  BY <1>1, <1>2
<1> QED
  BY <1>2, <1>3

(* The rest of a division is the only one.                                     *)
LEMMA RestIs ==
  ASSUME NEW m \in Nat \ {0}, NEW q \in Int, NEW r \in 0..(m - 1), NEW z \in Int, z = m * q + r
  PROVE  z % m = r
<1> DEFINE p == z \div m
           s == z % m
<1>1. p \in Int /\ s \in 0..(m - 1) /\ z = m * p + s
  BY Z3
<1> HIDE DEF p, s
<1>2. m * (p - q) = r - s
  BY <1>1, Z3
<1>3. p - q = 0
  <2>1. p - q > 0 => m * (p - q) >= m
    BY <1>1, Z3
  <2>2. p - q < 0 => m * (p - q) <= -m
    BY <1>1, Z3
  <2> QED
    BY <1>1, <1>2, <2>1, <2>2
<1> QED
  BY <1>1, <1>2, <1>3 DEF s

(* Numbers may be reduced before they are added.                               *)
LEMMA ModPlus ==
  ASSUME NEW m \in Nat \ {0}, NEW x \in Int, NEW y \in Int
  PROVE  ((x % m) + (y % m)) % m = (x + y) % m
<1> DEFINE p == x \div m
           q == y \div m
           t == (x % m) + (y % m)
           d == t \div m
           r == t % m
<1>1. /\ p \in Int /\ q \in Int /\ x % m \in 0..(m - 1) /\ y % m \in 0..(m - 1)
      /\ x = m * p + (x % m) /\ y = m * q + (y % m)
  BY Z3
<1>2. t \in Int /\ x + y = m * p + m * q + t
  BY <1>1
<1>3. d \in Int /\ r \in 0..(m - 1) /\ t = m * d + r
  BY <1>2, Z3
<1> HIDE DEF p, q, t, d, r
<1>4. x + y = m * (p + q + d) + r
  BY <1>1, <1>2, <1>3, Z3
<1> DEFINE v == p + q + d
           z == x + y
<1>5. v \in Int /\ z \in Int /\ z = m * v + r
  BY <1>1, <1>3, <1>4
<1> HIDE DEF v, z
<1>6. z % m = r
  BY <1>3, <1>5, RestIs
<1> QED
  BY <1>6 DEF r, t, z

(* One of the places of S between d and e is one more up to e than up to d.    *)
LEMMA OneMorePlace ==
  ASSUME NEW S \in SUBSET Nat, NEW d \in Nat, NEW e \in Nat, d <= e,
         NEW k \in (d + 1)..e, S \cap ((d + 1)..e) = {k}
  PROVE  Cardinality(S \cap (1..e)) = Cardinality(S \cap (1..d)) + 1
<1>1. IsFiniteSet(S \cap (1..d))
  <2>1. IsFiniteSet(1..d)
    BY FS_Interval
  <2> QED
    BY <2>1, FS_Intersection
<1>2. k \notin S \cap (1..d)
  OBVIOUS
<1>3. S \cap (1..e) = (S \cap (1..d)) \cup {k}
  OBVIOUS
<1> QED
  BY <1>1, <1>2, <1>3, FS_AddElement

(* Without one, they are as many.                                              *)
LEMMA NoMorePlaces ==
  ASSUME NEW S \in SUBSET Nat, NEW d \in Nat, NEW e \in Nat, d <= e,
         S \cap ((d + 1)..e) = {}
  PROVE  S \cap (1..e) = S \cap (1..d)
OBVIOUS

-------------------------------------------------------------------------------
(***************************************************************************)
(* Sequences without repetition: queues of clients, words in some order.   *)
(***************************************************************************)

(* SetToSeq puts every element of a finite set in one place. *)
LEMMA SetInOrder ==
  ASSUME NEW P, IsFiniteSet(P)
  PROVE  /\ Cardinality(P) \in Nat /\ Len(SetToSeq(P)) = Cardinality(P)
         /\ SetToSeq(P) \in Bijection(1..Cardinality(P), P)
<1> DEFINE n == Cardinality(P)
           s == SetToSeq(P)
<1>1. n \in Nat /\ ExistsBijection(1..n, P)
  BY FS_CardinalityType
<1>2. s \in [1..n -> P] /\ IsInjective(s)
  <2>1. \E f \in [1..n -> P] : IsInjective(f)
    BY <1>1 DEF ExistsBijection, Bijection, Injection
  <2> QED
    BY <2>1 DEF SetToSeq
<1> HIDE DEF s
<1>3. s \in Injection(1..n, P)
  BY <1>2 DEF Injection
<1>4. Cardinality(1..n) = n
  BY <1>1, FS_Interval
<1>5. s \in Surjection(1..n, P)
  BY <1>3, <1>4, FS_Injection
<1>6. Len(s) = n
  BY <1>1, <1>2
<1> QED
  BY <1>1, <1>3, <1>5, <1>6 DEF Bijection, s

(* The elements of a queue when one more joins it. *)
LEMMA OneMoreWaits ==
  ASSUME NEW S, NEW s \in Seq(S), NEW c \in S, c \notin ToSet(s), IsInjective(s)
  PROVE  /\ Append(s, c) \in Seq(S) /\ IsInjective(Append(s, c))
         /\ ToSet(Append(s, c)) = ToSet(s) \cup {c}
<1> DEFINE t == Append(s, c)
<1>1. /\ t \in Seq(S) /\ Len(s) \in Nat /\ Len(t) = Len(s) + 1
      /\ \A i \in 1..Len(s) : t[i] = s[i]
      /\ t[Len(s) + 1] = c
  BY AppendProperties, LenProperties
<1>2. DOMAIN s = 1..Len(s) /\ DOMAIN t = 1..(Len(s) + 1)
  BY <1>1, LenProperties
<1> HIDE DEF t
<1>3. \A i \in 1..Len(s) : s[i] # c
  BY <1>2 DEF ToSet
<1>4. IsInjective(t)
  <2> SUFFICES ASSUME NEW i \in DOMAIN t, NEW j \in DOMAIN t, t[i] = t[j]
               PROVE  i = j
    BY DEF IsInjective
  <2>1. CASE i \in 1..Len(s) /\ j \in 1..Len(s)
    BY <1>1, <1>2, <2>1 DEF IsInjective
  <2> QED
    BY <1>1, <1>2, <1>3, <2>1
<1>5. ToSet(t) = ToSet(s) \cup {c}
  BY <1>1, <1>2 DEF ToSet
<1> QED
  BY <1>1, <1>4, <1>5 DEF t

(* The elements of a queue when the first leaves it. *)
LEMMA OneLessWaits ==
  ASSUME NEW S, NEW s \in Seq(S), s # <<>>, IsInjective(s)
  PROVE  /\ Head(s) \in S /\ Tail(s) \in Seq(S) /\ IsInjective(Tail(s))
         /\ Head(s) \in ToSet(s) /\ ToSet(Tail(s)) = ToSet(s) \ {Head(s)}
<1> DEFINE t == Tail(s)
<1>1. /\ t \in Seq(S) /\ Len(s) \in Nat \ {0} /\ Len(t) = Len(s) - 1
      /\ \A i \in 1..Len(t) : t[i] = s[i + 1]
      /\ Head(s) = s[1] /\ Head(s) \in S
  BY HeadTailProperties, EmptySeq, LenProperties
<1>2. DOMAIN s = 1..Len(s) /\ DOMAIN t = 1..(Len(s) - 1)
  BY <1>1, LenProperties
<1> HIDE DEF t
<1>3. IsInjective(t)
  BY <1>1, <1>2 DEF IsInjective
<1>4. ToSet(t) = ToSet(s) \ {Head(s)}
  <2>1. \A i \in DOMAIN s : i # 1 => i - 1 \in DOMAIN t /\ s[i] = t[i - 1]
    BY <1>1, <1>2
  <2>2. \A i \in DOMAIN t : i + 1 \in DOMAIN s /\ t[i] = s[i + 1] /\ t[i] # s[1]
    BY <1>1, <1>2 DEF IsInjective
  <2>3. \A x : x \in ToSet(t) => x \in ToSet(s) \ {Head(s)}
    BY <1>1, <2>2 DEF ToSet
  <2>4. \A x : x \in ToSet(s) \ {Head(s)} => x \in ToSet(t)
    <3> SUFFICES ASSUME NEW i \in DOMAIN s, s[i] # s[1]
                 PROVE  \E j \in DOMAIN t : t[j] = s[i]
      BY <1>1 DEF ToSet
    <3> QED
      BY <2>1
  <2> QED
    BY <2>3, <2>4
<1>5. Head(s) \in ToSet(s)
  BY <1>1, <1>2 DEF ToSet
<1> QED
  BY <1>1, <1>3, <1>4, <1>5 DEF t

-------------------------------------------------------------------------------
(* Measures. A tuple of numbers is below another if it is smaller in the      *)
(* first place where they differ: what measures how much is left to do.       *)
Below(s, t) ==
  \E k \in DOMAIN t : s[k] < t[k] /\ \A j \in 1..(k - 1) : s[j] = t[j]

(* In every set of tuples there is one that none of them is below.            *)
LEMMA LowestOf ==
  ASSUME NEW n \in Nat, NEW T \in SUBSET [1..n -> Nat], T # {}
  PROVE  \E x \in T : \A y \in T : ~Below(y, x)
<1> DEFINE (* no tuple is below x in one of the first k places *)
           Lowest(k) == {x \in T : \A y \in T : \A j \in 1..k :
                           (\A l \in 1..(j - 1) : y[l] = x[l]) => x[j] <= y[j]}
           K == {k \in Nat : k <= n => Lowest(k) # {}}
<1>1. 0 \in K
  OBVIOUS
<1>2. ASSUME NEW k \in K PROVE k + 1 \in K
  <2> SUFFICES ASSUME k + 1 <= n PROVE Lowest(k + 1) # {}
    OBVIOUS
  <2>1. k \in Nat /\ Lowest(k) # {}
    OBVIOUS
  <2>2. PICK x \in Lowest(k) : \A z \in Lowest(k) : x[k + 1] <= z[k + 1]
    <3> DEFINE V == {z[k + 1] : z \in Lowest(k)}
    <3>1. \A z \in Lowest(k) : z[k + 1] \in Nat
      BY <2>1
    <3>2. V # {} /\ V \in SUBSET Nat
      <4> HIDE DEF Lowest
      <4> QED
        BY <2>1, <3>1
    <3>3. PICK v \in V : \A u \in V : v <= u
      <4> HIDE DEF V
      <4> QED
        BY <3>2, LeastOf
    <3>4. PICK x \in Lowest(k) : x[k + 1] = v
      BY <3>3
    <3> QED
      BY <3>3, <3>4
  <2>3. ASSUME NEW y \in T, \A l \in 1..k : y[l] = x[l] PROVE y \in Lowest(k)
    <3> SUFFICES ASSUME NEW z \in T, NEW j \in 1..k, \A l \in 1..(j - 1) : z[l] = y[l]
                 PROVE  y[j] <= z[j]
      OBVIOUS
    <3>1. \A l \in 1..(j - 1) : z[l] = x[l]
      BY <2>1, <2>3
    <3> QED
      BY <2>2, <2>3, <3>1
  <2>4. ASSUME NEW y \in T, NEW j \in 1..(k + 1), \A l \in 1..(j - 1) : y[l] = x[l]
        PROVE  x[j] <= y[j]
    <3>1. CASE j \in 1..k
      BY <2>2, <2>4, <3>1
    <3>2. CASE j = k + 1
      <4>1. \A l \in 1..k : y[l] = x[l]
        BY <2>1, <2>4, <3>2
      <4>2. y \in Lowest(k)
        BY <2>3, <4>1
      <4> HIDE DEF Lowest
      <4> QED
        BY <2>2, <3>2, <4>2
    <3> QED
      BY <2>1, <3>1, <3>2
  <2>5. x \in T
    BY <2>2
  <2>6. x \in Lowest(k + 1)
    BY <2>4, <2>5
  <2> QED
    BY <2>6
<1>3. K = Nat
  <2> HIDE DEF K
  <2> QED
    BY <1>1, <1>2, NatInductionOf DEF K
<1>4. PICK x \in T : \A y \in T : \A j \in 1..n : (\A l \in 1..(j - 1) : y[l] = x[l]) => x[j] <= y[j]
  <2>1. n \in K
    BY <1>3
  <2> QED
    BY <2>1
<1>5. ASSUME NEW y \in T PROVE ~Below(y, x)
  <2>1. \A j \in 1..n : x[j] \in Nat /\ y[j] \in Nat
    OBVIOUS
  <2>2. DOMAIN x = 1..n
    OBVIOUS
  <2>3. ASSUME NEW j \in 1..n, \A l \in 1..(j - 1) : y[l] = x[l] PROVE ~(y[j] < x[j])
    <3>1. x[j] <= y[j]
      BY <1>4, <2>3
    <3> QED
      BY <2>1, <3>1
  <2> HIDE DEF Lowest, K
  <2> QED
    BY <2>2, <2>3 DEF Below
<1> QED
  BY <1>5

(* No sequence of tuples goes down for ever.                                  *)
THEOREM NoEndlessDescent ==
  ASSUME NEW n \in Nat, NEW f \in [Nat -> [1..n -> Nat]]
  PROVE  ~\A m \in Nat : Below(f[m + 1], f[m])
<1> SUFFICES ASSUME \A m \in Nat : Below(f[m + 1], f[m]) PROVE FALSE
  OBVIOUS
<1> DEFINE T == {f[m] : m \in Nat}
<1>1. T \in SUBSET [1..n -> Nat] /\ T # {}
  BY 0 \in Nat
<1>2. PICK x \in T : \A y \in T : ~Below(y, x)
  <2> HIDE DEF T
  <2> QED
    BY <1>1, LowestOf
<1>3. PICK m \in Nat : x = f[m]
  OBVIOUS
<1>4. f[m + 1] \in T
  OBVIOUS
<1> QED
  BY <1>2, <1>3, <1>4

================================================================================
