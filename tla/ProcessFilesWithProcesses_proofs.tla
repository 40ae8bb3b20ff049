-------------------- MODULE ProcessFilesWithProcesses_proofs --------------------
(***************************************************************************)
(* Proofs about ProcessFilesWithProcesses, for any number of files, words  *)
(* and processes, any contents and any sizes of the pipe and of a read:    *)
(* what the results hold, that nothing stays open, that parent and child   *)
(* never wait for each other, and that every step leaves less to do.       *)
(***************************************************************************)
EXTENDS ProcessFilesWithProcesses, Operators_proofs

Statistics == [Words -> Nat]

Tokens ==
  [kind : {"header"}, words : Nat, entries : Nat] \cup [kind : {"front", "middle", "nul"}]
    \cup [kind : {"word"}, word : Words] \cup [kind : {"count"}, n : Nat]

Present(c) == {w \in Words : c[w] > 0}

Header(c, n) == [kind |-> "header", words |-> SumFunction(c), entries |-> n]

(* The tokens of out are a header and, for each of the n words of order in   *)
(* turn, four more: the position of the word's own is a multiple of four.    *)
Layout(out, c, n, order) ==
  /\ out \in Seq(Tokens) /\ Len(out) = 4 * n + 1
  /\ out[1] = Header(c, n)
  /\ \A j \in 1..n :
       /\ out[4 * j - 2] = [kind |-> "front"]
       /\ out[4 * j - 1] = [kind |-> IF order[j] \in NulWords THEN "nul" ELSE "middle"]
       /\ out[4 * j] = [kind |-> "word", word |-> order[j]]
       /\ out[4 * j + 1] = [kind |-> "count", n |-> c[order[j]]]

(* What serializeFileStats makes of any statistics. *)
LEMMA SerializedLayout ==
  ASSUME NEW c \in Statistics
  PROVE  \E n \in Nat : \E order : /\ order \in Bijection(1..n, Present(c))
                                   /\ Layout(serializeFileStats(c), c, n, order)
<1> DEFINE n == Cardinality(Present(c))
           order == SetToSeq(Present(c))
           Entry(w) == <<[kind |-> "front"],
                         [kind |-> IF w \in NulWords THEN "nul" ELSE "middle"],
                         [kind |-> "word", word |-> w],
                         [kind |-> "count", n |-> c[w]]>>
           body == [k \in 1..(4 * n) |-> Entry(order[1 + (k - 1) \div 4])[1 + ((k - 1) % 4)]]
           out == <<Header(c, n)>> \o body
<1>1. IsFiniteSet(Words) /\ IsFiniteSet(Present(c))
  BY ProcessesAssumption, FS_Subset DEF Present
<1>2. n \in Nat /\ Len(order) = n /\ order \in Bijection(1..n, Present(c))
  BY <1>1, SetInOrder, SMTT(30)
<1>3. serializeFileStats(c) = out
  BY <1>2 DEF serializeFileStats, Present, Header
<1> HIDE DEF n, order
<1>4. Header(c, n) \in Tokens
  <2>1. DOMAIN c = Words /\ \A w \in Words : c[w] \in Nat
    BY DEF Statistics
  <2>2. SumFunction(c) \in Nat
    BY <1>1, <2>1, SumIsNat DEF SumFunction
  <2> QED
    BY <1>2, <2>2 DEF Header, Tokens
<1>5. \A j \in 1..n : order[j] \in Words /\ c[order[j]] \in Nat
  BY <1>2 DEF Bijection, Injection, Present, Statistics
<1>6. ASSUME NEW w \in Words, NEW r \in 1..4
      PROVE  Entry(w)[r] \in Tokens
  BY <1>6 DEF Tokens, Statistics
<1>7. ASSUME NEW k \in 1..(4 * n)
      PROVE  body[k] \in Tokens
  <2>1. 1 + (k - 1) \div 4 \in 1..n /\ 1 + ((k - 1) % 4) \in 1..4
    BY <1>2
  <2> QED
    BY <1>5, <1>6, <2>1
<1>8. body \in [1..(4 * n) -> Tokens]
  BY <1>7
<1>9. body \in Seq(Tokens) /\ Len(body) = 4 * n
  BY <1>2, <1>8
<1>10. <<Header(c, n)>> \in Seq(Tokens) /\ Len(<<Header(c, n)>>) = 1
       /\ <<Header(c, n)>>[1] = Header(c, n)
  BY <1>4
<1>11. out \in Seq(Tokens) /\ Len(out) = 4 * n + 1 /\ out[1] = Header(c, n)
       /\ \A k \in 1..(4 * n) : out[k + 1] = body[k]
  <2> DEFINE b == body
             h == <<Header(c, n)>>
  <2>1. h \in Seq(Tokens) /\ Len(h) = 1 /\ h[1] = Header(c, n)
    BY <1>10
  <2>2. b \in Seq(Tokens) /\ Len(b) = 4 * n
    BY <1>9
  <2> HIDE DEF b, h
  <2>3. /\ h \o b \in Seq(Tokens) /\ Len(h \o b) = Len(h) + Len(b)
        /\ \A k \in 1..(Len(h) + Len(b)) : (h \o b)[k] = IF k <= Len(h) THEN h[k] ELSE b[k - Len(h)]
    BY <2>1, <2>2, ConcatProperties
  <2> DEFINE o == h \o b
  <2> HIDE DEF o
  <2>4. /\ o \in Seq(Tokens) /\ Len(o) = 4 * n + 1
        /\ \A k \in 1..(4 * n + 1) : o[k] = IF k <= 1 THEN h[k] ELSE b[k - 1]
    BY <1>2, <2>1, <2>2, <2>3 DEF o
  <2>5. o[1] = h[1] /\ \A k \in 1..(4 * n) : o[k + 1] = b[k]
    BY <1>2, <2>4
  <2> QED
    BY <2>1, <2>4, <2>5 DEF o, h, b
<1> HIDE DEF out
<1>12. ASSUME NEW j \in 1..n, NEW r \in 1..4
       PROVE  out[4 * j - 3 + r] = Entry(order[j])[r]
  <2>1. 4 * (j - 1) + r \in 1..(4 * n) /\ (4 * (j - 1) + r) + 1 = 4 * j - 3 + r
    BY <1>2
  <2>2. ((4 * (j - 1) + r) - 1) \div 4 = j - 1 /\ ((4 * (j - 1) + r) - 1) % 4 = r - 1
    BY <1>2
  <2>3. out[4 * j - 3 + r] = body[4 * (j - 1) + r]
    BY <1>11, <2>1
  <2>4. 1 + (((4 * (j - 1) + r) - 1) \div 4) = j /\ 1 + (((4 * (j - 1) + r) - 1) % 4) = r
    BY <2>2
  <2> QED
    BY <2>1, <2>3, <2>4
<1>13. ASSUME NEW j \in 1..n
       PROVE  /\ out[4 * j - 2] = [kind |-> "front"]
              /\ out[4 * j - 1] = [kind |-> IF order[j] \in NulWords THEN "nul" ELSE "middle"]
              /\ out[4 * j] = [kind |-> "word", word |-> order[j]]
              /\ out[4 * j + 1] = [kind |-> "count", n |-> c[order[j]]]
  <2>1. 4 * j - 3 + 1 = 4 * j - 2 /\ 4 * j - 3 + 2 = 4 * j - 1 /\ 4 * j - 3 + 3 = 4 * j
        /\ 4 * j - 3 + 4 = 4 * j + 1
    OBVIOUS
  <2> QED
    BY <1>12, <2>1
<1>14. Layout(out, c, n, order)
  BY <1>11, <1>13 DEF Layout
<1> QED
  BY <1>2, <1>3, <1>14

(* Every token is the header or one of the four of some word. *)
LEMMA TokenOf ==
  ASSUME NEW n \in Nat, NEW k \in 1..(4 * n + 1)
  PROVE  k = 1 \/ \E j \in 1..n : k \in {4 * j - 2, 4 * j - 1, 4 * j, 4 * j + 1}
<1> DEFINE j == (k + 2) \div 4
<1>1. CASE k # 1
  <2>1. j \in 1..n /\ k \in {4 * j - 2, 4 * j - 1, 4 * j, 4 * j + 1}
    BY <1>1
  <2> QED
    BY <2>1
<1> QED
  BY <1>1

NoNul(data) == \A k \in 1..Len(data) : data[k].kind # "nul"

(* Whatever is serialized starts with the header. *)
LEMMA SerializedStarts ==
  ASSUME NEW c \in Statistics
  PROVE  /\ serializeFileStats(c) \in Seq(Tokens) /\ serializeFileStats(c) # <<>>
         /\ serializeFileStats(c)[1].kind = "header"
<1> DEFINE out == serializeFileStats(c)
<1>0. PICK n \in Nat : \E order : Layout(out, c, n, order)
  BY SerializedLayout
<1>1. PICK order : Layout(out, c, n, order)
  BY <1>0
<1> HIDE DEF out
<1>2. out \in Seq(Tokens) /\ Len(out) # 0 /\ out[1].kind = "header"
  BY <1>1 DEF Layout, Header
<1>3. out # <<>>
  BY <1>2, EmptySeq
<1> QED
  BY <1>2, <1>3 DEF out

(* Statistics without a NUL character are serialized and deserialized to the *)
(* same: no word is lost, taken for another one or given another's count.    *)
THEOREM SerializeRoundTrip ==
  ASSUME NEW c \in Statistics, \A w \in NulWords : c[w] = 0
  PROVE  /\ NoNul(serializeFileStats(c))
         /\ Parses(serializeFileStats(c))
         /\ deserializeFileStats(serializeFileStats(c))
              = [wordCount |-> SumFunction(c), wordFrequency |-> c, spliced |-> {}]
<1> DEFINE out == serializeFileStats(c)
<1>0. PICK n \in Nat : \E order : order \in Bijection(1..n, Present(c)) /\ Layout(out, c, n, order)
  BY SerializedLayout
<1>1. PICK order : order \in Bijection(1..n, Present(c)) /\ Layout(out, c, n, order)
  BY <1>0
<1> HIDE DEF out
<1>2. out \in Seq(Tokens) /\ Len(out) = 4 * n + 1 /\ out[1] = Header(c, n)
  BY <1>1 DEF Layout
<1>3. /\ \A j \in 1..n : order[j] \in Present(c) /\ order[j] \notin NulWords
      /\ \A w \in Present(c) : \E j \in 1..n : order[j] = w
      /\ \A j, l \in 1..n : order[j] = order[l] => j = l
  BY <1>1 DEF Bijection, Injection, Surjection, IsInjective, Present
<1>4. ASSUME NEW j \in 1..n
      PROVE  /\ out[4 * j - 2].kind = "front" /\ out[4 * j - 1].kind = "middle"
             /\ out[4 * j].kind = "word" /\ out[4 * j].word = order[j]
             /\ out[4 * j + 1].kind = "count" /\ out[4 * j + 1].n = c[order[j]]
  <2>1. /\ out[4 * j - 2] = [kind |-> "front"] /\ out[4 * j - 1] = [kind |-> "middle"]
        /\ out[4 * j] = [kind |-> "word", word |-> order[j]]
        /\ out[4 * j + 1] = [kind |-> "count", n |-> c[order[j]]]
    BY <1>1, <1>3 DEF Layout
  <2> QED
    BY <2>1
<1>5. \A k \in 1..Len(out) : k = 1 \/ \E j \in 1..n : k \in {4 * j - 2, 4 * j - 1, 4 * j, 4 * j + 1}
  BY <1>2, TokenOf
<1>6. out[1].kind = "header" /\ out[1].words = SumFunction(c) /\ out[1].entries = n
  BY <1>2 DEF Header
<1>7. NoNul(out)
  BY <1>5, <1>6, <1>4 DEF NoNul
<1>8. Parses(out)
  <2> DEFINE E == {k \in 1..Len(out) : EndsLine(out[k])}
             g == [m \in 1..(2 * n + 1) |-> 4 * (m \div 2) + (m % 2)]
  <2>1. \A m \in 1..(2 * n + 1) : g[m] \in E
    <3> SUFFICES ASSUME NEW m \in 1..(2 * n + 1) PROVE g[m] \in E
      OBVIOUS
    <3>1. CASE m = 1
      BY <1>2, <1>6, <3>1 DEF EndsLine
    <3>2. CASE m # 1
      <4>1. m \div 2 \in 1..n /\ m % 2 \in 0..1
        BY <3>2
      <4>2. /\ out[4 * (m \div 2)].kind = "word" /\ out[4 * (m \div 2) + 1].kind = "count"
        BY <1>4, <4>1
      <4>3. g[m] \in 1..(4 * n + 1) /\ g[m] \in {4 * (m \div 2), 4 * (m \div 2) + 1}
        BY <4>1
      <4> QED
        BY <1>2, <4>2, <4>3 DEF EndsLine
    <3> QED
      BY <3>1, <3>2
  <2>2. \A l, m \in 1..(2 * n + 1) : g[l] = g[m] => l = m
    OBVIOUS
  <2>3. g \in Injection(1..(2 * n + 1), E)
    <3>1. g \in [1..(2 * n + 1) -> E]
      BY <2>1
    <3> HIDE DEF g, E
    <3> QED
      BY <2>2, <3>1 DEF Injection, IsInjective
  <2>4. IsFiniteSet(E)
    <3>1. IsFiniteSet(1..Len(out)) /\ E \subseteq 1..Len(out)
      BY <1>2, FS_Interval
    <3> HIDE DEF E
    <3> QED
      BY <3>1, FS_Subset
  <2>5. Cardinality(1..(2 * n + 1)) = 2 * n + 1
    BY FS_Interval
  <2>6. Cardinality(E) >= 1 + 2 * n
    <3> HIDE DEF g, E
    <3>1. Cardinality(1..(2 * n + 1)) <= Cardinality(E) /\ Cardinality(E) \in Nat
      BY <2>3, <2>4, FS_Injection, FS_CardinalityType
    <3> QED
      BY <2>5, <3>1
  <2>7. out # <<>>
    BY <1>2, EmptySeq
  <2> QED
    BY <1>6, <2>6, <2>7 DEF Parses
<1>9. deserializeFileStats(out)
        = [wordCount |-> SumFunction(c), wordFrequency |-> c, spliced |-> {}]
  <2> DEFINE At(w) == {k \in 1..Len(out) : out[k].kind = "word" /\ out[k].word = w}
             count(w) == IF At(w) = {} THEN 0 ELSE out[(CHOOSE k \in At(w) : TRUE) + 1].n
  <2>1. ASSUME NEW k \in 1..Len(out), out[k].kind = "word"
        PROVE  \E j \in 1..n : k = 4 * j
    BY <1>5, <1>6, <1>4, <2>1
  <2>2. ASSUME NEW w \in Words, NEW k \in At(w)
        PROVE  w \in Present(c) /\ out[k + 1].n = c[w]
    <3>1. PICK j \in 1..n : k = 4 * j
      BY <2>1
    <3> QED
      BY <1>2, <1>3, <1>4, <3>1
  <2>3. ASSUME NEW w \in Present(c) PROVE At(w) # {}
    <3>1. PICK j \in 1..n : order[j] = w
      BY <1>3
    <3>2. 4 * j \in At(w)
      BY <1>2, <1>4, <3>1
    <3> QED
      BY <3>2
  <2> HIDE DEF At
  <2>4. ASSUME NEW w \in Words PROVE count(w) = c[w]
    <3>1. CASE At(w) = {}
      BY <2>3, <3>1 DEF Present, Statistics
    <3>2. CASE At(w) # {}
      BY <2>2, <3>2
    <3> QED
      BY <3>1, <3>2
  <2>5. \A w \in NulWords : At(w) = {}
    BY <2>2, ProcessesAssumption DEF Present
  <2>6. [w \in Words |-> count(w)] = c
    BY <2>4 DEF Statistics
  <2>7. {w \in NulWords : At(w) # {}} = {}
    BY <2>5
  <2>8. deserializeFileStats(out) = [wordCount |-> out[1].words,
          wordFrequency |-> [w \in Words |-> count(w)], spliced |-> {w \in NulWords : At(w) # {}}]
    BY DEF deserializeFileStats, At
  <2> QED
    BY <1>6, <2>6, <2>7, <2>8
<1> QED
  BY <1>7, <1>8, <1>9 DEF out

-------------------------------------------------------------------------------
(* The invariant, in parts.                                                   *)

Entries == [process : 0..(NumFiles - 1), stats : {deserializeFileStats(d) : d \in Seq(Tokens)}]

(* The types, with what the loop has found out about the number of processes.*)
Typed ==
  /\ TypeOK
  /\ results \in Seq(Entries)
  /\ resultData \in Seq(Tokens) /\ pipe \in Seq(Tokens) /\ unsent \in Seq(Tokens)
  /\ ppc \notin {"divide", "killed"} => p > 0
  /\ ppc \in {"fork", "closeWrite", "read", "wait", "aborted"} => i < p

(* Where the two processes are says which ends of the pipe they have open.   *)
EndsFollow ==
  /\ cpc # "none" <=> ppc \in {"closeWrite", "read", "wait"}
  /\ "parent" \in readers <=> ppc \in {"fork", "closeWrite", "read"}
  /\ "parent" \in writers <=> ppc \in {"fork", "closeWrite"}
  /\ "child" \in readers <=> cpc = "start"
  /\ "child" \in writers <=> cpc \in {"start", "count", "write"}
  /\ ppc = "wait" => cpc \in {"exit", "exited", "dead"} /\ pipe = <<>>

(* The child has serialized its statistics. *)
Answered == cpc \in {"write", "exit", "exited"}

(* What has come from this child: resultData is cleared when the reading     *)
(* starts.                                                                   *)
received == IF ppc \in {"read", "wait", "aborted"} THEN resultData ELSE <<>>

StartsWithHeader(data) == data # <<>> /\ data[1].kind = "header"

(* The header, which no NUL precedes, is on its way until it has been read.  *)
HeaderComes ==
  /\ cpc # "write" => unsent = <<>>
  /\ ppc = "fork" \/ cpc \in {"start", "count"} => pipe = <<>> /\ received = <<>>
  /\ Answered =>
       \/ received # <<>>
       \/ StartsWithHeader(pipe)
       \/ pipe = <<>> /\ StartsWithHeader(unsent)

(* Each process before this one is in results or failed; this one has failed *)
(* only if its child is dead.                                                *)
Accounts ==
  /\ failed \subseteq 0..i /\ Reported \subseteq 0..(i - 1)
  /\ i \in failed <=> cpc = "dead"
  /\ FailedIsLeftOut

Inv == Typed /\ EndsFollow /\ HeaderComes /\ Accounts

-------------------------------------------------------------------------------
(* A chunk loses nothing if it has no NUL, and its front if that is not one. *)
LEMMA ChunkAppended ==
  ASSUME NEW data \in Seq(Tokens), NEW chunk \in Seq(Tokens)
  PROVE  /\ AppendChunk(data, chunk) \in Seq(Tokens)
         /\ data # <<>> => AppendChunk(data, chunk) # <<>>
         /\ chunk # <<>> /\ chunk[1].kind # "nul" => AppendChunk(data, chunk) # <<>>
         /\ NoNul(chunk) => AppendChunk(data, chunk) = data \o chunk
<1> DEFINE I == {k \in 1..Len(chunk) : chunk[k].kind = "nul"}
           nul == IF I # {} THEN Min(I) ELSE 0
           kept == IF nul = 0 THEN chunk ELSE SubSeq(chunk, 1, nul - 1)
<1>1. AppendChunk(data, chunk) = data \o kept
  BY DEF AppendChunk, SelectInSeq
<1>2. Len(chunk) \in Nat
  BY LenProperties
<1>3. I # {} => nul \in I
  <2>1. I \in SUBSET Nat
    BY <1>2
  <2> HIDE DEF I
  <2>2. I # {} => \E x \in I : \A y \in I : x <= y
    BY <2>1, LeastOf
  <2>3. I # {} => Min(I) \in I
    BY <2>2 DEF Min
  <2> QED
    BY <2>3
<1>4. /\ nul \in 0..Len(chunk) /\ (nul = 0 <=> I = {})
      /\ nul # 0 => chunk[nul].kind = "nul"
  BY <1>2, <1>3
<1> HIDE DEF nul
<1>5. \A k \in 1..Len(chunk) : chunk[k] \in Tokens
  BY ElementOfSeq
<1>6. /\ kept \in Seq(Tokens)
      /\ nul > 1 => Len(kept) = nul - 1
  <2>1. CASE nul = 0
    BY <2>1
  <2>2. CASE nul # 0
    <3>1. \A k \in 1..(nul - 1) : chunk[k] \in Tokens
      BY <1>2, <1>4, <1>5
    <3>2. /\ SubSeq(chunk, 1, nul - 1) \in Seq(Tokens)
          /\ Len(SubSeq(chunk, 1, nul - 1)) = IF 1 <= nul - 1 THEN (nul - 1) - 1 + 1 ELSE 0
      BY <1>2, <1>4, <3>1, SubSeqProperties
    <3> QED
      BY <1>2, <1>4, <2>2, <3>2
  <2> QED
    BY <2>1, <2>2
<1>7. chunk # <<>> /\ chunk[1].kind # "nul" => kept # <<>>
  <2> SUFFICES ASSUME chunk # <<>>, chunk[1].kind # "nul" PROVE kept # <<>>
    OBVIOUS
  <2>1. nul # 1
    BY <1>4
  <2>2. CASE nul = 0
    BY <2>2
  <2>3. CASE nul > 1
    BY <1>2, <1>4, <1>6, <2>3, EmptySeq
  <2> QED
    BY <1>4, <2>1, <2>2, <2>3
<1>8. NoNul(chunk) => kept = chunk
  BY <1>4 DEF NoNul
<1> HIDE DEF kept
<1>9. data \o kept \in Seq(Tokens) /\ (data \o kept = <<>> <=> data = <<>> /\ kept = <<>>)
  BY <1>6, ConcatProperties, ConcatEqualIffEmpty
<1> QED
  BY <1>1, <1>7, <1>8, <1>9

(* p is the same in every state, and no larger than the number of files.     *)
LEMMA ProcessCount ==
  ASSUME Inv, [Next]_vars
  PROVE  p \in 0..NumFiles /\ p' = p /\ Freq' = Freq /\ maxThreads' = maxThreads
<1>1. maxThreads \in Nat /\ NumFiles \in Nat
  BY ProcessesAssumption DEF Inv, Typed, TypeOK
<1>2. maxThreads' = maxThreads /\ Freq' = Freq
  BY DEF Next, ParentStep, ChildStep, ChildDies, vars, DivideFiles, CreatePipe, PipeFails, ForkFails,
         Fork, ParentClosesWrite, ParentReads, ParentSeesEof, WaitAndMerge, ReturnFromCall,
         ChildStarts, CountFile, Serialize, ChildWrites, ChildClosesWrite, ChildExits, RemoveFile,
         Finished
<1> QED
  BY <1>1, <1>2 DEF p, numProcesses

(* The files of a process. *)
LEMMA GroupBounds ==
  ASSUME Inv, i < p
  PROVE  /\ i \in 0..(NumFiles - 1)
         /\ first(i) \in 1..NumFiles /\ last(i) \in 1..NumFiles /\ first(i) <= last(i)
<1>1. maxThreads \in Nat /\ NumFiles \in Nat \ {0} /\ i \in 0..p
  BY ProcessesAssumption DEF Inv, Typed, TypeOK
<1>2. p \in 1..NumFiles /\ i \in 0..(p - 1)
  BY <1>1 DEF p, numProcesses
<1>3. /\ startIdx(NumFiles, p, i) \in 0..(NumFiles - 1)
      /\ startIdx(NumFiles, p, i) < endIdx(NumFiles, p, i) /\ endIdx(NumFiles, p, i) \in 1..NumFiles
  BY <1>1, <1>2, SharesEven
<1> QED
  BY <1>1, <1>2, <1>3 DEF first, last

(* The entry that WaitAndMerge appends, and what results holds then. *)
LEMMA MergeAppends ==
  ASSUME Inv, i < p, NEW e,
         e = [process |-> i, stats |-> deserializeFileStats(resultData)],
         results' = Append(results, e)
  PROVE  /\ e \in Entries /\ e.process = i
         /\ results' \in Seq(Entries) /\ Len(results) \in Nat
         /\ Len(results') = Len(results) + 1
         /\ \A k \in 1..Len(results) : results'[k] = results[k]
         /\ results'[Len(results) + 1] = e
<1>1. i \in 0..(NumFiles - 1) /\ results \in Seq(Entries) /\ resultData \in Seq(Tokens)
  BY GroupBounds DEF Inv, Typed
<1>2. e \in Entries /\ e.process = i
  BY <1>1 DEF Entries
<1> QED
  BY <1>1, <1>2, AppendProperties, LenProperties

(* Every step of the parent, the child or the directory keeps Inv. *)
LEMMA InvStep ==
  ASSUME Inv, [Next]_vars
  PROVE  Inv'
<1> USE ProcessesAssumption DEF Inv, Typed, TypeOK, EndsFollow, HeaderComes, received, Answered,
        Accounts, FailedIsLeftOut
<1>a. /\ p \in 0..NumFiles /\ p' = p /\ Freq' = Freq /\ maxThreads' = maxThreads
      /\ NumFiles \in Nat
      /\ results' = results => Reported' = Reported
      /\ <<>> \in Seq(Tokens) /\ Len(<<>>) = 0
  <2>1. results' = results => Reported' = Reported
    BY DEF Reported
  <2>2. <<>> \in Seq(Tokens) /\ Len(<<>>) = 0
    BY EmptySeq
  <2> QED
    BY <2>1, <2>2, ProcessCount
<1>b. \A k : first(k)' = first(k) /\ last(k)' = last(k)
  BY <1>a DEF first, last
<1>c. i < p => /\ i \in 0..(NumFiles - 1)
               /\ first(i) \in 1..NumFiles /\ last(i) \in 1..NumFiles /\ first(i) <= last(i)
  BY GroupBounds
<1> HIDE DEF Inv
<1>1. CASE DivideFiles
  BY <1>a, <1>b, <1>1 DEF DivideFiles, childVars, pipeVars, historyVars, Inv
<1>2. CASE CreatePipe
  BY <1>a, <1>b, <1>2 DEF CreatePipe, childVars, historyVars, Inv
<1>3. CASE PipeFails
  BY <1>a, <1>b, <1>3 DEF PipeFails, NextProcess, childVars, pipeVars, Inv
<1>4. CASE ForkFails
  BY <1>a, <1>b, <1>4 DEF ForkFails, NextProcess, childVars, Inv
<1>5. CASE Fork
  BY <1>a, <1>b, <1>5 DEF Fork, historyVars, Inv
<1>6. CASE ParentClosesWrite
  BY <1>a, <1>b, <1>6 DEF ParentClosesWrite, childVars, historyVars, Inv
<1>7. CASE ParentReads
  <2> DEFINE n == IF Len(pipe) < BufferSize THEN Len(pipe) ELSE BufferSize
             chunk == SubSeq(pipe, 1, n)
             rest == SubSeq(pipe, n + 1, Len(pipe))
  <2>1. /\ ppc = "read" /\ pipe \in Seq(Tokens) /\ pipe # <<>> /\ resultData \in Seq(Tokens)
        /\ resultData' = AppendChunk(resultData, chunk) /\ pipe' = rest
        /\ UNCHANGED <<maxThreads, Freq, onDisk, ppc, i, results, readers, writers, cpc, next,
                       combined, unsent, opened, failed>>
    BY <1>7 DEF ParentReads, childVars, historyVars, Inv
  <2>2. Len(pipe) \in Nat /\ Len(pipe) > 0
    BY <2>1, EmptySeq
  <2>3. n \in 1..Len(pipe)
    BY <2>2
  <2> HIDE DEF n
  <2>4. \A k \in 1..Len(pipe) : pipe[k] \in Tokens
    BY <2>1, ElementOfSeq
  <2>5. chunk \in Seq(Tokens) /\ Len(chunk) = n /\ chunk[1] = pipe[1]
    <3>1. \A k \in 1..n : pipe[k] \in Tokens
      BY <2>2, <2>3, <2>4
    <3>2. /\ chunk \in Seq(Tokens) /\ Len(chunk) = IF 1 <= n THEN n - 1 + 1 ELSE 0
          /\ \A k \in 1..(n - 1 + 1) : chunk[k] = pipe[1 + k - 1]
      BY <2>2, <2>3, <3>1, SubSeqProperties
    <3> QED
      BY <2>2, <2>3, <3>2
  <2>6. rest \in Seq(Tokens) /\ Len(rest) <= Len(pipe)
    <3>1. \A k \in (n + 1)..Len(pipe) : pipe[k] \in Tokens
      BY <2>2, <2>3, <2>4
    <3>2. /\ rest \in Seq(Tokens)
          /\ Len(rest) = IF n + 1 <= Len(pipe) THEN Len(pipe) - (n + 1) + 1 ELSE 0
      BY <2>2, <2>3, <3>1, SubSeqProperties
    <3> QED
      BY <2>2, <2>3, <3>2
  <2>7. chunk # <<>>
    BY <2>3, <2>5, EmptySeq
  <2> HIDE DEF chunk, rest
  <2>8. /\ resultData' \in Seq(Tokens)
        /\ resultData # <<>> => resultData' # <<>>
        /\ pipe[1].kind = "header" => resultData' # <<>>
    BY <2>1, <2>5, <2>7, ChunkAppended
  <2>9. pipe' \in Seq(Tokens) /\ Len(pipe') <= PipeCapacity
    BY <2>1, <2>2, <2>6, LenProperties DEF Inv
  <2> QED
    BY <1>a, <1>b, <2>1, <2>8, <2>9 DEF StartsWithHeader, Inv
<1>8. CASE ParentSeesEof
  BY <1>a, <1>b, <1>8 DEF ParentSeesEof, childVars, historyVars, Inv
<1>9. CASE WaitAndMerge
  <2>1. /\ ppc = "wait" /\ i < p /\ cpc \in {"exited", "dead"} /\ cpc' = "none"
        /\ "parent" \notin readers /\ writers = {} /\ readers = {} /\ pipe = <<>> /\ unsent = <<>>
        /\ UNCHANGED <<maxThreads, Freq, onDisk, resultData, pipe, readers, writers, next, combined,
                       unsent, opened, failed>>
    BY <1>9 DEF WaitAndMerge, pipeVars, historyVars, Inv
  <2>2. cpc = "exited" => resultData # <<>>
    BY <2>1 DEF StartsWithHeader, Inv
  <2>3. CASE ~ChildSucceeded /\ NextProcess /\ UNCHANGED results
    BY <1>a, <1>b, <2>1, <2>2, <2>3 DEF ChildSucceeded, NextProcess, Inv
  <2>4. CASE ChildSucceeded /\ ppc' = "aborted" /\ UNCHANGED <<i, results>>
    BY <1>a, <1>b, <2>1, <2>4 DEF ChildSucceeded, Inv
  <2>5. CASE /\ ChildSucceeded /\ NextProcess
             /\ results' = Append(results, [process |-> i, stats |-> deserializeFileStats(resultData)])
    <3>1. PICK e : /\ e = [process |-> i, stats |-> deserializeFileStats(resultData)]
                   /\ results' = Append(results, e)
      BY <2>5
    <3>2. /\ e.process = i /\ results' \in Seq(Entries) /\ Len(results) \in Nat
          /\ Len(results') = Len(results) + 1
          /\ \A k \in 1..Len(results) : results'[k] = results[k]
          /\ results'[Len(results) + 1] = e
      BY <2>1, <3>1, MergeAppends
    <3>3. Reported' = Reported \cup {i}
      <4>1. \A k \in 1..Len(results') : k \in 1..Len(results) \/ k = Len(results) + 1
        BY <3>2
      <4>2. 1..Len(results) \subseteq 1..Len(results') /\ Len(results) + 1 \in 1..Len(results')
        BY <3>2
      <4> QED
        BY <3>2, <4>1, <4>2 DEF Reported
    <3>4. i' = i + 1 /\ ppc' = "loop" /\ cpc = "exited"
      BY <2>5 DEF NextProcess, ChildSucceeded
    <3> QED
      BY <1>a, <1>b, <2>1, <3>2, <3>3, <3>4 DEF Inv
  <2> QED
    BY <1>9, <2>3, <2>4, <2>5 DEF WaitAndMerge
<1>10. CASE ReturnFromCall
  BY <1>a, <1>b, <1>10 DEF ReturnFromCall, childVars, pipeVars, historyVars, Inv
<1>11. CASE ChildStarts
  <2>1. Nothing \in [Words -> Nat]
    BY DEF Nothing
  <2>2. /\ next' = first(i) /\ i < p /\ combined' = Nothing
        /\ next' \in first(i)..(last(i) + 1)
    BY <1>c, <1>11 DEF ChildStarts, Inv
  <2> QED
    BY <1>a, <1>b, <1>11, <2>1, <2>2 DEF ChildStarts, parentVars, historyVars, Inv
<1>12. CASE CountFile
  <2>1. next' \in first(i)..(last(i) + 1)
    BY <1>a, <1>b, <1>c, <1>12 DEF CountFile, MoreFiles, Inv
  <2>2. combined' \in [Words -> Nat]
    <3>1. CASE next \in onDisk
      <4>1. Freq[next] \in [Words -> Nat] /\ combined \in [Words -> Nat]
        BY <3>1 DEF Inv, Files
      <4> QED
        BY <1>12, <3>1, <4>1 DEF CountFile
    <3> QED
      BY <1>12, <3>1 DEF CountFile, Inv
  <2>3. opened' \subseteq Files
    BY <1>12 DEF CountFile, Inv
  <2> QED
    BY <1>a, <1>b, <1>12, <2>1, <2>2, <2>3 DEF CountFile, parentVars, pipeVars, Inv
<1>13. CASE Serialize
  <2>1. unsent' \in Seq(Tokens) /\ StartsWithHeader(unsent')
    BY <1>13, SerializedStarts DEF Serialize, Statistics, StartsWithHeader, Inv
  <2> QED
    BY <1>a, <1>b, <1>13, <2>1 DEF Serialize, parentVars, pipeVars, historyVars, Inv
<1>14. CASE ChildWrites
  <2>1. /\ unsent \in Seq(Tokens) /\ unsent # <<>> /\ pipe \in Seq(Tokens)
        /\ Len(pipe) < PipeCapacity
        /\ pipe' = Append(pipe, Head(unsent)) /\ unsent' = Tail(unsent)
    BY <1>14 DEF ChildWrites, Inv
  <2>2. Head(unsent) \in Tokens /\ Tail(unsent) \in Seq(Tokens) /\ Head(unsent) = unsent[1]
    BY <2>1, HeadTailProperties
  <2>3. /\ pipe' \in Seq(Tokens) /\ Len(pipe') = Len(pipe) + 1 /\ Len(pipe) \in Nat
        /\ \A k \in 1..Len(pipe) : pipe'[k] = pipe[k]
        /\ pipe'[Len(pipe) + 1] = unsent[1]
    BY <2>1, <2>2, AppendProperties, LenProperties
  <2>4. StartsWithHeader(pipe) \/ (pipe = <<>> /\ StartsWithHeader(unsent)) => StartsWithHeader(pipe')
    <3>1. pipe' # <<>>
      BY <2>1, <2>2, AppendProperties
    <3>2. pipe # <<>> => Len(pipe) > 0
      BY <2>1, EmptySeq
    <3>3. pipe = <<>> => Len(pipe) = 0
      BY <1>a
    <3> QED
      BY <2>3, <3>1, <3>2, <3>3 DEF StartsWithHeader
  <2>5. Len(pipe') <= PipeCapacity
    BY <2>1, <2>3
  <2> QED
    BY <1>a, <1>b, <1>14, <2>1, <2>2, <2>3, <2>4, <2>5 DEF ChildWrites, parentVars, historyVars, Inv
<1>15. CASE ChildClosesWrite
  BY <1>a, <1>b, <1>15 DEF ChildClosesWrite, parentVars, historyVars, Inv
<1>16. CASE ChildExits
  BY <1>a, <1>b, <1>16 DEF ChildExits, parentVars, pipeVars, historyVars, Inv
<1>17. CASE ChildDies
  BY <1>a, <1>b, <1>17, SMTT(30) DEF ChildDies, parentVars, Inv
<1>18. CASE \E f \in Files : RemoveFile(f)
  BY <1>a, <1>b, <1>18 DEF RemoveFile, parentVars, pipeVars, childVars, historyVars, Inv
<1>19. CASE UNCHANGED vars
  BY <1>a, <1>b, <1>19 DEF vars, parentVars, pipeVars, childVars, historyVars, Inv
<1> QED
  BY <1>1, <1>2, <1>3, <1>4, <1>5, <1>6, <1>7, <1>8, <1>9, <1>10, <1>11, <1>12,
     <1>13, <1>14, <1>15, <1>16, <1>17, <1>18, <1>19
  DEF Next, ParentStep, ChildStep, Finished

(* Inv holds in every state of the call, whatever fails and whoever dies. *)
THEOREM CallInvariant == SafetySpec => []Inv
<1>1. Init => Inv
  <2> SUFFICES ASSUME Init PROVE Inv
    OBVIOUS
  <2>1. p \in Nat
    BY ProcessesAssumption DEF Init, p, numProcesses
  <2>2. /\ <<>> \in Seq(Entries) /\ <<>> \in Seq(Tokens) /\ Len(<<>>) = 0
    BY EmptySeq
  <2>3. Nothing \in [Words -> Nat]
    BY DEF Nothing
  <2>4. Reported = {} /\ 0..(i - 1) = {}
    BY <2>2 DEF Init, Reported
  <2> QED
    BY <2>1, <2>2, <2>3, <2>4, ProcessesAssumption
    DEF Init, Inv, Typed, TypeOK, EndsFollow, HeaderComes, received, Answered, Accounts, FailedIsLeftOut
<1> QED
  BY <1>1, InvStep, PTL DEF SafetySpec

(* Each variable has its type: the pipe never holds more than it can, and    *)
(* the child counts no file outside its group.                               *)
THEOREM TypeCorrect == SafetySpec => []TypeOK
BY CallInvariant, PTL DEF Inv, Typed

(* However a turn of the loop ends, it leaves no descriptor and no child.    *)
THEOREM LoopHeadCleanHolds == SafetySpec => []LoopHeadClean
<1>1. Inv => LoopHeadClean
  BY DEF Inv, Typed, TypeOK, EndsFollow, LoopHeadClean
<1> QED
  BY <1>1, CallInvariant, PTL

(* A group is left out exactly when its pipe, its fork or its child failed.  *)
THEOREM FailedIsLeftOutHolds == SafetySpec => []FailedIsLeftOut
BY CallInvariant, PTL DEF Inv, Accounts

(* What the parent waits for in read and waitpid, and the child in write; a  *)
(* child that does not run cannot go on either.                              *)
ParentWaits ==
  \/ ppc = "read" /\ pipe = <<>> /\ writers # {}
  \/ ppc = "wait" /\ cpc \notin {"exited", "dead"}

ChildWaits ==
  \/ cpc \in {"none", "exited", "dead"}
  \/ cpc = "write" /\ unsent # <<>> /\ Len(pipe) >= PipeCapacity

(* While the parent waits the child can go on (file_processor.cpp:231, :240),*)
(* whatever the sizes of the pipe, of the buffer and of the result: it       *)
(* empties the pipe before it reaps the child, and only the child keeps the  *)
(* pipe from its end.                                                        *)
THEOREM NeverBothWait == SafetySpec => [](ParentWaits => ~ChildWaits)
<1>1. Inv /\ ParentWaits => ~ChildWaits
  <2> SUFFICES ASSUME Inv, ParentWaits PROVE ~ChildWaits
    OBVIOUS
  <2>1. CASE ppc = "read" /\ pipe = <<>> /\ writers # {}
    <3>1. "child" \in writers
      BY <2>1 DEF Inv, Typed, TypeOK, EndsFollow
    <3>2. cpc \in {"start", "count", "write"}
      BY <3>1 DEF Inv, EndsFollow
    <3>3. Len(pipe) < PipeCapacity
      BY <2>1, ProcessesAssumption
    <3> QED
      BY <3>2, <3>3, ProcessesAssumption DEF ChildWaits
  <2>2. CASE ppc = "wait" /\ cpc \notin {"exited", "dead"}
    BY <2>2 DEF Inv, EndsFollow, ChildWaits
  <2> QED
    BY <2>1, <2>2 DEF ParentWaits
<1> QED
  BY <1>1, CallInvariant, PTL

(* What is left to do: turns of the loop, and in this turn what is left to   *)
(* the parent, to the child, of its files, of its result, and in the pipe;   *)
(* and what can still be removed from the directory.                         *)
ParentLeft ==
  CASE ppc = "divide" -> 6 [] ppc = "loop" -> 5 [] ppc = "fork" -> 4
    [] ppc = "closeWrite" -> 3 [] ppc = "read" -> 2 [] ppc = "wait" -> 1 [] OTHER -> 0

ChildLeft ==
  CASE cpc = "start" -> 4 [] cpc = "count" -> 3 [] cpc = "write" -> 2 [] cpc = "exit" -> 1
    [] OTHER -> 0

FilesLeft == IF cpc = "count" THEN last(i) + 1 - next ELSE 0

ToDo == <<p - i, ParentLeft, ChildLeft, FilesLeft, Len(unsent), Len(pipe), Cardinality(onDisk)>>

(* What is left to do is counted by numbers. *)
LEMMA ToDoTyped == Inv => ToDo \in [1..7 -> Nat]
<1> SUFFICES ASSUME Inv PROVE ToDo \in [1..7 -> Nat]
  OBVIOUS
<1>1. p - i \in Nat
  BY ProcessesAssumption DEF Inv, Typed, TypeOK, p, numProcesses
<1>2. ParentLeft \in Nat /\ ChildLeft \in Nat
  BY DEF ParentLeft, ChildLeft
<1>3. FilesLeft \in Nat
  <2>1. cpc = "count" => next \in first(i)..(last(i) + 1) /\ i < p
    BY DEF Inv, Typed, TypeOK, EndsFollow
  <2>2. cpc = "count" => first(i) \in Nat /\ last(i) \in Nat
    BY <2>1, GroupBounds
  <2> QED
    BY <2>1, <2>2 DEF FilesLeft
<1>4. Len(unsent) \in Nat /\ Len(pipe) \in Nat
  BY LenProperties DEF Inv, Typed
<1>5. Cardinality(onDisk) \in Nat
  <2>1. onDisk \in SUBSET Files /\ IsFiniteSet(Files)
    BY ProcessesAssumption, FS_Interval DEF Inv, Typed, TypeOK, Files
  <2> QED
    BY <2>1, FS_Subset, FS_CardinalityType
<1> QED
  BY <1>1, <1>2, <1>3, <1>4, <1>5 DEF ToDo

(* Every step of the parent, the child or the directory leaves less to do.   *)
LEMMA ToDoStep ==
  ASSUME Inv, [Next]_vars
  PROVE  [Below(ToDo', ToDo)]_vars
<1> SUFFICES ASSUME Next, ~UNCHANGED vars PROVE Below(ToDo', ToDo)
  OBVIOUS
<1>1. /\ DOMAIN ToDo = 1..7
      /\ ToDo[1] = p - i /\ ToDo[2] = ParentLeft /\ ToDo[3] = ChildLeft /\ ToDo[4] = FilesLeft
      /\ ToDo[5] = Len(unsent) /\ ToDo[6] = Len(pipe) /\ ToDo[7] = Cardinality(onDisk)
  BY DEF ToDo
<1>2. /\ ToDo'[1] = p' - i' /\ ToDo'[2] = ParentLeft' /\ ToDo'[3] = ChildLeft'
      /\ ToDo'[4] = FilesLeft' /\ ToDo'[5] = Len(unsent)' /\ ToDo'[6] = Len(pipe)'
      /\ ToDo'[7] = Cardinality(onDisk)'
  BY DEF ToDo
<1>3. ASSUME NEW k \in 1..7, ToDo'[k] < ToDo[k], \A j \in 1..(k - 1) : ToDo'[j] = ToDo[j]
      PROVE  Below(ToDo', ToDo)
  BY <1>1, <1>3 DEF Below
<1>4. p \in Nat /\ p' = p /\ i \in Nat
  BY ProcessCount, ProcessesAssumption DEF Inv, Typed, TypeOK
<1> HIDE DEF ToDo
<1>5. ASSUME i' = i + 1 PROVE Below(ToDo', ToDo)
  <2>1. ToDo'[1] < ToDo[1]
    BY <1>1, <1>2, <1>4, <1>5
  <2> QED
    BY <1>3, <2>1
<1>6. ASSUME i' = i, ParentLeft' < ParentLeft PROVE Below(ToDo', ToDo)
  <2>1. ToDo'[1] = ToDo[1] /\ ToDo'[2] < ToDo[2]
    BY <1>1, <1>2, <1>4, <1>6
  <2> QED
    BY <1>3, <2>1
<1>7. ASSUME i' = i, ppc' = ppc, ChildLeft' < ChildLeft PROVE Below(ToDo', ToDo)
  <2>1. ToDo'[1] = ToDo[1] /\ ToDo'[2] = ToDo[2] /\ ToDo'[3] < ToDo[3]
    BY <1>1, <1>2, <1>4, <1>7 DEF ParentLeft
  <2> QED
    BY <1>3, <2>1
<1>8. ASSUME i' = i, ppc' = ppc, cpc' = cpc, FilesLeft' < FilesLeft PROVE Below(ToDo', ToDo)
  <2>1. ToDo'[1] = ToDo[1] /\ ToDo'[2] = ToDo[2] /\ ToDo'[3] = ToDo[3] /\ ToDo'[4] < ToDo[4]
    BY <1>1, <1>2, <1>4, <1>8 DEF ParentLeft, ChildLeft
  <2> QED
    BY <1>3, <2>1
<1>9. ASSUME i' = i, ppc' = ppc, cpc' = cpc, next' = next
      PROVE  \A j \in 1..4 : ToDo'[j] = ToDo[j]
  BY <1>1, <1>2, <1>4, <1>9 DEF ParentLeft, ChildLeft, FilesLeft, last
<1>10. CASE DivideFiles \/ CreatePipe \/ Fork \/ ParentClosesWrite \/ ParentSeesEof \/ ReturnFromCall
  <2>1. i' = i
    BY <1>10 DEF DivideFiles, CreatePipe, Fork, ParentClosesWrite, ParentSeesEof, ReturnFromCall
  <2>2. ParentLeft' < ParentLeft
    BY <1>10 DEF DivideFiles, CreatePipe, Fork, ParentClosesWrite, ParentSeesEof, ReturnFromCall, ParentLeft
  <2> QED
    BY <1>6, <2>1, <2>2
<1>11. CASE PipeFails \/ ForkFails
  BY <1>5, <1>11 DEF PipeFails, ForkFails, NextProcess
<1>12. CASE WaitAndMerge
  <2>1. CASE NextProcess
    BY <1>5, <2>1 DEF NextProcess
  <2>2. CASE ppc' = "aborted" /\ i' = i
    <3>1. ParentLeft' < ParentLeft
      BY <1>12, <2>2 DEF WaitAndMerge, ParentLeft
    <3> QED
      BY <1>6, <2>2, <3>1
  <2> QED
    BY <1>12, <2>1, <2>2 DEF WaitAndMerge
<1>13. CASE ChildStarts \/ Serialize \/ ChildClosesWrite \/ ChildExits \/ ChildDies
  <2>1. i' = i /\ ppc' = ppc
    BY <1>13 DEF ChildStarts, Serialize, ChildClosesWrite, ChildExits, ChildDies, parentVars
  <2>2. ChildLeft' < ChildLeft
    BY <1>13 DEF ChildStarts, Serialize, ChildClosesWrite, ChildExits, ChildDies, ChildLeft
  <2> QED
    BY <1>7, <2>1, <2>2
<1>14. CASE CountFile
  <2>1. i' = i /\ ppc' = ppc /\ cpc' = cpc /\ cpc = "count" /\ next' = next + 1
    BY <1>14 DEF CountFile, parentVars
  <2>2. last(i)' = last(i)
    BY <1>4, <2>1 DEF last
  <2>3. last(i) \in Nat /\ next \in Nat
    <3>1. i < p /\ next \in first(i)..(last(i) + 1)
      BY <2>1 DEF Inv, Typed, TypeOK, EndsFollow
    <3> QED
      BY <3>1, GroupBounds
  <2>4. FilesLeft' < FilesLeft
    BY <2>1, <2>2, <2>3 DEF FilesLeft
  <2> QED
    BY <1>8, <2>1, <2>4
<1>15. CASE ChildWrites
  <2>1. i' = i /\ ppc' = ppc /\ cpc' = cpc /\ next' = next
    BY <1>15 DEF ChildWrites, parentVars
  <2>2. Len(unsent)' < Len(unsent)
    BY <1>15, HeadTailProperties, LenProperties DEF ChildWrites, Inv, Typed
  <2>3. ToDo'[5] < ToDo[5]
    BY <1>1, <1>2, <2>2
  <2> QED
    BY <1>3, <1>9, <2>1, <2>3
<1>16. CASE ParentReads
  <2>1. i' = i /\ ppc' = ppc /\ cpc' = cpc /\ next' = next /\ unsent' = unsent
    BY <1>16 DEF ParentReads, childVars
  <2>2. Len(pipe)' < Len(pipe)
    <3>1. pipe \in Seq(Tokens) /\ pipe # <<>>
      BY <1>16 DEF ParentReads, Inv, Typed
    <3>2. Len(pipe) \in Nat \ {0}
      BY <3>1, LenProperties
    <3> DEFINE n == IF Len(pipe) < BufferSize THEN Len(pipe) ELSE BufferSize
    <3>3. n \in 1..Len(pipe)
      BY <3>2, ProcessesAssumption
    <3>4. pipe' = SubSeq(pipe, n + 1, Len(pipe))
      BY <1>16 DEF ParentReads
    <3> HIDE DEF n
    <3> QED
      BY <3>1, <3>2, <3>3, <3>4, SubSeqProperties
  <2>3. ToDo'[5] = ToDo[5] /\ ToDo'[6] < ToDo[6]
    BY <1>1, <1>2, <2>1, <2>2
  <2> QED
    BY <1>3, <1>9, <2>1, <2>3
<1>17. ASSUME NEW f \in Files, RemoveFile(f) PROVE Below(ToDo', ToDo)
  <2>1. /\ i' = i /\ ppc' = ppc /\ cpc' = cpc /\ next' = next /\ unsent' = unsent /\ pipe' = pipe
        /\ f \in onDisk /\ onDisk' = onDisk \ {f}
    BY <1>17 DEF RemoveFile, parentVars, pipeVars, childVars
  <2>2. Cardinality(onDisk)' < Cardinality(onDisk)
    <3>1. onDisk \in SUBSET Files /\ IsFiniteSet(Files)
      BY ProcessesAssumption, FS_Interval DEF Inv, Typed, TypeOK, Files
    <3>2. IsFiniteSet(onDisk) /\ Cardinality(onDisk) \in Nat
      BY <3>1, FS_Subset, FS_CardinalityType
    <3>3. Cardinality(onDisk \ {f}) = Cardinality(onDisk) - 1
      BY <2>1, <3>2, FS_RemoveElement
    <3> QED
      BY <2>1, <3>2, <3>3
  <2>3. ToDo'[5] = ToDo[5] /\ ToDo'[6] = ToDo[6] /\ ToDo'[7] < ToDo[7]
    BY <1>1, <1>2, <2>1, <2>2
  <2> QED
    BY <1>3, <1>9, <2>1, <2>3
<1> QED
  BY <1>10, <1>11, <1>12, <1>13, <1>14, <1>15, <1>16, <1>17 DEF Next, ParentStep, ChildStep, Finished

(* Every step leaves less to do, in an order in which nothing goes down for  *)
(* ever (NoEndlessDescent): the loops of file_processor.cpp:176-248 cannot go*)
(* round for ever, whatever the sizes and whichever steps fail. With         *)
(* NeverBothWait, steps only come to an end when the call has returned or the*)
(* program has died.                                                         *)
THEOREM EveryStepGetsOn == SafetySpec => [](ToDo \in [1..7 -> Nat]) /\ [][Below(ToDo', ToDo)]_vars
BY ToDoTyped, ToDoStep, CallInvariant, PTL DEF SafetySpec

-------------------------------------------------------------------------------
accountedNow == IF p = 0 THEN 0 ELSE startIdx(NumFiles, p, i)
reportedNow  == [k \in 1..Len(results) |-> Group(results[k].process)]
droppedNow   == UNION {Group(k) : k \in (0..(i - 1)) \ Reported}

(* A turn of the loop accounts for the share of process i. *)
LEMMA TurnAccounts ==
  ASSUME Inv, [Next]_vars, i < p, i' = i + 1
  PROVE  /\ Group(i) = (accountedNow + 1)..accountedNow'
         /\ accountedNow' \in (accountedNow + 1)..NumFiles
<1>1. p \in 1..NumFiles /\ p' = p /\ i \in 0..(p - 1) /\ NumFiles \in Nat \ {0}
  BY ProcessCount, ProcessesAssumption DEF Inv, Typed, TypeOK
<1>2. accountedNow = startIdx(NumFiles, p, i) /\ accountedNow' = startIdx(NumFiles, p, i + 1)
  BY <1>1 DEF accountedNow
<1>3. endIdx(NumFiles, p, i) = startIdx(NumFiles, p, i + 1)
  BY <1>1, SharesAdjacent
<1>4. /\ startIdx(NumFiles, p, i) \in 0..(NumFiles - 1)
      /\ startIdx(NumFiles, p, i) < endIdx(NumFiles, p, i) /\ endIdx(NumFiles, p, i) \in 1..NumFiles
  BY <1>1, SharesEven
<1> QED
  BY <1>1, <1>2, <1>3, <1>4 DEF Group, first, last

(* Every group has the same files in every state. *)
LEMMA GroupsStay ==
  ASSUME Inv, [Next]_vars
  PROVE  /\ \A k : first(k)' = first(k) /\ last(k)' = last(k) /\ Group(k)' = Group(k)
         /\ results' = results => reportedNow' = reportedNow /\ Reported' = Reported
<1>1. \A k : first(k)' = first(k) /\ last(k)' = last(k)
  BY ProcessCount DEF first, last
<1>2. \A k : Group(k)' = Group(k)
  BY <1>1 DEF Group
<1>3. results' = results => reportedNow' = reportedNow
  BY <1>2 DEF reportedNow
<1>4. results' = results => Reported' = Reported
  BY DEF Reported
<1> QED
  BY <1>1, <1>2, <1>3, <1>4

(* The call implements the abstract report: every group is reported or, if   *)
(* its pipe, its fork or its child failed, dropped as a whole, in the order  *)
(* of the files, and the call returns after the last.                        *)
THEOREM CallImplementsReport == SafetySpec => ReportSpec
<1>1. Init => Report!Init
  <2> SUFFICES ASSUME Init PROVE Report!Init
    OBVIOUS
  <2>1. NumFiles \in Nat /\ p \in Nat /\ (p = 0 \/ startIdx(NumFiles, p, 0) = 0)
    BY ProcessesAssumption, SharesCover DEF Init, p, numProcesses
  <2>2. Len(results) = 0 /\ i = 0 /\ ppc = "divide" /\ 0..(i - 1) = {}
    BY EmptySeq DEF Init
  <2>3. reportedNow = <<>> /\ droppedNow = {}
    BY <2>2 DEF reportedNow, droppedNow
  <2> QED
    BY <2>1, <2>2, <2>3 DEF Report!Init, reportedNow, droppedNow
<1>2. Inv /\ [Next]_vars => [Report!Next]_(Report!vars)
  <2> SUFFICES ASSUME Inv, [Next]_vars PROVE [Report!Next]_(Report!vars)
    OBVIOUS
  <2>0. p' = p /\ i \in Nat
    BY ProcessCount DEF Inv, Typed, TypeOK
  <2>1. ASSUME UNCHANGED <<i, results>>, (ppc = "gone") = (ppc' = "gone")
        PROVE  UNCHANGED Report!vars
    <3>1. reportedNow' = reportedNow /\ accountedNow' = accountedNow
      BY <2>0, <2>1, GroupsStay DEF accountedNow
    <3>2. droppedNow' = droppedNow
      BY <2>1, GroupsStay DEF droppedNow
    <3> QED
      BY <2>1, <3>1, <3>2 DEF Report!vars, reportedNow, droppedNow, accountedNow
  <2>2. ASSUME i < p, NextProcess, ppc # "gone", UNCHANGED results
        PROVE  Report!Next
    <3>1. Reported' = Reported /\ i \notin Reported
      BY <2>0, <2>2, GroupsStay DEF Inv, Accounts
    <3>2. (0..(i' - 1)) \ Reported' = ((0..(i - 1)) \ Reported) \cup {i}
      BY <2>0, <2>2, <3>1 DEF NextProcess
    <3>3. droppedNow' = droppedNow \cup Group(i)
      <4>1. droppedNow' = UNION {Group(k) : k \in (0..(i' - 1)) \ Reported'}
        BY GroupsStay DEF droppedNow
      <4> QED
        BY <3>2, <4>1 DEF droppedNow
    <3>4. reportedNow' = reportedNow /\ ppc' # "gone"
      BY <2>2, GroupsStay DEF NextProcess
    <3>5. /\ Group(i) = (accountedNow + 1)..accountedNow'
          /\ accountedNow' \in (accountedNow + 1)..NumFiles
      BY <2>2, TurnAccounts DEF NextProcess
    <3>6. Report!Drop(accountedNow')
      BY <2>2, <3>3, <3>4, <3>5 DEF Report!Drop, reportedNow, droppedNow, accountedNow
    <3> QED
      BY <3>5, <3>6 DEF Report!Next, accountedNow
  <2>3. ASSUME i < p, NextProcess, ppc # "gone",
               results' = Append(results, [process |-> i, stats |-> deserializeFileStats(resultData)])
        PROVE  Report!Next
    <3> DEFINE g == [x \in Entries |-> Group(x.process)]
               T == {Group(x.process) : x \in Entries}
    <3>1. PICK e : /\ e = [process |-> i, stats |-> deserializeFileStats(resultData)]
                   /\ results' = Append(results, e)
      BY <2>3
    <3>2. /\ e \in Entries /\ e.process = i /\ results' \in Seq(Entries) /\ Len(results) \in Nat
          /\ Len(results') = Len(results) + 1
          /\ \A k \in 1..Len(results) : results'[k] = results[k]
          /\ results'[Len(results) + 1] = e
      BY <2>3, <3>1, MergeAppends
    <3>3. results \in Seq(Entries)
      BY DEF Inv, Typed
    <3>4. reportedNow' = Append(reportedNow, Group(i))
      <4>1. \A x \in Entries : Group(x.process) \in T
        OBVIOUS
      <4>2. g \in [Entries -> T] /\ g[e] = Group(i)
        BY <3>2, <4>1
      <4>3. /\ \A k \in 1..Len(results) : results[k] \in Entries
            /\ \A k \in 1..Len(results') : results'[k] \in Entries
        BY <3>2, <3>3, ElementOfSeq
      <4>4. reportedNow = [k \in 1..Len(results) |-> g[results[k]]]
        BY <4>3 DEF reportedNow
      <4>5. reportedNow' = [k \in 1..Len(results') |-> g[results'[k]]]
        BY <4>3, GroupsStay DEF reportedNow
      <4> HIDE DEF g, T
      <4> QED
        BY <3>1, <3>2, <3>3, <4>2, <4>4, <4>5, OneMoreGroup
    <3>5. Reported' = Reported \cup {i}
      <4>1. \A k \in 1..Len(results') : k \in 1..Len(results) \/ k = Len(results) + 1
        BY <3>2
      <4>2. 1..Len(results) \subseteq 1..Len(results') /\ Len(results) + 1 \in 1..Len(results')
        BY <3>2
      <4> QED
        BY <3>2, <4>1, <4>2 DEF Reported
    <3>6. (0..(i' - 1)) \ Reported' = (0..(i - 1)) \ Reported
      BY <2>0, <2>3, <3>5 DEF NextProcess
    <3>7. droppedNow' = droppedNow
      <4>1. droppedNow' = UNION {Group(k) : k \in (0..(i' - 1)) \ Reported'}
        BY GroupsStay DEF droppedNow
      <4> QED
        BY <3>6, <4>1 DEF droppedNow
    <3>8. /\ Group(i) = (accountedNow + 1)..accountedNow'
          /\ accountedNow' \in (accountedNow + 1)..NumFiles
      BY <2>3, TurnAccounts DEF NextProcess
    <3>9. Report!Report(accountedNow')
      BY <2>3, <3>4, <3>7, <3>8 DEF Report!Report, reportedNow, droppedNow, accountedNow, NextProcess
    <3> QED
      BY <3>8, <3>9 DEF Report!Next, accountedNow
  <2>4. CASE ReturnFromCall
    <3>1. /\ i = p /\ ppc = "loop" /\ ppc' = "gone" /\ p > 0 /\ p \in Nat /\ NumFiles \in Nat
          /\ UNCHANGED <<i, results>>
      BY <2>4, ProcessesAssumption, ProcessCount DEF ReturnFromCall, Inv, Typed
    <3>2. accountedNow = NumFiles
      BY <3>1, SharesCover DEF accountedNow
    <3>3. reportedNow' = reportedNow /\ droppedNow' = droppedNow /\ accountedNow' = accountedNow
      <4>1. droppedNow' = droppedNow
        BY <3>1, GroupsStay DEF droppedNow
      <4> QED
        BY <2>0, <3>1, <4>1, GroupsStay DEF accountedNow
    <3>4. Report!Return
      BY <3>1, <3>2, <3>3 DEF Report!Return, reportedNow, droppedNow, accountedNow
    <3> QED
      BY <3>4 DEF Report!Next
  <2>5. CASE PipeFails \/ ForkFails
    <3>1. i < p /\ NextProcess /\ ppc # "gone" /\ UNCHANGED results
      BY <2>5 DEF PipeFails, ForkFails, Inv, Typed
    <3> QED
      BY <2>2, <3>1
  <2>6. CASE WaitAndMerge
    <3>1. i < p /\ ppc = "wait"
      BY <2>6 DEF WaitAndMerge, Inv, Typed
    <3>2. CASE NextProcess /\ UNCHANGED results
      BY <2>2, <3>1, <3>2
    <3>3. CASE /\ NextProcess
               /\ results' = Append(results,
                    [process |-> i, stats |-> deserializeFileStats(resultData)])
      BY <2>3, <3>1, <3>3
    <3>4. CASE ppc' = "aborted" /\ UNCHANGED <<i, results>>
      BY <2>1, <3>1, <3>4
    <3> QED
      BY <2>6, <3>2, <3>3, <3>4 DEF WaitAndMerge
  <2>7. CASE \/ DivideFiles \/ CreatePipe \/ Fork \/ ParentClosesWrite \/ ParentReads \/ ParentSeesEof
             \/ ChildStep \/ ChildDies \/ (\E f \in Files : RemoveFile(f)) \/ UNCHANGED vars
    <3>1. UNCHANGED <<i, results>> /\ (ppc = "gone") = (ppc' = "gone")
      BY <2>7 DEF DivideFiles, CreatePipe, Fork, ParentClosesWrite, ParentReads, ParentSeesEof,
           ChildStep, ChildStarts, CountFile, Serialize, ChildWrites, ChildClosesWrite, ChildExits,
           ChildDies, RemoveFile, vars, parentVars
    <3> QED
      BY <2>1, <3>1
  <2> QED
    BY <2>4, <2>5, <2>6, <2>7 DEF Next, ParentStep, Finished
<1> QED
  BY <1>1, <1>2, CallInvariant, PTL DEF SafetySpec, ReportSpec, Report!SafetySpec

-------------------------------------------------------------------------------
(* What is reported: the invariant about the contents.                        *)

total(k) == [w \in Words |-> SumFunctionOnSet([f \in Files |-> Freq[f][w]], Group(k) \cap opened)]

(* The child has counted the files of its group before next, and those of    *)
(* the groups before it have been opened, if at all, by other children.      *)
Counted ==
  /\ ppc # "aborted" /\ cpc \in {"none", "start"} => \A f \in opened : f < first(i)
  /\ cpc = "count" => \A f \in opened : f < next
  /\ i < p => \A f \in opened : f <= last(i)
  /\ cpc = "count" \/ Answered => combined = total(i)
  /\ cpc = "count" \/ Answered =>
       \A w \in NulWords : combined[w] > 0 => \E f \in Group(i) \cap opened : Freq[f][w] > 0

(* Without a NUL nothing is lost between the child and resultData.           *)
NothingLost ==
  Answered /\ (\A w \in NulWords : combined[w] = 0) =>
    (received \o pipe) \o unsent = serializeFileStats(combined)

DataInv == Inv /\ Counted /\ NothingLost /\ ReportedIsCounted /\ AbortsOnlyOnNul

(* The files of a group come before those of every later one, and its sums   *)
(* change only when a file is opened.                                        *)
LEMMA GroupsApart ==
  ASSUME Inv, i < p
  PROVE  /\ \A j \in 0..(i - 1) : last(j) \in Nat /\ last(j) < first(i)
         /\ first(i + 1) \in Nat /\ last(i) < first(i + 1)
         /\ i + 1 < p => last(i + 1) \in Nat /\ last(i) <= last(i + 1)
<1>1. /\ i \in 0..(p - 1) /\ i + 1 \in 0..p /\ p \in 1..NumFiles /\ p \in Nat \ {0}
      /\ NumFiles \in Nat \ {0}
  BY ProcessesAssumption DEF Inv, Typed, TypeOK, p, numProcesses
<1>2. \A j \in 0..(i - 1) : endIdx(NumFiles, p, j) <= startIdx(NumFiles, p, i)
  BY <1>1, SharesAscend
<1>3. endIdx(NumFiles, p, i) = startIdx(NumFiles, p, i + 1)
  BY <1>1, SharesAdjacent
<1>4. \A j \in 0..(p - 1) : /\ startIdx(NumFiles, p, j) \in Nat /\ endIdx(NumFiles, p, j) \in Nat
                            /\ startIdx(NumFiles, p, j) < endIdx(NumFiles, p, j)
  BY <1>1, SharesEven
<1>5. \A j \in 0..(i - 1) : j \in 0..(p - 1)
  BY <1>1
<1>6. i + 1 < p => i + 1 \in 0..(p - 1)
  BY <1>1
<1> QED
  BY <1>1, <1>2, <1>3, <1>4, <1>5, <1>6 DEF first, last

(* As long as no file is opened the sums stay, and what is in results too.   *)
LEMMA SumsStay ==
  ASSUME Inv, [Next]_vars, opened' = opened
  PROVE  /\ \A k : total(k)' = total(k)
         /\ \A k : (Group(k) \cap opened)' = Group(k) \cap opened
<1>1. \A k : (Group(k) \cap opened)' = Group(k) \cap opened
  BY GroupsStay
<1> QED
  BY <1>1, ProcessCount DEF total

(* Opening one more file of the group adds its words to the sums. *)
LEMMA OneMoreFile ==
  ASSUME Inv, Counted, [Next]_vars, CountFile, next \in onDisk
  PROVE  total(i)' = [w \in Words |-> total(i)[w] + Freq[next][w]]
<1> DEFINE A == Group(i) \cap opened
<1>1. /\ cpc = "count" /\ i < p /\ i' = i /\ opened' = opened \cup {next}
      /\ next \in first(i)..last(i) /\ next \in Files /\ next \notin opened
  <2>1. /\ cpc = "count" /\ i < p /\ i' = i /\ opened' = opened \cup {next}
        /\ next \in first(i)..(last(i) + 1) /\ next <= last(i) /\ next \in Files
    BY DEF CountFile, MoreFiles, Inv, Typed, TypeOK, EndsFollow, parentVars
  <2>2. next \notin opened
    BY <2>1 DEF Counted, Files
  <2> QED
    BY <2>1, <2>2, GroupBounds
<1>2. /\ (Group(i) \cap opened)' = A \cup {next} /\ next \notin A
  BY <1>1, GroupsStay DEF Group
<1>3. IsFiniteSet(A) /\ A \subseteq Files
  <2>1. A \subseteq Files
    BY DEF Inv, Typed, TypeOK
  <2>2. IsFiniteSet(Files)
    BY ProcessesAssumption, FS_Interval DEF Files
  <2> HIDE DEF A
  <2> QED
    BY <2>1, <2>2, FS_Subset
<1> HIDE DEF A
<1>4. Freq \in [Files -> [Words -> Nat]]
  BY ProcessesAssumption DEF Inv, Typed, TypeOK
<1>5. ASSUME NEW w \in Words
      PROVE  SumFunctionOnSet([f \in Files |-> Freq[f][w]], A \cup {next})
               = SumFunctionOnSet([f \in Files |-> Freq[f][w]], A) + Freq[next][w]
  <2> DEFINE h == [f \in Files |-> Freq[f][w]]
  <2>1. (\A f \in A : h[f] \in Nat) /\ h[next] = Freq[next][w] /\ h[next] \in Nat
    BY <1>1, <1>3, <1>4
  <2> HIDE DEF h
  <2>2. SumFunctionOnSet(h, A \cup {next}) = SumFunctionOnSet(h, A) + h[next]
    BY <1>2, <1>3, <2>1, SumOfOneMore
  <2> QED
    BY <2>1, <2>2 DEF h
<1>6. total(i)' = [w \in Words |-> SumFunctionOnSet([f \in Files |-> Freq[f][w]], A \cup {next})]
  BY <1>1, <1>2, ProcessCount DEF total
<1>7. \A w \in Words : total(i)[w] = SumFunctionOnSet([f \in Files |-> Freq[f][w]], A)
  BY DEF total, A
<1> QED
  BY <1>5, <1>6, <1>7

(* Every step keeps what is known of the files that were counted. *)
LEMMA CountedStep ==
  ASSUME Inv, Counted, [Next]_vars
  PROVE  Counted'
<1>1. /\ \A k : first(k)' = first(k) /\ last(k)' = last(k)
      /\ p' = p /\ Freq' = Freq
  BY GroupsStay, ProcessCount
<1>2. /\ opened \subseteq Nat /\ i \in Nat
      /\ i < p => /\ first(i) \in Nat /\ last(i) \in Nat /\ first(i) <= last(i)
                 /\ first(i + 1) \in Nat /\ last(i) < first(i + 1)
                 /\ (i + 1 < p => last(i + 1) \in Nat /\ last(i) <= last(i + 1))
  <2>1. opened \subseteq Nat
    BY DEF Inv, Typed, TypeOK, Files
  <2>2. i \in Nat
    BY DEF Inv, Typed, TypeOK
  <2>3. ASSUME i < p
        PROVE  first(i) \in Nat /\ last(i) \in Nat /\ first(i) <= last(i)
    <3>1. first(i) \in 1..NumFiles /\ last(i) \in 1..NumFiles /\ first(i) <= last(i)
      BY <2>3, GroupBounds
    <3> QED
      BY <3>1
  <2>4. ASSUME i < p
        PROVE  /\ first(i + 1) \in Nat /\ last(i) < first(i + 1)
               /\ (i + 1 < p => last(i + 1) \in Nat /\ last(i) <= last(i + 1))
    BY <2>4, GroupsApart
  <2> QED
    BY <2>1, <2>2, <2>3, <2>4
<1>3. opened' = opened => /\ \A k : total(k)' = total(k)
                          /\ \A k : (Group(k) \cap opened)' = Group(k) \cap opened
  BY SumsStay
<1>4. ASSUME i < p, i' = i + 1, opened' = opened, cpc' = "none"
      PROVE  Counted'
  <2>1. \A f \in opened : f \in Nat /\ f <= last(i)
    BY <1>2, <1>4 DEF Counted
  <2>2. \A f \in opened' : f < first(i')
    BY <1>2, <1>4, <2>1
  <2>3. i' < p => \A f \in opened' : f <= last(i')
    BY <1>2, <1>4, <2>1
  <2> QED
    BY <1>1, <1>4, <2>2, <2>3 DEF Counted, Answered
<1>5. CASE PipeFails \/ ForkFails
  <2>1. i < p /\ i' = i + 1 /\ opened' = opened /\ cpc' = "none"
    BY <1>5 DEF PipeFails, ForkFails, NextProcess, childVars, Inv, Typed, EndsFollow
  <2> QED
    BY <1>4, <2>1
<1>6. CASE WaitAndMerge
  <2>1. i < p /\ opened' = opened /\ cpc' = "none" /\ (i' = i + 1 \/ (i' = i /\ ppc' = "aborted"))
    BY <1>6 DEF WaitAndMerge, NextProcess, historyVars, Inv, Typed
  <2>2. CASE i' = i /\ ppc' = "aborted"
    BY <1>1, <2>1, <2>2 DEF Counted, Answered
  <2> QED
    BY <1>4, <2>1, <2>2
<1>7. CASE ChildDies
  BY <1>1, <1>7 DEF ChildDies, parentVars, Counted, Answered
<1>8. CASE ChildStarts
  <2>1. /\ cpc = "start" /\ cpc' = "count" /\ i' = i /\ opened' = opened /\ i < p /\ ppc # "aborted"
        /\ next' = first(i) /\ combined' = Nothing
    BY <1>8 DEF ChildStarts, parentVars, historyVars, Inv, Typed, EndsFollow
  <2>2. \A f \in opened : f < first(i)
    BY <2>1 DEF Counted
  <2>3. Group(i) \cap opened = {}
    BY <1>2, <2>1, <2>2 DEF Group
  <2>4. total(i) = Nothing
    BY <2>3, SumOfNone DEF total, Nothing
  <2>5. \A w \in NulWords : Nothing[w] = 0
    BY ProcessesAssumption DEF Nothing
  <2> QED
    BY <1>1, <1>3, <2>1, <2>2, <2>4, <2>5 DEF Counted, Answered
<1>9. CASE CountFile
  <2>1. /\ cpc = "count" /\ cpc' = "count" /\ i' = i /\ i < p /\ next' = next + 1
        /\ next <= last(i) /\ next \in first(i)..(last(i) + 1)
        /\ opened' = opened \cup ({next} \cap onDisk)
    BY <1>9 DEF CountFile, MoreFiles, parentVars, Inv, Typed, TypeOK, EndsFollow
  <2>2. (\A f \in opened' : f < next') /\ (\A f \in opened' : f <= last(i))
    BY <1>2, <2>1 DEF Counted
  <2>3. combined' = total(i)'
    <3>1. CASE next \in onDisk
      BY <1>9, <2>1, <3>1, OneMoreFile DEF CountFile, Counted
    <3>2. CASE next \notin onDisk
      BY <1>3, <1>9, <2>1, <3>2 DEF CountFile, Counted
    <3> QED
      BY <3>1, <3>2
  <2>4. ASSUME NEW w \in NulWords, combined'[w] > 0
        PROVE  \E f \in Group(i) \cap opened' : Freq[f][w] > 0
    <3>1. CASE combined[w] > 0
      BY <2>1, <2>4, <3>1 DEF Counted
    <3>2. CASE ~(combined[w] > 0)
      <4>1. combined[w] = 0 /\ w \in Words
        BY <3>2, ProcessesAssumption DEF Inv, Typed, TypeOK
      <4>2. next \in onDisk /\ combined'[w] = combined[w] + Freq[next][w]
        BY <1>9, <2>4, <3>2, <4>1 DEF CountFile
      <4>3. Freq[next][w] \in Nat
        BY <4>1, <4>2, ProcessesAssumption DEF Inv, Typed, TypeOK
      <4>4. Freq[next][w] > 0 /\ next \in Group(i) \cap opened'
        BY <1>2, <2>1, <2>4, <4>1, <4>2, <4>3 DEF Group
      <4> QED
        BY <4>4
    <3> QED
      BY <3>1, <3>2
  <2>5. Group(i)' = Group(i)
    BY <2>1, GroupsStay
  <2> QED
    BY <1>1, <2>1, <2>2, <2>3, <2>4, <2>5 DEF Counted, Answered
<1>10. CASE Serialize
  BY <1>1, <1>3, <1>10 DEF Serialize, parentVars, historyVars, Counted, Answered
<1>11. CASE \/ DivideFiles \/ CreatePipe \/ Fork \/ ParentClosesWrite \/ ParentReads \/ ParentSeesEof
            \/ ReturnFromCall
  <2>1. /\ UNCHANGED <<i, opened, next, combined>> /\ ppc # "aborted"
        /\ cpc' = cpc \/ (cpc = "none" /\ cpc' = "start")
    BY <1>11 DEF DivideFiles, CreatePipe, Fork, ParentClosesWrite, ParentReads, ParentSeesEof,
         ReturnFromCall, childVars, historyVars, Inv, EndsFollow
  <2> QED
    BY <1>1, <1>3, <2>1 DEF Counted, Answered
<1>12. CASE ChildWrites \/ ChildClosesWrite \/ ChildExits
  <2>1. UNCHANGED <<i, opened, next, combined>> /\ Answered /\ Answered'
    BY <1>12 DEF ChildWrites, ChildClosesWrite, ChildExits, parentVars, historyVars, Answered
  <2> QED
    BY <1>1, <1>3, <2>1 DEF Counted, Answered
<1>13. CASE (\E f \in Files : RemoveFile(f)) \/ UNCHANGED vars
  BY <1>1, <1>3, <1>13 DEF RemoveFile, vars, parentVars, childVars, historyVars, Counted, Answered
<1> QED
  BY <1>5, <1>6, <1>7, <1>8, <1>9, <1>10, <1>11, <1>13, <1>12 DEF Next, ParentStep, ChildStep, Finished

(* Every step keeps the pieces together: what the parent has, what is in the *)
(* pipe and what the child still has are the serialized statistics.          *)
LEMMA NothingLostStep ==
  ASSUME Inv, NothingLost, [Next]_vars
  PROVE  NothingLost'
<1>1. /\ resultData \in Seq(Tokens) /\ pipe \in Seq(Tokens) /\ unsent \in Seq(Tokens)
      /\ received \in Seq(Tokens) /\ combined \in Statistics
  BY EmptySeq DEF Inv, Typed, TypeOK, received, Statistics
<1>2. CASE Serialize
  <2>1. /\ received' = <<>> /\ pipe' = <<>> /\ unsent' = serializeFileStats(combined)
        /\ combined' = combined
    BY <1>2 DEF Serialize, parentVars, pipeVars, received, Inv, HeaderComes
  <2>2. serializeFileStats(combined) \in Seq(Tokens)
    BY <1>1, SerializedStarts
  <2>3. <<>> \o <<>> = <<>> /\ <<>> \o serializeFileStats(combined) = serializeFileStats(combined)
    BY <2>2, EmptySeq, ConcatEmptySeq
  <2>4. (received' \o pipe') \o unsent' = serializeFileStats(combined')
    BY <2>1, <2>3
  <2> QED
    BY <2>4 DEF NothingLost
<1>3. CASE ChildWrites
  <2> DEFINE h == Head(unsent)
             t == Tail(unsent)
  <2>1. /\ unsent # <<>> /\ pipe' = Append(pipe, h) /\ unsent' = t /\ received' = received
        /\ combined' = combined /\ Answered
    BY <1>3 DEF ChildWrites, parentVars, received, Answered
  <2>2. h \in Tokens /\ t \in Seq(Tokens)
    BY <1>1, <2>1, HeadTailProperties
  <2>3. <<h>> \in Seq(Tokens) /\ unsent = <<h>> \o t
    <3>1. <<h>> \in Seq(Tokens) /\ Len(<<h>>) = 1 /\ <<h>>[1] = h /\ h = unsent[1]
      BY <2>2
    <3>2. Len(unsent) \in Nat \ {0} /\ Len(t) = Len(unsent) - 1
          /\ \A k \in 1..Len(t) : t[k] = unsent[k + 1]
      BY <1>1, <2>1, HeadTailProperties, EmptySeq
    <3> DEFINE g == <<h>>
    <3> HIDE DEF h, t, g
    <3>3. g \in Seq(Tokens) /\ Len(g) = 1 /\ g[1] = unsent[1]
      BY <3>1 DEF g
    <3>4. /\ g \o t \in Seq(Tokens) /\ Len(g \o t) = Len(g) + Len(t)
          /\ \A k \in 1..(Len(g) + Len(t)) : (g \o t)[k] = IF k <= Len(g) THEN g[k] ELSE t[k - Len(g)]
      BY <2>2, <3>3, ConcatProperties
    <3> DEFINE c == g \o t
    <3>5. c \in Seq(Tokens) /\ Len(c) = Len(unsent)
      BY <3>2, <3>3, <3>4
    <3>6. \A k \in 1..Len(c) : c[k] = IF k <= 1 THEN g[k] ELSE t[k - 1]
      BY <3>2, <3>3, <3>4
    <3> HIDE DEF c
    <3>7. \A k \in 1..Len(c) : c[k] = unsent[k]
      BY <3>2, <3>3, <3>5, <3>6
    <3>8. c = unsent
      BY <1>1, <3>5, <3>7, SeqEqual
    <3> QED
      BY <3>3, <3>8 DEF c, g
  <2>4. Append(pipe, h) = pipe \o <<h>>
    BY <1>1, <2>2, AppendIsConcat
  <2> DEFINE g == <<h>>
  <2> HIDE DEF h, t, g
  <2>5. /\ g \in Seq(Tokens) /\ unsent = g \o t /\ pipe' = pipe \o g
        /\ pipe \o g \in Seq(Tokens) /\ received \o pipe \in Seq(Tokens)
    <3>1. g \in Seq(Tokens) /\ unsent = g \o t /\ pipe' = pipe \o g
      BY <2>1, <2>3, <2>4 DEF g
    <3> QED
      BY <1>1, <3>1, ConcatProperties
  <2>6. received \o (pipe \o g) = (received \o pipe) \o g
    <3>1. received \in Seq(Tokens) /\ pipe \in Seq(Tokens) /\ g \in Seq(Tokens)
      BY <1>1, <2>5
    <3> HIDE DEF received
    <3> QED
      BY <3>1, ConcatAssociative
  <2>7. ((received \o pipe) \o g) \o t = (received \o pipe) \o (g \o t)
    <3> DEFINE front == received \o pipe
    <3>1. front \in Seq(Tokens)
      BY <2>5
    <3> HIDE DEF front
    <3>2. (front \o g) \o t = front \o (g \o t)
      BY <2>2, <2>5, <3>1, ConcatAssociative, SMTT(30)
    <3> QED
      BY <3>2 DEF front
  <2>8. (received' \o pipe') \o unsent' = (received \o pipe) \o unsent
    BY <2>1, <2>5, <2>6, <2>7
  <2> QED
    BY <2>1, <2>8 DEF NothingLost
<1>4. CASE ParentReads
  <2> DEFINE n == IF Len(pipe) < BufferSize THEN Len(pipe) ELSE BufferSize
             chunk == SubSeq(pipe, 1, n)
             rest == SubSeq(pipe, n + 1, Len(pipe))
             all == (received \o pipe) \o unsent
  <2> SUFFICES ASSUME Answered', \A w \in NulWords : combined'[w] = 0
               PROVE  (received' \o pipe') \o unsent' = serializeFileStats(combined')
    BY DEF NothingLost
  <2>1. /\ pipe # <<>> /\ received = resultData /\ received' = AppendChunk(resultData, chunk)
        /\ pipe' = rest /\ unsent' = unsent /\ combined' = combined /\ Answered
        /\ \A w \in NulWords : combined[w] = 0
    BY <1>4 DEF ParentReads, childVars, received, Answered
  <2>2. all = serializeFileStats(combined)
    BY <2>1 DEF NothingLost
  <2>3. NoNul(all)
    BY <1>1, <2>1, <2>2, SerializeRoundTrip
  <2>4. Len(pipe) \in Nat \ {0} /\ n \in 1..Len(pipe)
    BY <1>1, <2>1, EmptySeq, ProcessesAssumption
  <2>5. \A k \in 1..Len(pipe) : pipe[k].kind # "nul"
    <3> DEFINE front == received \o pipe
    <3>1. /\ front \in Seq(Tokens) /\ Len(front) = Len(received) + Len(pipe)
          /\ \A k \in 1..(Len(received) + Len(pipe)) :
               front[k] = IF k <= Len(received) THEN received[k] ELSE pipe[k - Len(received)]
      BY <1>1, ConcatProperties
    <3> HIDE DEF front
    <3>2. /\ Len(front \o unsent) = Len(front) + Len(unsent)
          /\ \A k \in 1..(Len(front) + Len(unsent)) :
               (front \o unsent)[k] = IF k <= Len(front) THEN front[k] ELSE unsent[k - Len(front)]
      <4>1. front \in Seq(Tokens) /\ unsent \in Seq(Tokens)
        BY <1>1, <3>1
      <4> QED
        BY <4>1, ConcatProperties
    <3>3. all = front \o unsent
      BY DEF front
    <3> HIDE DEF all
    <3>4. /\ Len(all) = Len(front) + Len(unsent)
          /\ \A k \in 1..Len(front) : all[k] = front[k]
      <4>1. Len(front) \in Nat /\ Len(unsent) \in Nat
        BY <1>1, <3>1, LenProperties
      <4> QED
        BY <3>2, <3>3, <4>1
    <3>5. Len(received) \in Nat /\ Len(unsent) \in Nat
      BY <1>1, LenProperties
    <3> SUFFICES ASSUME NEW k \in 1..Len(pipe) PROVE pipe[k].kind # "nul"
      OBVIOUS
    <3>6. Len(received) + k \in 1..Len(front) /\ Len(received) + k \in 1..Len(all)
      BY <2>4, <3>1, <3>4, <3>5
    <3>7. all[Len(received) + k] = pipe[k]
      BY <2>4, <3>1, <3>4, <3>5, <3>6
    <3> QED
      BY <2>3, <3>6, <3>7 DEF NoNul
  <2>6. \A k \in 1..Len(pipe) : pipe[k] \in Tokens
    BY <1>1, ElementOfSeq
  <2> HIDE DEF n, all
  <2>7. chunk \in Seq(Tokens) /\ NoNul(chunk)
    <3>1. \A k \in 1..n : pipe[k] \in Tokens
      BY <2>4, <2>6
    <3>2. /\ chunk \in Seq(Tokens) /\ Len(chunk) = IF 1 <= n THEN n - 1 + 1 ELSE 0
          /\ \A k \in 1..(n - 1 + 1) : chunk[k] = pipe[1 + k - 1]
      BY <2>4, <3>1, SubSeqProperties
    <3> HIDE DEF chunk
    <3>3. Len(chunk) = n /\ \A k \in 1..n : chunk[k] = pipe[k]
      BY <2>4, <3>2
    <3> QED
      BY <2>4, <2>5, <3>2, <3>3 DEF NoNul
  <2>8. rest \in Seq(Tokens)
    <3>1. \A k \in (n + 1)..Len(pipe) : pipe[k] \in Tokens
      BY <2>4, <2>6
    <3> QED
      BY <2>4, <3>1, SubSeqProperties
  <2>9. chunk \o rest = pipe
    <3>1. SubSeq(pipe, 1, n) \o SubSeq(pipe, n + 1, Len(pipe)) = SubSeq(pipe, 1, Len(pipe))
      <4>1. /\ 1 \in 1..(Len(pipe) + 1) /\ n \in (1 - 1)..Len(pipe) /\ Len(pipe) \in n..Len(pipe)
        BY <2>4
      <4> QED
        BY <1>1, <4>1, ConcatAdjacentSubSeq
    <3> QED
      BY <1>1, <3>1, SubSeqFull
  <2> HIDE DEF chunk, rest
  <2>10. received' = received \o chunk
    BY <1>1, <2>1, <2>7, ChunkAppended
  <2>11. (received \o chunk) \o rest = received \o (chunk \o rest)
    <3>1. received \in Seq(Tokens)
      BY <1>1
    <3> HIDE DEF received
    <3> QED
      BY <2>7, <2>8, <3>1, ConcatAssociative, SMTT(30)
  <2>12. (received' \o pipe') \o unsent' = all
    BY <2>1, <2>9, <2>10, <2>11 DEF all
  <2> QED
    BY <2>1, <2>2, <2>12
<1>5. CASE ParentClosesWrite \/ ParentSeesEof \/ ChildClosesWrite \/ ChildExits
           \/ (\E f \in Files : RemoveFile(f)) \/ UNCHANGED vars
  <2>1. UNCHANGED <<received, pipe, unsent, combined>> /\ (Answered' => Answered)
    BY <1>5 DEF ParentClosesWrite, ParentSeesEof, ChildClosesWrite, ChildExits, RemoveFile, vars,
         parentVars, pipeVars, childVars, received, Answered
  <2> QED
    BY <2>1 DEF NothingLost
<1>6. CASE \/ DivideFiles \/ CreatePipe \/ PipeFails \/ ForkFails \/ Fork \/ WaitAndMerge
           \/ ReturnFromCall \/ ChildStarts \/ CountFile \/ ChildDies
  <2>1. ~Answered'
    BY <1>6 DEF DivideFiles, CreatePipe, PipeFails, ForkFails, Fork, WaitAndMerge, ReturnFromCall,
         ChildStarts, CountFile, ChildDies, childVars, Answered, Inv, EndsFollow
  <2> QED
    BY <2>1 DEF NothingLost
<1> QED
  BY <1>2, <1>3, <1>4, <1>5, <1>6 DEF Next, ParentStep, ChildStep, Finished

(* When the child has exited and the pipe is empty, resultData is what it    *)
(* serialized, unless a file of its group that it opened has a NUL in it.    *)
LEMMA ResultArrives ==
  ASSUME Inv, Counted, NothingLost, ppc = "wait", ChildSucceeded,
         \A f \in Group(i) \cap opened : ~HasNul(f)
  PROVE  /\ Parses(resultData)
         /\ deserializeFileStats(resultData)
              = [wordCount |-> SumFunction(total(i)), wordFrequency |-> total(i), spliced |-> {}]
<1>1. /\ cpc = "exited" /\ Answered /\ pipe = <<>> /\ unsent = <<>> /\ received = resultData
      /\ resultData \in Seq(Tokens) /\ combined \in Statistics
  BY DEF ChildSucceeded, Answered, Inv, Typed, TypeOK, EndsFollow, HeaderComes, received, Statistics
<1>2. combined = total(i)
  BY <1>1 DEF Counted
<1>3. ASSUME NEW w \in NulWords PROVE combined[w] = 0
  <2>1. combined[w] \in Nat
    BY <1>1, ProcessesAssumption DEF Statistics
  <2>2. ~(combined[w] > 0)
    BY <1>1 DEF Counted, HasNul
  <2> QED
    BY <2>1, <2>2
<1>4. resultData = serializeFileStats(combined)
  <2>1. (resultData \o <<>>) \o <<>> = resultData
    BY <1>1, ConcatEmptySeq
  <2> QED
    BY <1>1, <1>3, <2>1 DEF NothingLost
<1> QED
  BY <1>1, <1>2, <1>3, <1>4, SerializeRoundTrip

(* Every step keeps what is in results right. *)
LEMMA ReportedStep ==
  ASSUME DataInv, [Next]_vars
  PROVE  ReportedIsCounted' /\ AbortsOnlyOnNul'
<1>1. Inv /\ Counted /\ NothingLost /\ ReportedIsCounted /\ AbortsOnlyOnNul
  BY DEF DataInv
<1>2. /\ results \in Seq(Entries) /\ Len(results) \in Nat /\ i \in Nat
      /\ \A k \in 1..Len(results) : results[k].process \in 0..(i - 1)
  BY <1>1, LenProperties DEF Inv, Typed, TypeOK, Accounts, Reported
<1>3. /\ \A f : HasNul(f)' = HasNul(f)
      /\ \A k : Group(k)' = Group(k)
      /\ WaitAndMerge \/ UNCHANGED results
  BY <1>1, ProcessCount, GroupsStay
  DEF HasNul, Next, ParentStep, ChildStep, ChildDies, vars, DivideFiles, CreatePipe, PipeFails,
      ForkFails, Fork, ParentClosesWrite, ParentReads, ParentSeesEof, ReturnFromCall, ChildStarts,
      CountFile, Serialize, ChildWrites, ChildClosesWrite, ChildExits, RemoveFile, parentVars, Finished
<1>4. AbortsOnlyOnNul'
  <2>1. CASE WaitAndMerge
    <3> SUFFICES ASSUME ppc' = "aborted" PROVE \E f \in Group(i') \cap opened' : HasNul(f)
      BY <1>3 DEF AbortsOnlyOnNul
    <3>1. /\ ppc = "wait" /\ ChildSucceeded /\ ~Parses(resultData) /\ i' = i /\ opened' = opened
      BY <2>1 DEF WaitAndMerge, NextProcess, historyVars
    <3> QED
      BY <1>1, <3>1, ResultArrives
  <2>2. CASE ~WaitAndMerge
    <3>1. ppc' = "aborted" => ppc = "aborted" /\ i' = i /\ opened' = opened
      BY <1>1, <2>2 DEF Next, ParentStep, ChildStep, ChildDies, vars, DivideFiles, CreatePipe, PipeFails,
           ForkFails, Fork, ParentClosesWrite, ParentReads, ParentSeesEof, ReturnFromCall, NextProcess,
           ChildStarts, CountFile, Serialize, ChildWrites, ChildClosesWrite, ChildExits, RemoveFile,
           parentVars, historyVars, Finished, Inv, EndsFollow
    <3> QED
      BY <1>1, <1>3, <3>1 DEF AbortsOnlyOnNul
  <2> QED
    BY <2>1, <2>2
<1>5. ReportedIsCounted'
  <2>1. CASE CountFile
    <3>1. /\ results' = results /\ i < p /\ next \in first(i)..(last(i) + 1)
          /\ opened' = opened \cup ({next} \cap onDisk)
      BY <1>1, <2>1 DEF CountFile, parentVars, Inv, Typed, TypeOK, EndsFollow
    <3>2. ASSUME NEW k \in 1..Len(results)
          PROVE  (Group(results[k].process) \cap opened)' = Group(results[k].process) \cap opened
      <4>1. last(results[k].process) \in Nat /\ last(results[k].process) < first(i)
        BY <1>1, <1>2, <3>1, <3>2, GroupsApart
      <4>2. next \notin Group(results[k].process)
        BY <1>1, <3>1, <4>1, GroupBounds DEF Group
      <4> QED
        BY <1>3, <3>1, <4>2
    <3>3. \A k \in 1..Len(results) : Faithful(k)' = Faithful(k)
      BY <1>1, <3>1, <3>2, ProcessCount DEF Faithful
    <3> QED
      BY <1>1, <1>3, <3>1, <3>3 DEF ReportedIsCounted
  <2>2. CASE ~CountFile /\ UNCHANGED results
    <3>1. opened' = opened
      BY <2>2 DEF Next, ParentStep, ChildStep, ChildDies, vars, DivideFiles, CreatePipe, PipeFails,
           ForkFails, Fork, ParentClosesWrite, ParentReads, ParentSeesEof, WaitAndMerge, ReturnFromCall,
           ChildStarts, Serialize, ChildWrites, ChildClosesWrite, ChildExits, RemoveFile,
           historyVars, Finished
    <3>2. \A k \in 1..Len(results) : Faithful(k)' = Faithful(k)
      BY <1>1, <1>3, <2>2, <3>1, ProcessCount DEF Faithful
    <3> QED
      BY <1>1, <1>3, <2>2, <3>2 DEF ReportedIsCounted
  <2>3. CASE WaitAndMerge /\ results' # results
    <3>1. /\ ppc = "wait" /\ ChildSucceeded /\ i < p /\ opened' = opened
          /\ results' = Append(results, [process |-> i, stats |-> deserializeFileStats(resultData)])
      BY <1>1, <2>3 DEF WaitAndMerge, historyVars, Inv, Typed
    <3>2. PICK e : /\ e = [process |-> i, stats |-> deserializeFileStats(resultData)]
                   /\ results' = Append(results, e)
      BY <3>1
    <3>3. /\ e.process = i /\ e.stats = deserializeFileStats(resultData)
          /\ Len(results') = Len(results) + 1
          /\ \A k \in 1..Len(results) : results'[k] = results[k]
          /\ results'[Len(results) + 1] = e
      BY <1>1, <3>1, <3>2, MergeAppends
    <3>4. \A k \in 1..Len(results) : Faithful(k)' = Faithful(k)
      BY <1>1, <1>3, <3>1, <3>3, ProcessCount, ZenonT(30) DEF Faithful
    <3>5. ASSUME \A f \in Group(i) : ~HasNul(f), NEW m \in Nat, m = Len(results) + 1
          PROVE  Faithful(m)'
      <4>1. e.stats = [wordCount |-> SumFunction(total(i)), wordFrequency |-> total(i), spliced |-> {}]
        BY <1>1, <3>1, <3>3, <3>5, ResultArrives
      <4>2. results'[m].process = i /\ results'[m].stats = e.stats
        BY <3>3, <3>5
      <4>3. (Group(results[m].process) \cap opened)' = Group(i) \cap opened
        BY <1>3, <3>1, <4>2
      <4>4. /\ e.stats.wordCount = SumFunction(total(i)) /\ e.stats.wordFrequency = total(i)
            /\ e.stats.spliced = {}
        BY <4>1
      <4> QED
        BY <1>1, <4>2, <4>3, <4>4, ProcessCount DEF Faithful, total
    <3>6. \A k \in 1..Len(results') : k \in 1..Len(results) \/ (k \in Nat /\ k = Len(results) + 1)
      BY <1>2, <3>3
    <3>7. ASSUME NEW k \in 1..Len(results'), \A f \in Group(results'[k].process) : ~HasNul(f)
          PROVE  Faithful(k)'
      <4>1. CASE k \in 1..Len(results)
        BY <1>1, <3>3, <3>4, <3>7, <4>1 DEF ReportedIsCounted
      <4>2. CASE k \in Nat /\ k = Len(results) + 1
        BY <3>3, <3>5, <3>7, <4>2
      <4> QED
        BY <3>6, <4>1, <4>2
    <3> QED
      BY <1>3, <3>7 DEF ReportedIsCounted
  <2> QED
    BY <1>3, <2>1, <2>2, <2>3
<1> QED
  BY <1>4, <1>5

(* DataInv holds in every state: a child's words reach results undamaged.    *)
THEOREM DataInvariant == SafetySpec => []DataInv
<1>1. Init => Counted /\ NothingLost /\ ReportedIsCounted /\ AbortsOnlyOnNul
  <2> SUFFICES ASSUME Init PROVE Counted /\ NothingLost /\ ReportedIsCounted /\ AbortsOnlyOnNul
    OBVIOUS
  <2>1. Len(results) = 0
    BY EmptySeq DEF Init
  <2> QED
    BY <2>1 DEF Init, Counted, NothingLost, Answered, ReportedIsCounted, AbortsOnlyOnNul
<1>2. DataInv /\ [Next]_vars /\ Inv' => DataInv'
  BY CountedStep, NothingLostStep, ReportedStep DEF DataInv
<1> QED
  BY <1>1, <1>2, CallInvariant, PTL DEF SafetySpec, DataInv

(* An entry of results holds the words of exactly the files of its group     *)
(* that could be opened, however writing and reading cut them into pieces,   *)
(* if no file of the group has a NUL in it.                                  *)
THEOREM ReportedIsCountedHolds == SafetySpec => []ReportedIsCounted
BY DataInvariant, PTL DEF DataInv

(* The parent dies of an exception only after a child counted a file with a  *)
(* NUL in it: without one, what arrives can always be deserialized.          *)
THEOREM AbortsOnlyOnNulHolds == SafetySpec => []AbortsOnlyOnNul
BY DataInvariant, PTL DEF DataInv
===============================================================================
