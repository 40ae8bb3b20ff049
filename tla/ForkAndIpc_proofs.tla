--------------------------- MODULE ForkAndIpc_proofs ---------------------------
(***************************************************************************)
(* Proofs about ForkAndIpc, for files, ints, buffers, queues and texts of  *)
(* any size and any number of processes: a copy by two processes is never  *)
(* wrong and, when the parent exits, as complete as the length in an int   *)
(* makes it; and who takes lines from another process leaves only when     *)
(* quit was typed, and loses none typed before it. Each program has an     *)
(* invariant of its own.                                                   *)
(***************************************************************************)
EXTENDS ForkAndIpc, SequenceTheorems, TLAPS

-------------------------------------------------------------------------------
(* ForkCopy.                                                                  *)

Copiers == Copy!Processes

CopyTyped ==
  /\ regular \in BOOLEAN /\ length \in Int
  /\ src \in Seq(Int) /\ \A k \in 1..Len(src) : src[k] = k
  /\ regular => length \in {-1, Copy!ToInt(Len(src))}
  /\ ~regular => Len(src) = 0
  /\ dest \in Seq(Int)
  /\ pc \in [Copiers -> {"fork", "unborn", "open", "read", "write", "wait", "exited"}]
  /\ pos \in [Copiers -> Nat] /\ sum \in [Copiers -> Int] /\ failures \in [Copiers -> Nat]
  /\ copied \in [Copiers -> Seq(Int)]
  /\ failed \subseteq Copiers

(* Process q is at the offset that it has read up to, which is more than sum *)
(* says by the reads that failed, and has more to read unless nothing was    *)
(* read at all.                                                              *)
AtOffset(q, read) ==
  /\ read + failures[q] >= 0
  /\ pos[q] = Copy!offset(q) + read + failures[q]
  /\ read + failures[q] = 0 \/ read < Copy!len(q)
  /\ regular => pos[q] <= Len(src)

(* What is in the buffer of process q where it is. *)
Place(q) ==
  /\ pc[q] \in {"fork", "unborn", "open"} => sum[q] = 0 /\ failures[q] = 0
  /\ pc[q] = "read" => AtOffset(q, sum[q])
  /\ pc[q] = "write" =>
       /\ regular
       /\ AtOffset(q, sum[q] - Len(copied[q]))
       /\ pos[q] + Len(copied[q]) <= Len(src)
       /\ \A k \in 1..Len(copied[q]) : copied[q][k] = pos[q] + k
       /\ copied[q] = <<>> => pos[q] >= Len(src)

CopyPlaces ==
  /\ pc["parent"] = "fork" => pc["child"] = "unborn"
  /\ pc["parent"] = "exited" => pc["child"] = "exited" \/ failed = Copiers
  /\ \A q \in Copiers : Place(q)

Whole(q, to) == \A k \in (Copy!offset(q) + 1)..to : k <= Len(src) /\ Copy!Copied(k)

(* What a process has read and written is copied, and stays so. *)
CopiedSoFar ==
  \A q \in Copiers :
    /\ regular /\ pc[q] \in {"read", "write"} => Whole(q, pos[q])
    /\ pc[q] \in {"wait", "exited"} /\ q \notin failed => Whole(q, Copy!end(q))

CopyInv == CopyTyped /\ CopyPlaces /\ CopiedSoFar /\ Copy!NeverWrong

-------------------------------------------------------------------------------
(* FifoChat.                                                                  *)

ReaderPlaces == {"off", "open", "read", "left", "killed", "done"}

(* Unless lines ran together, a FIFO holds one line or none, and a reader    *)
(* that left has taken quit from it, after which nobody writes.              *)
FifoInv ==
  /\ pipe \in [Fifo!Fifos -> Seq(STRING)]
  /\ w \in [Fifo!Fifos -> {"off", "open", "prompt", "left", "killed", "done"}]
  /\ r \in [Fifo!Fifos -> ReaderPlaces]
  /\ \A k \in Fifo!Fifos \ merged :
       /\ pipe[k] \in FifoTexts \cup {<<>>}
       /\ pipe[k] = Fifo!quit => k \in quitted
       /\ r[k] \in {"left", "done"} => k \in quitted /\ pipe[k] = <<>>

-------------------------------------------------------------------------------
(* MessageQueue.                                                              *)

Messages == [mtype : Types \cup {0}, text : Queue!Texts, run : Nat]

QueueTyped ==
  /\ run \in Nat
  /\ msgs \in Seq(Messages)
  /\ buf \in Messages
  /\ receiver \in [Receivers -> {"off", "msgrcv", "msgctl", "ended"}]
  /\ quitRun \in [Receivers -> Nat]

Sending == sender \in {"prompt", "msgsnd"}

(* The run of the sender that a message is of has ended with a quit. *)
Ended(of) == of < run \/ (of = run /\ ~Sending)

(* What is in the queue after a quit is of a later run.                      *)
RunsInOrder ==
  /\ sender = "msgsnd" => buf.run = run
  /\ \A i \in DOMAIN msgs :
       /\ msgs[i].run <= run
       /\ msgs[i].text = "quit" => Ended(msgs[i].run)
       /\ \A j \in DOMAIN msgs : i < j /\ msgs[i].text = "quit" => msgs[i].run < msgs[j].run
  /\ \A p \in Receivers : receiver[p] = "msgctl" /\ p \in got => Ended(quitRun[p])

QueueInv == QueueTyped /\ RunsInOrder /\ Queue!LeavesOnlyOnQuit

-------------------------------------------------------------------------------
(* SharedMemory.                                                              *)

Cells(f) == f = [k \in 1..4 |-> f[k]]

MemoryTyped ==
  /\ Cells(cells)
  /\ stored \in CellTexts \cup {<<>>}
  /\ writer = "store" => \E line \in CellTexts : text = line \o <<"newline", Memory!End>>
  /\ at \in Nat /\ at <= 4
  /\ same \in 0..3
  /\ torn \in BOOLEAN

(* The segment holds what was stored last, unless the next line is stored;   *)
(* what the reader has compared is still there unless the comparison is torn.*)
SegmentHolds ==
  /\ writer = "store" /\ attached => stored = <<>>
  /\ writer = "store" => \A k \in 1..at : attached => cells[k] = text[k]
  /\ stored # <<>> => /\ \A k \in 1..Len(stored) : cells[k] = stored[k]
                      /\ cells[Len(stored) + 1] = Memory!End
  /\ ~torn => \A k \in 1..same : cells[k] = Memory!Pattern[k]
  /\ reader = "strcmp" => same < 3

MemoryInv == MemoryTyped /\ SegmentHolds /\ Memory!LeavesOnlyOnQuit

Inv == CopyInv /\ FifoInv /\ QueueInv /\ MemoryInv

-------------------------------------------------------------------------------
(* The copy.                                                                  *)

(* What an int holds of a length: no more than the length, and the length    *)
(* itself if it fits.                                                        *)
LEMMA IntOfLength ==
  ASSUME NEW n \in Nat
  PROVE  /\ Copy!ToInt(n) \in Int /\ Copy!ToInt(n) <= n
         /\ 2 * n < IntSize => Copy!ToInt(n) = n
<1> DEFINE q == n \div IntSize
           m == n % IntSize
<1>1. IntSize \in Nat \ {0}
  BY ForkAndIpcAssumption DEF Copy!CopyAssumption
<1>2. q \in Nat /\ m \in 0..(IntSize - 1) /\ n = IntSize * q + m
  BY <1>1
<1>3. Copy!ToInt(n) = IF 2 * m < IntSize THEN m ELSE m - IntSize
  BY DEF Copy!ToInt
<1> HIDE DEF q, m
<1>4. IntSize * q \in Nat /\ (q # 0 => IntSize * q >= IntSize)
  <2>1. q # 0 => q - 1 \in Nat /\ IntSize * q = IntSize * (q - 1) + IntSize
    BY <1>1, <1>2
  <2>2. q # 0 => IntSize * (q - 1) \in Nat
    BY <1>1, <2>1
  <2> QED
    BY <1>1, <1>2, <2>1, <2>2
<1>5. m <= n /\ (2 * n < IntSize => m = n)
  BY <1>1, <1>2, <1>4
<1> QED
  BY <1>1, <1>2, <1>3, <1>5

(* The shares lie in the file, and a negative length leaves nothing to copy. *)
LEMMA ShareBounds ==
  ASSUME CopyTyped, NEW q \in Copiers
  PROVE  /\ Copy!start(q) \in Int /\ Copy!len(q) \in Int /\ Copy!offset(q) \in Nat
         /\ Copy!end(q) = Copy!start(q) + Copy!len(q) /\ Copy!start(q) <= Copy!offset(q)
         /\ length < 0 => Copy!len(q) <= 0
         /\ length >= 0 => Copy!offset(q) = Copy!start(q)
         /\ regular => Copy!offset(q) <= Len(src) /\ Copy!offset(q) + Copy!len(q) <= Len(src)
<1>1. length \in Int /\ Len(src) \in Nat /\ (regular => length <= Len(src))
  BY LenProperties, IntOfLength DEF CopyTyped
<1>2. \/ Copy!start(q) = 0 /\ Copy!len(q) = Copy!half
      \/ Copy!start(q) = Copy!half /\ Copy!len(q) = length - Copy!half
  BY DEF Copy!start, Copy!len, Copiers, Copy!Processes
<1>3. /\ Copy!half \in Int
      /\ length >= 0 => Copy!half >= 0 /\ Copy!half <= length
      /\ length < 0 => Copy!half <= 0 /\ length - Copy!half <= 0
  BY <1>1 DEF Copy!half
<1> QED
  BY <1>1, <1>2, <1>3 DEF Copy!end, Copy!offset

(* Some of the elements of a sequence, one after the other. *)
LEMMA PartOfSeq ==
  ASSUME NEW S, NEW s \in Seq(S), NEW from \in Nat, NEW n \in Nat, from + n <= Len(s)
  PROVE  LET part == SubSeq(s, from + 1, from + n) IN
         part \in Seq(S) /\ Len(part) = n /\ \A k \in 1..n : part[k] = s[from + k]
<1>1. \A k \in (from + 1)..(from + n) : s[k] \in S
  BY LenProperties, ElementOfSeq
<1> DEFINE a == from + 1
           b == from + n
           part == SubSeq(s, a, b)
<1>2. a \in Int /\ b \in Int /\ b - a + 1 = n /\ (a <= b <=> n > 0)
  OBVIOUS
<1>3. \A k \in 1..n : from + k = a + k - 1
  OBVIOUS
<1> HIDE DEF a, b
<1>4. /\ part \in Seq(S)
      /\ Len(part) = IF a <= b THEN b - a + 1 ELSE 0
      /\ \A k \in 1..(b - a + 1) : part[k] = s[a + k - 1]
  BY <1>1, <1>2, SubSeqProperties DEF a, b
<1> HIDE DEF part
<1>5. part \in Seq(S) /\ Len(part) = n /\ \A k \in 1..n : part[k] = s[from + k]
  <2>1. Len(part) = n
    BY <1>2, <1>4
  <2>2. ASSUME NEW k \in 1..n PROVE part[k] = s[from + k]
    <3>1. k \in 1..(b - a + 1)
      BY <1>2
    <3>2. part[k] = s[a + k - 1]
      BY <1>4, <3>1
    <3> QED
      BY <1>3, <3>2
  <2> QED
    BY <1>4, <2>1, <2>2
<1> QED
  BY <1>5 DEF part, a, b

(* Ranges from 1 are equal when their ends are. *)
LEMMA SameRange ==
  ASSUME NEW a \in Nat, NEW b \in Nat, 1..a = 1..b
  PROVE  a = b
<1>1. a \in 1..a \/ a = 0
  OBVIOUS
<1>2. b \in 1..b \/ b = 0
  OBVIOUS
<1>3. a <= b /\ b <= a
  BY <1>1, <1>2
<1> QED
  BY <1>3

(* A function on the numbers up to some m is a sequence of that length. *)
LEMMA NumberedIsSeq ==
  ASSUME NEW S, NEW m \in Int, NEW f \in [1..m -> S]
  PROVE  f \in Seq(S) /\ Len(f) = IF m >= 0 THEN m ELSE 0
<1> DEFINE n == IF m >= 0 THEN m ELSE 0
<1>1. n \in Nat /\ 1..m = 1..n
  OBVIOUS
<1>2. f \in [1..n -> S]
  BY <1>1
<1>3. f \in Seq(S)
  BY <1>1, <1>2, SeqDef
<1>4. Len(f) \in Nat /\ 1..Len(f) = 1..n
  BY <1>2, <1>3, LenProperties
<1>5. Len(f) = n
  <2> HIDE DEF n
  <2> QED
    BY <1>1, <1>4, SameRange
<1> QED
  BY <1>3, <1>5

(* What a write makes of the destination. *)
LEMMA WrittenIs ==
  ASSUME NEW d \in Seq(Int), NEW from \in Nat, NEW s \in Seq(Int)
  PROVE  LET e == Copy!Written(d, from, s) IN
         /\ e \in Seq(Int)
         /\ Len(e) = IF s # <<>> /\ from + Len(s) > Len(d) THEN from + Len(s) ELSE Len(d)
         /\ \A k \in 1..Len(e) :
              e[k] = IF k \in (from + 1)..(from + Len(s)) THEN s[k - from]
                     ELSE IF k <= Len(d) THEN d[k] ELSE Copy!Hole
<1> DEFINE n == IF s # <<>> /\ from + Len(s) > Len(d) THEN from + Len(s) ELSE Len(d)
           byte(k) == IF k \in (from + 1)..(from + Len(s)) THEN s[k - from]
                      ELSE IF k <= Len(d) THEN d[k] ELSE Copy!Hole
           f == [k \in 1..n |-> byte(k)]
<1>1. Len(d) \in Nat /\ Len(s) \in Nat /\ n \in Nat
  BY LenProperties
<1>2. ASSUME NEW k \in 1..n PROVE byte(k) \in Int
  <2>1. CASE k \in (from + 1)..(from + Len(s))
    <3>1. k - from \in 1..Len(s)
      BY <2>1, <1>1
    <3> QED
      BY <2>1, <3>1, ElementOfSeq
  <2>2. CASE k \notin (from + 1)..(from + Len(s)) /\ k <= Len(d)
    BY <2>2, <1>1, <1>2, ElementOfSeq
  <2>3. CASE k \notin (from + 1)..(from + Len(s)) /\ ~(k <= Len(d))
    BY <2>3 DEF Copy!Hole
  <2> QED
    BY <2>1, <2>2, <2>3
<1>3. Copy!Written(d, from, s) = f
  BY DEF Copy!Written
<1> HIDE DEF n, byte
<1>4. f \in Seq(Int) /\ Len(f) = n
  <2>1. f \in [1..n -> Int] /\ n \in Int
    BY <1>1, <1>2
  <2> HIDE DEF f
  <2>2. f \in Seq(Int) /\ Len(f) = IF n >= 0 THEN n ELSE 0
    BY <2>1, NumberedIsSeq, Zenon
  <2> QED
    BY <1>1, <2>2
<1> QED
  BY <1>3, <1>4 DEF n, byte

(* What a process writes: what it has read last, and stale bytes after that. *)
LEMMA BytesAre ==
  ASSUME NEW q \in Copiers, copied[q] \in Seq(Int), Copy!ToWrite(q) \in Int
  PROVE  /\ Copy!Bytes(q) \in Seq(Int)
         /\ Len(Copy!Bytes(q)) = IF Copy!ToWrite(q) >= 0 THEN Copy!ToWrite(q) ELSE 0
         /\ \A k \in 1..Copy!ToWrite(q) :
              k <= Len(copied[q]) => Copy!Bytes(q)[k] = copied[q][k]
<1> DEFINE m == Copy!ToWrite(q)
           s == copied[q]
           f == [k \in 1..m |-> IF k <= Len(s) THEN s[k] ELSE Copy!Stale]
<1>1. Copy!Bytes(q) = f
  BY DEF Copy!Bytes
<1>2. m \in Int /\ s \in Seq(Int) /\ Len(s) \in Nat
  BY LenProperties
<1> HIDE DEF m, s
<1>3. \A k \in 1..m : k <= Len(s) => f[k] = s[k]
  OBVIOUS
<1>4. f \in [1..m -> Int]
  <2>1. \A k \in 1..m : k <= Len(s) => s[k] \in Int
    BY <1>2, ElementOfSeq
  <2> QED
    BY <1>2, <2>1 DEF Copy!Stale
<1> HIDE DEF f
<1>5. f \in Seq(Int) /\ Len(f) = IF m >= 0 THEN m ELSE 0
  BY <1>2, <1>4, NumberedIsSeq, Zenon
<1> QED
  BY <1>1, <1>3, <1>5 DEF m, s

(* The write of a process: it is within its share but for one byte per failed *)
(* read, and the rest stays right.                                            *)
LEMMA WriteIsRight ==
  ASSUME CopyInv, NEW q \in Copiers, Copy!Write(q)
  PROVE  /\ dest' \in Seq(Int)
         /\ Copy!NeverWrong'
         /\ \A k \in 1..Len(src) : Copy!Copied(k) => Copy!Copied(k)'
         /\ \A k \in (pos[q] + 1)..(IF Copy!Done(q) THEN Copy!end(q) ELSE pos[q] + Len(copied[q])) :
              k <= Len(src) /\ Copy!Copied(k)'
<1> DEFINE n == Len(copied[q])
           m == Copy!ToWrite(q)
           put == IF m >= 0 THEN m ELSE 0
           s == Copy!Bytes(q)
           to == IF Copy!Done(q) THEN Copy!end(q) ELSE pos[q] + n
<1>1. /\ copied[q] \in Seq(Int) /\ n \in Nat /\ pos[q] \in Nat /\ sum[q] \in Int
      /\ dest \in Seq(Int) /\ Len(dest) \in Nat /\ Len(src) \in Nat
      /\ failures \in [Copiers -> Nat] /\ failures[q] \in Nat
      /\ pc[q] = "write" /\ src' = src /\ failures' = failures
  BY LenProperties DEF CopyInv, CopyTyped, Copy!Write, Copy!Goes
<1>2. /\ regular /\ AtOffset(q, sum[q] - n) /\ pos[q] + n <= Len(src)
      /\ \A k \in 1..n : copied[q][k] = pos[q] + k
      /\ copied[q] = <<>> => pos[q] >= Len(src)
  BY <1>1 DEF CopyInv, CopyPlaces, Place
<1>3. copied[q] = <<>> <=> n = 0
  BY <1>1, EmptySeq
<1>4. /\ m \in Int /\ to \in Int /\ to <= pos[q] + put /\ to <= Len(src)
      /\ put <= n \/ (pos[q] = Len(src) /\ put <= failures[q])
  <2>1. /\ Copy!start(q) \in Int /\ Copy!len(q) \in Int /\ Copy!offset(q) \in Nat
        /\ Copy!end(q) = Copy!start(q) + Copy!len(q) /\ Copy!start(q) <= Copy!offset(q)
        /\ Copy!offset(q) + Copy!len(q) <= Len(src)
    BY <1>2, ShareBounds DEF CopyInv
  <2>2. Copy!Done(q) <=> n = 0 \/ sum[q] >= Copy!len(q)
    BY <1>3 DEF Copy!Done
  <2>3. /\ pos[q] = Copy!offset(q) + (sum[q] - n) + failures[q] /\ pos[q] <= Len(src)
        /\ n = 0 => pos[q] >= Len(src)
    BY <1>2, <1>3 DEF AtOffset
  <2>4. CASE Copy!Done(q)
    <3>1. m = n - (sum[q] - Copy!len(q)) /\ to = Copy!start(q) + Copy!len(q)
      BY <2>1, <2>4 DEF Copy!ToWrite
    <3> DEFINE p == pos[q]
               f == failures[q]
               total == sum[q]
               size == Len(src)
               first == Copy!start(q)
               share == Copy!len(q)
               off == Copy!offset(q)
    <3>2. /\ p \in Nat /\ f \in Nat /\ total \in Int /\ size \in Nat /\ n \in Nat
          /\ first \in Int /\ share \in Int /\ off \in Nat
          /\ first <= off /\ off + share <= size
          /\ p = off + (total - n) + f /\ p <= size /\ (n = 0 => p >= size)
          /\ n = 0 \/ total >= share
          /\ m = n - (total - share) /\ to = first + share
      BY <1>1, <2>1, <2>2, <2>3, <2>4, <3>1
    <3> HIDE DEF n, m, to, p, f, total, size, first, share, off
    <3>3. m \in Int /\ to \in Int /\ to <= p + m /\ to <= size
      BY <3>2
    <3>4. m <= n \/ (p = size /\ m <= f)
      BY <3>2
    <3>5. put \in Nat /\ put >= m /\ (put = m \/ put = 0)
      BY <3>3
    <3> HIDE DEF put
    <3>6. to <= p + put
      BY <3>2, <3>3, <3>5
    <3>7. put <= n \/ (p = size /\ put <= f)
      BY <3>2, <3>3, <3>4, <3>5
    <3> QED
      BY <3>3, <3>6, <3>7, Zenon DEF p, f, size
  <2>5. CASE ~Copy!Done(q)
    BY <1>1, <1>2, <2>5 DEF Copy!ToWrite
  <2> QED
    BY <2>4, <2>5
<1>5. s \in Seq(Int) /\ Len(s) = put /\ \A k \in 1..m : k <= n => s[k] = copied[q][k]
  BY <1>1, <1>4, BytesAre
<1>6. dest' = Copy!Written(dest, pos[q], s)
  BY DEF Copy!Write, Copy!WriteAt
<1> HIDE DEF m, s, to
<1>7. /\ dest' \in Seq(Int) /\ Len(dest') \in Nat
      /\ Len(dest') = IF s # <<>> /\ pos[q] + put > Len(dest) THEN pos[q] + put ELSE Len(dest)
      /\ \A k \in 1..Len(dest') :
           dest'[k] = IF k \in (pos[q] + 1)..(pos[q] + put) THEN s[k - pos[q]]
                      ELSE IF k <= Len(dest) THEN dest[k] ELSE Copy!Hole
  <2>1. LET e == Copy!Written(dest, pos[q], s) IN
        /\ e \in Seq(Int)
        /\ Len(e) = IF s # <<>> /\ pos[q] + Len(s) > Len(dest) THEN pos[q] + Len(s) ELSE Len(dest)
        /\ \A k \in 1..Len(e) :
             e[k] = IF k \in (pos[q] + 1)..(pos[q] + Len(s)) THEN s[k - pos[q]]
                    ELSE IF k <= Len(dest) THEN dest[k] ELSE Copy!Hole
    <3>1. dest \in Seq(Int) /\ pos[q] \in Nat /\ s \in Seq(Int)
      BY <1>1, <1>5
    <3> QED
      BY <3>1, WrittenIs, Zenon
  <2>2. Len(s) = put
    BY <1>5
  <2> HIDE DEF put
  <2>3. Len(dest') \in Nat
    BY <1>6, <2>1, LenProperties
  <2> QED
    BY <1>6, <2>1, <2>2, <2>3
<1>8. put \in Nat /\ (s # <<>> <=> put > 0)
  BY <1>4, <1>5, EmptySeq
<1>9. ASSUME NEW k \in (pos[q] + 1)..(pos[q] + put), k <= Len(src) PROVE s[k - pos[q]] = k
  <2>1. put <= n /\ put = m
    BY <1>1, <1>4, <1>8, <1>9
  <2> DEFINE j == k - pos[q]
             p == pos[q]
  <2>2. p \in Nat /\ k \in Int /\ k >= p + 1 /\ k <= p + put /\ n \in Nat /\ m \in Int
    BY <1>1, <1>4, <1>8, <1>9
  <2> HIDE DEF p, put, n
  <2>3. k - p \in 1..m /\ k - p \in 1..n /\ p + (k - p) = k
    BY <2>1, <2>2
  <2>4. j \in 1..m /\ j \in 1..n /\ j <= n /\ p + j = k
    BY <2>2, <2>3 DEF p
  <2> HIDE DEF j
  <2>5. s[j] = copied[q][j] /\ copied[q][j] = pos[q] + j
    BY <1>2, <1>5, <2>4 DEF n
  <2> QED
    BY <2>4, <2>5 DEF j, p
<1>10. \A k \in 1..Len(src) : src[k] = k
  BY DEF CopyInv, CopyTyped
<1> HIDE DEF put, n
<1>11. Copy!NeverWrong'
  <2>1. PICK p \in Copiers : Len(dest) <= Len(src) + failures[p]
    BY DEF CopyInv, Copy!NeverWrong, Copiers
  <2>2. \E p1 \in Copiers : Len(dest') <= Len(src) + failures[p1]
    <3>1. CASE Len(dest') = Len(dest)
      BY <2>1, <3>1
    <3>2. CASE Len(dest') # Len(dest)
      <4>1. Len(dest') = pos[q] + put
        BY <1>7, <3>2
      <4>2. Len(dest') <= Len(src) + failures[q]
        BY <1>1, <1>2, <1>4, <1>8, <4>1
      <4> QED
        BY <4>2
    <3> QED
      BY <3>1, <3>2
  <2>3. ASSUME NEW k \in 1..Len(dest'), k <= Len(src) PROVE dest'[k] \in {src[k], Copy!Hole}
    <3>1. CASE k \in (pos[q] + 1)..(pos[q] + put)
      <4>1. dest'[k] = k
        BY <1>7, <1>9, <2>3, <3>1
      <4>2. k \in 1..Len(src)
        BY <1>1, <1>7, <2>3
      <4> QED
        BY <1>10, <4>1, <4>2
    <3>2. CASE k \notin (pos[q] + 1)..(pos[q] + put) /\ k <= Len(dest)
      <4>1. dest'[k] = dest[k] /\ k \in 1..Len(dest)
        BY <1>1, <1>7, <3>2
      <4> QED
        BY <2>3, <4>1 DEF CopyInv, Copy!NeverWrong
    <3>3. CASE k \notin (pos[q] + 1)..(pos[q] + put) /\ ~(k <= Len(dest))
      BY <1>7, <3>3
    <3> QED
      BY <3>1, <3>2, <3>3
  <2>4. \A k \in 1..Len(dest') : k <= Len(src') => dest'[k] \in {src'[k], Copy!Hole}
    BY <1>1, <2>3, Zenon
  <2>5. \E p1 \in Copiers : Len(dest') <= Len(src') + failures'[p1]
    BY <1>1, <2>2, Zenon
  <2> QED
    BY <2>4, <2>5, Zenon DEF Copy!NeverWrong, Copiers
<1>12. ASSUME NEW k \in 1..Len(src), Copy!Copied(k) PROVE Copy!Copied(k)'
  <2>1. k \in 1..Len(dest) /\ dest[k] = k /\ k \in 1..Len(dest')
    <3>1. k \in 1..Len(dest) /\ dest[k] = src[k]
      BY <1>12, Zenon DEF Copy!Copied
    <3>2. src[k] = k
      BY <1>10, <1>12, Zenon
    <3>3. Len(dest') = IF s # <<>> /\ pos[q] + put > Len(dest) THEN pos[q] + put ELSE Len(dest)
      BY <1>7, Zenon
    <3> DEFINE old == Len(dest)
               new == Len(dest')
    <3>4. old \in Nat /\ new \in Nat /\ new >= old
      BY <1>1, <1>7, <1>8, <3>3
    <3> HIDE DEF old, new
    <3>5. k \in 1..old => k \in 1..new
      BY <3>4
    <3> QED
      BY <3>1, <3>2, <3>5, Zenon DEF old, new
  <2>2. dest'[k] = k
    <3>1. CASE k \in (pos[q] + 1)..(pos[q] + put)
      <4>1. dest'[k] = s[k - pos[q]]
        BY <1>7, <2>1, <3>1
      <4>2. k <= Len(src)
        BY <1>1, <1>12
      <4> QED
        BY <1>9, <3>1, <4>1, <4>2
    <3>2. CASE k \notin (pos[q] + 1)..(pos[q] + put)
      <4>1. k <= Len(dest)
        BY <1>1, <2>1
      <4> QED
        BY <1>7, <2>1, <3>2, <4>1
    <3> QED
      BY <3>1, <3>2
  <2> QED
    BY <1>1, <1>10, <2>1, <2>2 DEF Copy!Copied
<1>13. ASSUME NEW k \in (pos[q] + 1)..to PROVE k <= Len(src) /\ Copy!Copied(k)'
  <2>1. k \in 1..Len(src) /\ k \in (pos[q] + 1)..(pos[q] + put) /\ put > 0
    BY <1>1, <1>4, <1>8, <1>13
  <2>2. k \in 1..Len(dest')
    BY <1>1, <1>7, <1>8, <2>1
  <2>3. dest'[k] = k
    BY <1>7, <1>9, <2>1, <2>2
  <2> QED
    BY <1>1, <1>10, <2>1, <2>2, <2>3 DEF Copy!Copied
<1> QED
  BY <1>7, <1>11, <1>12, <1>13 DEF to, n

(* Nothing but a write disturbs what is copied. *)
LEMMA CopyStays ==
  ASSUME CopyInv, UNCHANGED <<length, src, dest>>, failures' \in [Copiers -> Nat],
         \A q \in Copiers : failures'[q] >= failures[q]
  PROVE  /\ Copy!NeverWrong'
         /\ \A q \in Copiers : /\ Copy!start(q)' = Copy!start(q) /\ Copy!len(q)' = Copy!len(q)
                               /\ Copy!end(q)' = Copy!end(q) /\ Copy!offset(q)' = Copy!offset(q)
                               /\ \A to : Whole(q, to)' <=> Whole(q, to)
<1>1. Copy!NeverWrong'
  <2>1. PICK q \in Copiers : Len(dest) <= Len(src) + failures[q]
    BY DEF CopyInv, Copy!NeverWrong, Copiers
  <2>2. Len(dest) \in Nat /\ Len(src) \in Nat /\ failures \in [Copiers -> Nat]
    BY LenProperties DEF CopyInv, CopyTyped
  <2>3. Len(dest') <= Len(src') + failures'[q]
    BY <2>1, <2>2
  <2> QED
    BY <2>3 DEF CopyInv, Copy!NeverWrong, Copiers
<1> QED
  BY <1>1 DEF Copy!start, Copy!len, Copy!end, Copy!half, Copy!offset, Copy!Copied, Whole

(* A step that does not fail to read either disturbs nothing. *)
LEMMA CopyKept ==
  ASSUME CopyInv, UNCHANGED <<length, src, dest, failures>>
  PROVE  /\ Copy!NeverWrong'
         /\ \A q \in Copiers : /\ Copy!start(q)' = Copy!start(q) /\ Copy!len(q)' = Copy!len(q)
                               /\ Copy!end(q)' = Copy!end(q) /\ Copy!offset(q)' = Copy!offset(q)
                               /\ \A to : Whole(q, to)' <=> Whole(q, to)
<1>1. failures' \in [Copiers -> Nat] /\ \A q \in Copiers : failures'[q] >= failures[q]
  BY DEF CopyInv, CopyTyped
<1> QED
  BY <1>1, CopyStays

(* A process whose variables do not change stays where it is. *)
LEMMA PlaceStays ==
  ASSUME NEW q, Place(q), UNCHANGED <<regular, length, src>>, failures'[q] = failures[q],
         pc'[q] = pc[q], pos'[q] = pos[q], sum'[q] = sum[q], copied'[q] = copied[q]
  PROVE  Place(q)'
BY DEF Place, AtOffset, Copy!offset, Copy!start, Copy!len, Copy!half

(* The read of a process gives the bytes at its offset. *)
LEMMA ReadIsRight ==
  ASSUME CopyInv, NEW q \in Copiers, Copy!Read(q)
  PROVE  /\ copied' \in [Copiers -> Seq(Int)] /\ sum' \in [Copiers -> Int]
         /\ \A other \in Copiers \ {q} : copied'[other] = copied[other] /\ sum'[other] = sum[other]
         /\ sum'[q] - Len(copied'[q]) = sum[q]
         /\ pos[q] + Len(copied'[q]) <= Len(src)
         /\ \A k \in 1..Len(copied'[q]) : copied'[q][k] = pos[q] + k
         /\ copied'[q] = <<>> => pos[q] >= Len(src)
<1> DEFINE res == IF Copy!Available(q) < CopyBuffer THEN Copy!Available(q) ELSE CopyBuffer
           got1 == SubSeq(src, pos[q] + 1, pos[q] + res)
<1>1. /\ pos[q] \in Nat /\ sum \in [Copiers -> Int] /\ copied \in [Copiers -> Seq(Int)]
      /\ src \in Seq(Int) /\ Len(src) \in Nat /\ \A k \in 1..Len(src) : src[k] = k
      /\ pos[q] <= Len(src)
  <2>1. AtOffset(q, sum[q]) /\ regular
    BY DEF CopyInv, CopyPlaces, Place, Copy!Read, Copy!Goes
  <2> QED
    BY <2>1, LenProperties DEF AtOffset, CopyInv, CopyTyped
<1>2. CopyBuffer \in Nat \ {0}
  BY ForkAndIpcAssumption DEF Copy!CopyAssumption
<1>3. res \in Nat /\ pos[q] + res <= Len(src) /\ (res = 0 => pos[q] >= Len(src))
  BY <1>1, <1>2 DEF Copy!Available
<1> HIDE DEF res
<1>4. got1 \in Seq(Int) /\ Len(got1) = res /\ \A k \in 1..res : got1[k] = pos[q] + k
  <2>1. got1 \in Seq(Int) /\ Len(got1) = res /\ \A k \in 1..res : got1[k] = src[pos[q] + k]
    <3>1. src \in Seq(Int) /\ pos[q] \in Nat /\ res \in Nat /\ pos[q] + res <= Len(src)
      BY <1>1, <1>3
    <3> QED
      BY <3>1, PartOfSeq, ZenonT(30)
  <2>2. \A k \in 1..res : src[pos[q] + k] = pos[q] + k
    BY <1>1, <1>3
  <2> QED
    BY <2>1, <2>2
<1>5. /\ copied' = [copied EXCEPT ![q] = got1]
      /\ sum' = [sum EXCEPT ![q] = @ + res]
  BY DEF Copy!Read, res
<1> HIDE DEF got1
<1>6. copied'[q] = got1 /\ sum'[q] = sum[q] + res
  BY <1>1, <1>5
<1>7. got1 = <<>> => res = 0
  BY <1>4, EmptySeq
<1> QED
  BY <1>1, <1>3, <1>4, <1>5, <1>6, <1>7

(* read by a process *)
LEMMA CopyReads ==
  ASSUME CopyInv, NEW q \in Copiers, Copy!Read(q)
  PROVE  CopyInv'
<1>1. /\ regular /\ pc[q] = "read" /\ pc' = [pc EXCEPT ![q] = "write"]
      /\ UNCHANGED <<regular, length, src, dest, pos, failures, failed>>
  BY DEF Copy!Read, Copy!Goes
<1>2. CopyTyped'
  BY <1>1, ReadIsRight DEF CopyInv, CopyTyped, Copy!ToInt
<1>3. /\ Copy!NeverWrong'
      /\ \A p \in Copiers : /\ Copy!start(p)' = Copy!start(p) /\ Copy!len(p)' = Copy!len(p)
                            /\ Copy!end(p)' = Copy!end(p) /\ Copy!offset(p)' = Copy!offset(p)
                            /\ \A to : Whole(p, to)' <=> Whole(p, to)
  BY <1>1, CopyKept
<1>4. CopyPlaces'
  <2>1. AtOffset(q, sum[q])
    BY <1>1 DEF CopyInv, CopyPlaces, Place
  <2>2. AtOffset(q, sum[q] - Len(copied[q]))'
    BY <1>1, <1>3, <2>1, ReadIsRight DEF AtOffset
  <2>3. /\ pc'[q] = "write"
        /\ \A other \in Copiers \ {q} : pc'[other] = pc[other]
    BY <1>1 DEF CopyInv, CopyTyped
  <2>4. Place(q)'
    BY <1>1, <2>2, <2>3, ReadIsRight DEF Place
  <2>5. ASSUME NEW other \in Copiers \ {q} PROVE Place(other)'
    BY <1>1, <2>3, ReadIsRight, PlaceStays DEF CopyInv, CopyPlaces
  <2> QED
    BY <1>1, <2>3, <2>4, <2>5 DEF CopyInv, CopyTyped, CopyPlaces, Copiers, Copy!Processes
<1>5. CopiedSoFar'
  BY <1>1, <1>3 DEF CopyInv, CopyTyped, CopiedSoFar
<1> QED
  BY <1>2, <1>3, <1>4, <1>5 DEF CopyInv

(* read fails: the process has read no more, and a share that it leaves is    *)
(* empty, since it had something to read or len is below what it has got.     *)
LEMMA CopyReadFails ==
  ASSUME CopyInv, NEW q \in Copiers, Copy!ReadFails(q)
  PROVE  CopyInv'
<1> DEFINE after == IF sum[q] - 1 >= Copy!len(q) THEN Copy!Returns(q) ELSE "read"
<1>1. /\ pc[q] = "read" /\ pc' = [pc EXCEPT ![q] = after]
      /\ sum' = [sum EXCEPT ![q] = @ - 1] /\ failures' = [failures EXCEPT ![q] = @ + 1]
      /\ UNCHANGED <<regular, length, src, dest, pos, copied, failed>>
  BY DEF Copy!ReadFails, Copy!Goes
<1>2. after \in {"read", "wait", "exited"} /\ (after # "read" => sum[q] - 1 >= Copy!len(q))
  BY DEF Copy!Returns
<1>3. after = "exited" => q = "child"
  BY DEF Copy!Returns, Copiers, Copy!Processes
<1> HIDE DEF after
<1>4. /\ pc'[q] = after /\ sum'[q] = sum[q] - 1 /\ failures'[q] = failures[q] + 1
      /\ sum[q] \in Int /\ failures \in [Copiers -> Nat] /\ failures' \in [Copiers -> Nat]
      /\ \A other \in Copiers \ {q} : /\ pc'[other] = pc[other] /\ sum'[other] = sum[other]
                                      /\ failures'[other] = failures[other]
  BY <1>1 DEF CopyInv, CopyTyped
<1>5. CopyTyped'
  BY <1>1, <1>2, <1>4 DEF CopyInv, CopyTyped, Copy!ToInt
<1>6. /\ Copy!NeverWrong'
      /\ \A p \in Copiers : /\ Copy!start(p)' = Copy!start(p) /\ Copy!len(p)' = Copy!len(p)
                            /\ Copy!end(p)' = Copy!end(p) /\ Copy!offset(p)' = Copy!offset(p)
                            /\ \A to : Whole(p, to)' <=> Whole(p, to)
  <2>1. \A p \in Copiers : failures'[p] >= failures[p]
    BY <1>4
  <2> QED
    BY <1>1, <1>4, <2>1, CopyStays
<1>7. /\ Copy!start(q) \in Int /\ Copy!len(q) \in Int /\ Copy!offset(q) \in Nat
      /\ Copy!end(q) = Copy!start(q) + Copy!len(q) /\ Copy!start(q) <= Copy!offset(q)
  BY ShareBounds DEF CopyInv
<1>8. AtOffset(q, sum[q])
  BY <1>1 DEF CopyInv, CopyPlaces, Place
<1>9. CopyPlaces'
  <2>1. AtOffset(q, sum[q])'
    BY <1>1, <1>4, <1>6, <1>7, <1>8 DEF AtOffset
  <2>2. Place(q)'
    BY <1>2, <1>4, <2>1 DEF Place
  <2>3. ASSUME NEW other \in Copiers \ {q} PROVE Place(other)'
    BY <1>1, <1>4, PlaceStays DEF CopyInv, CopyPlaces
  <2> QED
    BY <1>1, <1>2, <1>3, <1>4, <2>2, <2>3 DEF CopyInv, CopyTyped, CopyPlaces, Copiers, Copy!Processes
<1>10. CopiedSoFar'
  <2>1. ASSUME after # "read" PROVE Whole(q, Copy!end(q))
    <3>1. Copy!len(q) < 0
      BY <1>2, <1>4, <1>7, <1>8, <2>1 DEF AtOffset
    <3>2. Copy!end(q) <= Copy!offset(q) /\ Copy!end(q) \in Int
      BY <1>7, <3>1
    <3> QED
      BY <1>7, <3>2 DEF Whole
  <2>2. regular => Whole(q, pos[q])
    BY <1>1 DEF CopyInv, CopiedSoFar
  <2> QED
    BY <1>1, <1>4, <1>6, <2>1, <2>2 DEF CopyInv, CopiedSoFar
<1> QED
  BY <1>5, <1>6, <1>9, <1>10 DEF CopyInv

(* write by a process, of what it has read, up to its share *)
LEMMA CopyWrites ==
  ASSUME CopyInv, NEW q \in Copiers, Copy!Write(q)
  PROVE  CopyInv'
<1> DEFINE after == IF Copy!Done(q) THEN Copy!Returns(q) ELSE "read"
           n == Len(copied[q])
<1>1. /\ pc[q] = "write" /\ pc' = [pc EXCEPT ![q] = after]
      /\ pos' = [pos EXCEPT ![q] = @ + n]
      /\ UNCHANGED <<regular, length, src, copied, sum, failures, failed>>
  BY DEF Copy!Write, Copy!Goes
<1>2. /\ n \in Nat /\ pos \in [Copiers -> Nat] /\ sum \in [Copiers -> Int]
      /\ failures \in [Copiers -> Nat] /\ (copied[q] = <<>> <=> n = 0)
  BY LenProperties, EmptySeq DEF CopyInv, CopyTyped
<1>3. /\ pc'[q] = after /\ pos'[q] = pos[q] + n
      /\ \A other \in Copiers \ {q} : pc'[other] = pc[other] /\ pos'[other] = pos[other]
  BY <1>1, <1>2 DEF CopyInv, CopyTyped
<1>4. /\ after \in {"read", "wait", "exited"} /\ (after = "read" => ~Copy!Done(q))
      /\ after # "read" => Copy!Done(q)
      /\ after = "exited" => q = "child"
  BY DEF Copy!Returns, Copiers, Copy!Processes
<1> HIDE DEF after
<1>5. CopyTyped'
  <2>1. pc' \in [Copiers -> {"fork", "unborn", "open", "read", "write", "wait", "exited"}]
    BY <1>1, <1>4 DEF CopyInv, CopyTyped
  <2>2. pos' \in [Copiers -> Nat]
    BY <1>1, <1>2
  <2>3. dest' \in Seq(Int)
    BY WriteIsRight
  <2>4. Copy!ToInt(Len(src))' = Copy!ToInt(Len(src))
    BY <1>1 DEF Copy!ToInt
  <2> QED
    BY <1>1, <2>1, <2>2, <2>3, <2>4 DEF CopyInv, CopyTyped
<1>6. \A p \in Copiers : /\ Copy!start(p)' = Copy!start(p) /\ Copy!len(p)' = Copy!len(p)
                         /\ Copy!end(p)' = Copy!end(p) /\ Copy!offset(p)' = Copy!offset(p)
  BY <1>1 DEF Copy!start, Copy!len, Copy!end, Copy!half, Copy!offset
<1>7. Copy!offset(q) \in Nat /\ Copy!len(q) \in Int /\ Copy!end(q) \in Int
  BY ShareBounds DEF CopyInv
<1>8. CopyPlaces'
  <2>1. /\ AtOffset(q, sum[q] - n) /\ pos[q] + n <= Len(src)
    BY <1>1 DEF CopyInv, CopyPlaces, Place
  <2>2. ASSUME ~Copy!Done(q) PROVE AtOffset(q, sum[q])'
    <3>1. sum[q] < Copy!len(q)
      BY <1>2, <1>7, <2>2 DEF Copy!Done
    <3>2. /\ pos'[q] = pos[q] + n /\ sum' = sum /\ failures' = failures /\ src' = src
          /\ regular' = regular /\ Copy!offset(q)' = Copy!offset(q) /\ Copy!len(q)' = Copy!len(q)
      BY <1>1, <1>3, <1>6
    <3>3. /\ pos[q] \in Nat /\ sum[q] \in Int /\ failures[q] \in Nat
          /\ Copy!offset(q) \in Nat /\ Copy!len(q) \in Int /\ n \in Nat
      BY <1>2, <1>7
    <3>4. /\ (sum[q] - n) + failures[q] >= 0
          /\ pos[q] = Copy!offset(q) + (sum[q] - n) + failures[q]
      BY <2>1 DEF AtOffset
    <3>5. /\ sum[q] + failures[q] >= 0
          /\ pos[q] + n = Copy!offset(q) + sum[q] + failures[q]
      <4> DEFINE p == pos[q]
                 total == sum[q]
                 f == failures[q]
                 off == Copy!offset(q)
      <4>1. /\ p \in Nat /\ total \in Int /\ f \in Nat /\ off \in Nat /\ n \in Nat
            /\ (total - n) + f >= 0 /\ p = off + (total - n) + f
        BY <3>3, <3>4
      <4> HIDE DEF p, total, f, off, n
      <4>2. total + f >= 0 /\ p + n = off + total + f
        BY <4>1
      <4> QED
        BY <4>2, Zenon DEF p, total, f, off
    <3> QED
      BY <2>1, <3>1, <3>2, <3>5 DEF AtOffset
  <2>3. Place(q)'
    BY <1>3, <1>4, <2>2 DEF Place
  <2>4. ASSUME NEW other \in Copiers \ {q} PROVE Place(other)'
    BY <1>1, <1>3, PlaceStays DEF CopyInv, CopyPlaces
  <2>5. pc'["parent"] \in {"fork", "exited"} => q = "child" /\ pc'["parent"] = pc["parent"]
    BY <1>3, <1>4 DEF Copiers, Copy!Processes
  <2>6. pc'["parent"] \in {"fork", "exited"} => failed = Copiers
    BY <1>1, <2>5 DEF CopyInv, CopyPlaces
  <2>7. pc'["parent"] # "fork"
    BY <1>1, <2>5 DEF CopyInv, CopyPlaces
  <2> QED
    BY <1>1, <2>3, <2>4, <2>6, <2>7 DEF CopyPlaces
<1>9. CopiedSoFar'
  <2> DEFINE to == IF Copy!Done(q) THEN Copy!end(q) ELSE pos[q] + n
             Kept(p, last) == \A k \in (Copy!offset(p) + 1)..last : k <= Len(src) /\ Copy!Copied(k)'
  <2>1. to \in Int /\ pos[q] \in Nat /\ Len(src) \in Nat
    BY <1>2, <1>7, LenProperties DEF CopyInv, CopyTyped
  <2>2. ASSUME NEW p \in Copiers
        PROVE  /\ Whole(p, pos[p]) => Kept(p, pos[p])
               /\ Whole(p, Copy!end(p)) => Kept(p, Copy!end(p))
    <3>1. Copy!offset(p) \in Nat /\ pos[p] \in Int /\ Copy!end(p) \in Int
      BY <1>2, ShareBounds DEF CopyInv
    <3>2. \A k \in 1..Len(src) : Copy!Copied(k) => Copy!Copied(k)'
      BY WriteIsRight
    <3> QED
      BY <2>1, <3>1, <3>2 DEF Whole
  <2>3. Kept(q, to)
    <3>1. Kept(q, pos[q])
      BY <1>1, <2>2 DEF CopyInv, CopyPlaces, Place, CopiedSoFar
    <3>2. \A k \in (pos[q] + 1)..to : k <= Len(src) /\ Copy!Copied(k)'
      BY WriteIsRight
    <3> HIDE DEF to
    <3> QED
      BY <1>7, <2>1, <3>1, <3>2
  <2>4. ASSUME NEW p \in Copiers \ {q}
        PROVE  /\ regular' /\ pc'[p] \in {"read", "write"} => Whole(p, pos[p])'
               /\ pc'[p] \in {"wait", "exited"} /\ p \notin failed' => Whole(p, Copy!end(p))'
    BY <1>1, <1>3, <1>6, <2>2 DEF CopyInv, CopiedSoFar, Whole
  <2>5. CASE Copy!Done(q)
    <3>1. Kept(q, Copy!end(q)) /\ pc'[q] \in {"wait", "exited"}
      BY <1>3, <1>4, <2>3, <2>5
    <3>2. Whole(q, Copy!end(q))'
      BY <1>1, <1>6, <3>1 DEF Whole
    <3> QED
      BY <2>4, <3>1, <3>2 DEF CopiedSoFar
  <2>6. CASE ~Copy!Done(q)
    <3>1. Kept(q, pos[q] + n) /\ pc'[q] = "read"
      BY <1>3, <1>4, <2>3, <2>6
    <3>2. Whole(q, pos[q])'
      BY <1>1, <1>3, <1>6, <3>1 DEF Whole
    <3> QED
      BY <2>4, <3>1, <3>2 DEF CopiedSoFar
  <2> QED
    BY <2>5, <2>6
<1> QED
  BY <1>5, <1>8, <1>9, WriteIsRight DEF CopyInv

(* No step of the copy breaks its invariant. *)
LEMMA CopyStep ==
  ASSUME CopyInv, Copy!Next \/ UNCHANGED copyVars
  PROVE  CopyInv'
<1>1. CASE Copy!Fork
  <2>1. /\ pc["parent"] = "fork" /\ pc' = [q \in Copiers |-> "open"]
        /\ UNCHANGED <<regular, length, src, dest, pos, copied, sum, failures, failed>>
    BY <1>1 DEF Copy!Fork, Copiers
  <2>2. pc["child"] = "unborn" /\ \A q \in Copiers : sum[q] = 0 /\ failures[q] = 0
    BY <2>1 DEF CopyInv, CopyPlaces, Place, Copiers, Copy!Processes
  <2>3. CopyTyped'
    BY <2>1 DEF CopyInv, CopyTyped, Copy!ToInt
  <2>4. CopyPlaces'
    BY <2>1, <2>2 DEF CopyPlaces, Place, Copiers, Copy!Processes
  <2>5. CopiedSoFar'
    BY <2>1 DEF CopiedSoFar
  <2> QED
    BY <2>1, <2>3, <2>4, <2>5, CopyKept DEF CopyInv
<1>2. CASE Copy!ForkFails
  <2>1. /\ pc["parent"] = "fork" /\ pc' = [pc EXCEPT !["parent"] = "exited"] /\ failed' = Copiers
        /\ UNCHANGED <<regular, length, src, dest, pos, copied, sum, failures>>
    BY <1>2 DEF Copy!ForkFails, Copy!Goes, Copiers
  <2>2. pc["child"] = "unborn" /\ pc'["child"] = "unborn" /\ pc'["parent"] = "exited"
    BY <2>1 DEF CopyInv, CopyTyped, CopyPlaces, Copiers, Copy!Processes
  <2>3. CopyTyped'
    BY <2>1 DEF CopyInv, CopyTyped, Copy!ToInt
  <2>4. Place("child")' /\ Place("parent")'
    BY <2>1, <2>2, PlaceStays DEF CopyInv, CopyPlaces, Place, Copiers, Copy!Processes
  <2>5. CopyPlaces'
    BY <2>1, <2>2, <2>4 DEF CopyPlaces, Copiers, Copy!Processes
  <2>6. CopiedSoFar'
    BY <2>1, <2>2 DEF CopiedSoFar, Copiers, Copy!Processes
  <2> QED
    BY <2>1, <2>3, <2>5, <2>6, CopyKept DEF CopyInv
<1>3. CASE Copy!Wait
  <2>1. /\ pc["child"] = "exited" /\ pc["parent"] = "wait"
        /\ pc' = [pc EXCEPT !["parent"] = "exited"]
        /\ UNCHANGED <<regular, length, src, dest, pos, copied, sum, failures, failed>>
    BY <1>3 DEF Copy!Wait, Copy!Goes
  <2>2. pc'["child"] = "exited" /\ pc'["parent"] = "exited"
    BY <2>1 DEF CopyInv, CopyTyped, Copiers, Copy!Processes
  <2>3. CopyTyped'
    BY <2>1 DEF CopyInv, CopyTyped, Copy!ToInt
  <2>4. CopyPlaces'
    BY <2>2 DEF CopyPlaces, Place, Copiers, Copy!Processes
  <2>5. CopiedSoFar'
    BY <2>1, <2>2, CopyKept DEF CopyInv, CopiedSoFar, Copiers, Copy!Processes
  <2> QED
    BY <2>1, <2>3, <2>4, <2>5, CopyKept DEF CopyInv
<1>4. ASSUME NEW q \in Copiers, Copy!Open(q) PROVE CopyInv'
  <2>1. /\ pc[q] = "open" /\ pc' = [pc EXCEPT ![q] = "read"]
        /\ pos' = [pos EXCEPT ![q] = Copy!offset(q)]
        /\ UNCHANGED <<regular, length, src, dest, copied, sum, failures, failed>>
    BY <1>4 DEF Copy!Open, Copy!Goes
  <2>2. Copy!offset(q) \in Nat /\ (regular => Copy!offset(q) <= Len(src))
    BY ShareBounds DEF CopyInv
  <2>3. CopyTyped'
    BY <2>1, <2>2 DEF CopyInv, CopyTyped, Copy!ToInt
  <2>4. /\ pc'[q] = "read" /\ pos'[q] = Copy!offset(q)
        /\ \A other \in Copiers \ {q} : pc'[other] = pc[other] /\ pos'[other] = pos[other]
    BY <2>1 DEF CopyInv, CopyTyped, Copy!ToInt
  <2>5. sum[q] = 0 /\ failures[q] = 0
    BY <2>1 DEF CopyInv, CopyPlaces, Place
  <2>6. Place(q)'
    BY <2>1, <2>2, <2>4, <2>5, CopyKept DEF Place, AtOffset
  <2>7. \A other \in Copiers \ {q} : Place(other)'
    BY <2>1, <2>4, PlaceStays DEF CopyInv, CopyPlaces
  <2>8. CopyPlaces'
    BY <2>1, <2>4, <2>6, <2>7 DEF CopyInv, CopyPlaces, Copiers, Copy!Processes
  <2>9. Whole(q, pos[q])'
    BY <2>1, <2>2, <2>4, CopyKept DEF Whole
  <2>10. CopiedSoFar'
    BY <2>1, <2>4, <2>9, CopyKept DEF CopyInv, CopiedSoFar
  <2> QED
    BY <2>1, <2>3, <2>8, <2>10, CopyKept DEF CopyInv
<1>5. ASSUME NEW q \in Copiers, Copy!OpenFails(q) PROVE CopyInv'
  <2>1. /\ pc[q] = "open" /\ pc' = [pc EXCEPT ![q] = Copy!Returns(q)]
        /\ failed' = failed \cup {q}
        /\ UNCHANGED <<regular, length, src, dest, pos, copied, sum, failures>>
    BY <1>5 DEF Copy!OpenFails, Copy!Goes
  <2>2. CopyTyped'
    BY <2>1 DEF CopyInv, CopyTyped, Copy!ToInt, Copy!Returns
  <2>3. /\ pc'[q] = IF q = "parent" THEN "wait" ELSE "exited"
        /\ \A other \in Copiers \ {q} : pc'[other] = pc[other]
    BY <2>1 DEF CopyInv, CopyTyped, Copy!Returns
  <2>4. Place(q)'
    BY <2>3 DEF Place
  <2>5. \A other \in Copiers \ {q} : Place(other)'
    BY <2>1, <2>3, PlaceStays DEF CopyInv, CopyPlaces
  <2>6. CopyPlaces'
    BY <2>1, <2>3, <2>4, <2>5 DEF CopyInv, CopyTyped, CopyPlaces, Copiers, Copy!Processes
  <2>7. CopiedSoFar'
    BY <2>1, <2>3, CopyKept DEF CopyInv, CopiedSoFar
  <2> QED
    BY <2>1, <2>2, <2>6, <2>7, CopyKept DEF CopyInv
<1>6. CASE UNCHANGED copyVars
  <2>1. UNCHANGED <<regular, length, src, dest, pc, pos, copied, sum, failures, failed>>
    BY <1>6 DEF copyVars
  <2>2. CopyTyped' /\ CopyPlaces'
    BY <2>1, PlaceStays DEF CopyInv, CopyTyped, CopyPlaces
  <2>3. CopiedSoFar'
    BY <2>1, CopyKept DEF CopyInv, CopiedSoFar
  <2> QED
    BY <2>1, <2>2, <2>3, CopyKept DEF CopyInv
<1> QED
  BY <1>1, <1>2, <1>3, <1>4, <1>5, <1>6, CopyReads, CopyReadFails, CopyWrites
     DEF Copy!Next, Copy!Step, Copy!Exited, Copy!vars, copyVars, Copiers

-------------------------------------------------------------------------------
(* The FIFOs.                                                                 *)

(* What is typed fits into one read. *)
LEMMA FifoTextsFit ==
  /\ ReadBuffer \in Nat /\ Fifo!quit \in FifoTexts
  /\ \A text1 \in FifoTexts : text1 \in Seq(STRING) /\ Len(text1) <= ReadBuffer
BY ForkAndIpcAssumption DEF Fifo!FifoAssumption

(* A line is written. *)
LEMMA FifoWrites ==
  ASSUME FifoInv, NEW k \in Fifo!Fifos, Fifo!WriteLine(k)
  PROVE  FifoInv'
<1>1. PICK line \in FifoTexts :
        /\ pipe' = [pipe EXCEPT ![k] = @ \o line]
        /\ w' = [w EXCEPT ![k] = IF line = Fifo!quit THEN "left" ELSE "prompt"]
        /\ quitted' = IF line = Fifo!quit THEN quitted \cup {k} ELSE quitted
  BY DEF Fifo!WriteLine
<1>2. /\ r[k] \in {"open", "read"} /\ UNCHANGED r
      /\ merged' = IF pipe[k] # <<>> THEN merged \cup {k} ELSE merged
  BY DEF Fifo!WriteLine
<1>3. pipe[k] \in Seq(STRING) /\ line \in Seq(STRING) /\ pipe[k] \o line \in Seq(STRING)
  BY FifoTextsFit, ConcatProperties DEF FifoInv
<1>4. /\ pipe'[k] = pipe[k] \o line
      /\ \A other \in Fifo!Fifos \ {k} : pipe'[other] = pipe[other]
      /\ pipe' \in [Fifo!Fifos -> Seq(STRING)]
  BY <1>1, <1>3 DEF FifoInv
<1>5. k \notin merged' => pipe[k] = <<>> /\ pipe'[k] = line
  BY <1>2, <1>3, <1>4, ConcatEmptySeq
<1>6. ASSUME NEW f \in Fifo!Fifos \ merged'
      PROVE  /\ pipe'[f] \in FifoTexts \cup {<<>>}
             /\ pipe'[f] = Fifo!quit => f \in quitted'
             /\ r'[f] \in {"left", "done"} => f \in quitted' /\ pipe'[f] = <<>>
  <2>1. CASE f = k
    BY <1>1, <1>2, <1>5, <1>6, <2>1
  <2>2. CASE f # k
    BY <1>1, <1>2, <1>4, <1>6, <2>2 DEF FifoInv
  <2> QED
    BY <2>1, <2>2
<1> QED
  BY <1>1, <1>2, <1>4, <1>6 DEF FifoInv

(* A read takes what is in the FIFO, which is one line unless they ran together. *)
LEMMA FifoReads ==
  ASSUME FifoInv, NEW k \in Fifo!Fifos, Fifo!ReadText(k)
  PROVE  FifoInv'
<1> DEFINE size == IF Len(pipe[k]) < ReadBuffer THEN Len(pipe[k]) ELSE ReadBuffer
           rbuf == SubSeq(pipe[k], 1, size)
           rest == SubSeq(pipe[k], size + 1, Len(pipe[k]))
<1>1. /\ r[k] = "read" /\ UNCHANGED <<w, quitted, merged>>
      /\ pipe' = [pipe EXCEPT ![k] = rest]
      /\ r' = [r EXCEPT ![k] = IF rbuf = Fifo!quit THEN "left" ELSE "read"]
  BY DEF Fifo!ReadText
<1>2. pipe[k] \in Seq(STRING) /\ Len(pipe[k]) \in Nat /\ ReadBuffer \in Nat /\ size \in Nat
  BY FifoTextsFit, LenProperties DEF FifoInv
<1>3. rest \in Seq(STRING)
  <2>1. \A n \in (size + 1)..Len(pipe[k]) : pipe[k][n] \in STRING
    BY <1>2, ElementOfSeq
  <2>2. size + 1 \in Int /\ Len(pipe[k]) \in Int
    BY <1>2
  <2> HIDE DEF size
  <2> QED
    BY <2>1, <2>2, SubSeqProperties
<1>4. k \notin merged => rbuf = pipe[k] /\ rest = <<>>
  <2> HAVE k \notin merged
  <2>1. pipe[k] \in FifoTexts \cup {<<>>}
    BY DEF FifoInv
  <2>2. Len(pipe[k]) <= ReadBuffer
    BY <1>2, <2>1, FifoTextsFit, EmptySeq
  <2>3. size = Len(pipe[k])
    BY <1>2, <2>2
  <2>4. rbuf = pipe[k]
    BY <1>2, <2>3, SubSeqFull
  <2>5. rest = <<>>
    <3>1. size + 1 \in Int /\ Len(pipe[k]) \in Int /\ Len(pipe[k]) < size + 1
      BY <1>2, <2>3
    <3> HIDE DEF size
    <3> QED
      BY <3>1, SubSeqEmpty
  <2> QED
    BY <2>4, <2>5
<1> HIDE DEF rest, rbuf
<1>5. /\ pipe'[k] = rest /\ r'[k] = IF rbuf = Fifo!quit THEN "left" ELSE "read"
      /\ \A other \in Fifo!Fifos \ {k} : pipe'[other] = pipe[other] /\ r'[other] = r[other]
      /\ pipe' \in [Fifo!Fifos -> Seq(STRING)] /\ r' \in [Fifo!Fifos -> ReaderPlaces]
  BY <1>1, <1>3 DEF FifoInv, ReaderPlaces
<1>6. ASSUME NEW f \in Fifo!Fifos \ merged'
      PROVE  /\ pipe'[f] \in FifoTexts \cup {<<>>}
             /\ pipe'[f] = Fifo!quit => f \in quitted'
             /\ r'[f] \in {"left", "done"} => f \in quitted' /\ pipe'[f] = <<>>
  <2>1. CASE f = k
    <3>1. Fifo!quit # <<>>
      BY DEF Fifo!quit
    <3> QED
      BY <1>1, <1>4, <1>5, <1>6, <2>1, <3>1 DEF FifoInv
  <2>2. CASE f # k
    BY <1>1, <1>5, <1>6, <2>2 DEF FifoInv
  <2> QED
    BY <2>1, <2>2
<1> QED
  BY <1>1, <1>5, <1>6 DEF FifoInv

(* No step of the chat breaks its invariant. *)
LEMMA FifoStep ==
  ASSUME FifoInv, Fifo!Next \/ UNCHANGED fifoVars
  PROVE  FifoInv'
<1>1. CASE Fifo!StartSend
  BY <1>1 DEF Fifo!StartSend, FifoInv, ReaderPlaces, Fifo!Fifos
<1>2. CASE Fifo!StartRecv
  BY <1>2 DEF Fifo!StartRecv, FifoInv, ReaderPlaces, Fifo!Fifos
<1>3. CASE Fifo!WaitForChild
  BY <1>3 DEF Fifo!WaitForChild, FifoInv, ReaderPlaces, Fifo!Fifos
<1>4. ASSUME NEW k \in Fifo!Fifos, Fifo!OpenWrite(k) PROVE FifoInv'
  BY <1>4 DEF Fifo!OpenWrite, FifoInv, ReaderPlaces
<1>5. ASSUME NEW k \in Fifo!Fifos, Fifo!OpenRead(k) PROVE FifoInv'
  BY <1>5 DEF Fifo!OpenRead, FifoInv, ReaderPlaces
<1>6. ASSUME NEW k \in Fifo!Fifos, Fifo!WriteIsBroken(k) PROVE FifoInv'
  BY <1>6 DEF Fifo!WriteIsBroken, FifoInv, ReaderPlaces
<1>7. ASSUME NEW k \in Fifo!Fifos, Fifo!Killed(k) PROVE FifoInv'
  BY <1>7 DEF Fifo!Killed, FifoInv, ReaderPlaces
<1>8. CASE UNCHANGED fifoVars
  BY <1>8 DEF fifoVars, FifoInv, ReaderPlaces
<1> QED
  BY <1>1, <1>2, <1>3, <1>4, <1>5, <1>6, <1>7, <1>8, FifoWrites, FifoReads
     DEF Fifo!Next, Fifo!ProgramStep

-------------------------------------------------------------------------------
(* The message queue.                                                         *)

(* One element less, the others in their order. *)
LEMMA RemoveAtIs ==
  ASSUME NEW S, NEW s \in Seq(S), NEW i \in 1..Len(s)
  PROVE  LET t == Queue!RemoveAt(s, i) IN
         /\ t \in Seq(S) /\ Len(t) = Len(s) - 1
         /\ \A k \in 1..Len(t) : t[k] = s[IF k < i THEN k ELSE k + 1]
<1> DEFINE front == SubSeq(s, 1, i - 1)
           back  == SubSeq(s, i + 1, Len(s))
           t     == front \o back
<1>1. Len(s) \in Nat /\ i \in Nat /\ i - 1 \in Nat /\ Len(s) - i \in Nat
  BY LenProperties
<1>2. front \in Seq(S) /\ Len(front) = i - 1 /\ \A k \in 1..(i - 1) : front[k] = s[k]
  <2> DEFINE a == 0
             n == i - 1
  <2>1. a \in Nat /\ n \in Nat /\ a + n <= Len(s) /\ a + 1 = 1 /\ a + n = i - 1
    BY <1>1
  <2>2. /\ SubSeq(s, a + 1, a + n) \in Seq(S) /\ Len(SubSeq(s, a + 1, a + n)) = n
        /\ \A k \in 1..n : SubSeq(s, a + 1, a + n)[k] = s[a + k]
    <3> HIDE DEF a, n
    <3> QED
      BY <2>1, PartOfSeq, ZenonT(30)
  <2> QED
    BY <2>1, <2>2
<1>3. back \in Seq(S) /\ Len(back) = Len(s) - i /\ \A k \in 1..(Len(s) - i) : back[k] = s[i + k]
  <2> DEFINE n == Len(s) - i
  <2>1. n \in Nat /\ i + n <= Len(s) /\ i + n = Len(s)
    BY <1>1
  <2>2. /\ SubSeq(s, i + 1, i + n) \in Seq(S) /\ Len(SubSeq(s, i + 1, i + n)) = n
        /\ \A k \in 1..n : SubSeq(s, i + 1, i + n)[k] = s[i + k]
    <3>1. i \in Nat /\ n \in Nat /\ i + n <= Len(s)
      BY <1>1, <2>1
    <3> HIDE DEF n
    <3> QED
      BY <3>1, PartOfSeq, Zenon
  <2> QED
    BY <2>1, <2>2, Zenon
<1> HIDE DEF front, back
<1>4. /\ t \in Seq(S) /\ Len(t) = Len(front) + Len(back)
      /\ \A k \in 1..(Len(front) + Len(back)) :
           t[k] = IF k <= Len(front) THEN front[k] ELSE back[k - Len(front)]
  BY <1>2, <1>3, ConcatProperties, Zenon
<1> HIDE DEF t
<1>5. Len(t) = Len(s) - 1
  BY <1>1, <1>2, <1>3, <1>4
<1>6. ASSUME NEW k \in 1..Len(t) PROVE t[k] = s[IF k < i THEN k ELSE k + 1]
  <2>1. k \in 1..(Len(front) + Len(back)) /\ k \in Nat
    BY <1>4
  <2>2. CASE k < i
    <3>1. k <= Len(front) /\ k \in 1..(i - 1)
      BY <1>1, <1>2, <2>1, <2>2
    <3> QED
      BY <1>2, <1>4, <2>1, <2>2, <3>1
  <2>3. CASE ~(k < i)
    <3>1. ~(k <= Len(front)) /\ k - Len(front) = k - (i - 1) /\ k - (i - 1) \in 1..(Len(s) - i)
          /\ i + (k - (i - 1)) = k + 1
      BY <1>1, <1>2, <1>3, <2>1, <2>3
    <3>2. t[k] = back[k - (i - 1)]
      BY <1>4, <2>1, <3>1
    <3>3. back[k - (i - 1)] = s[i + (k - (i - 1))]
      BY <1>3, <3>1
    <3> QED
      BY <2>3, <3>1, <3>2, <3>3
  <2> QED
    BY <2>2, <2>3
<1>7. Queue!RemoveAt(s, i) = t
  BY DEF Queue!RemoveAt, t, front, back
<1> QED
  BY <1>4, <1>5, <1>6, <1>7

(* The elements of the queue are messages. *)
LEMMA MessagesTyped ==
  ASSUME QueueTyped
  PROVE  /\ Len(msgs) \in Nat /\ DOMAIN msgs = 1..Len(msgs)
         /\ \A i \in DOMAIN msgs : msgs[i] \in Messages /\ msgs[i].run \in Nat
<1>1. Len(msgs) \in Nat /\ DOMAIN msgs = 1..Len(msgs) /\ \A i \in 1..Len(msgs) : msgs[i] \in Messages
  BY LenProperties, ElementOfSeq DEF QueueTyped
<1> QED
  BY <1>1 DEF Messages

(* When the queue loses messages, or none, and sender and runs stay.         *)
LEMMA QueueStays ==
  ASSUME QueueInv, UNCHANGED msgs, run' = run,
         Sending' => Sending,
         sender' = "msgsnd" => buf'.run = run,
         \A p \in Receivers : receiver'[p] = "msgctl" /\ p \in got' =>
           receiver[p] = "msgctl" /\ p \in got /\ quitRun'[p] = quitRun[p]
  PROVE  RunsInOrder' /\ Queue!LeavesOnlyOnQuit'
<1>1. RunsInOrder'
  BY DEF QueueInv, RunsInOrder, Ended, Sending
<1>2. Queue!LeavesOnlyOnQuit'
  BY DEF QueueInv, Queue!LeavesOnlyOnQuit, Queue!OfType1
<1> QED
  BY <1>1, <1>2

(* The sender puts its message at the end. *)
LEMMA QueueSends ==
  ASSUME QueueInv, Queue!Msgsnd
  PROVE  QueueInv'
<1>1. /\ sender = "msgsnd" /\ sender' = IF buf.text = "quit" THEN "off" ELSE "prompt"
      /\ buf' = Queue!NoMessage
      /\ UNCHANGED <<got, run, left, receiver, quitRun>>
      /\ UNCHANGED msgs \/ msgs' = Append(msgs, buf)
  BY DEF Queue!Msgsnd
<1>2. QueueTyped'
  <2>1. msgs' \in Seq(Messages)
    BY <1>1, AppendProperties DEF QueueInv, QueueTyped
  <2> QED
    BY <1>1, <2>1 DEF QueueInv, QueueTyped, Queue!NoMessage, Messages, Queue!Texts
<1>3. CASE UNCHANGED msgs
  BY <1>1, <1>2, <1>3, QueueStays DEF QueueInv, Sending
<1>4. CASE msgs' = Append(msgs, buf)
  <2>1. /\ Len(msgs) \in Nat /\ DOMAIN msgs = 1..Len(msgs) /\ DOMAIN msgs' = 1..(Len(msgs) + 1)
        /\ \A i \in 1..Len(msgs) : msgs'[i] = msgs[i]
        /\ msgs'[Len(msgs) + 1] = buf
    <3>1. msgs \in Seq(Messages) /\ buf \in Messages
      BY DEF QueueInv, QueueTyped
    <3>2. msgs' \in Seq(Messages) /\ Len(msgs') = Len(msgs) + 1
      BY <1>4, <3>1, AppendProperties
    <3>3. DOMAIN msgs' = 1..Len(msgs')
      BY <3>2, LenProperties
    <3> QED
      BY <1>4, <3>1, <3>2, <3>3, AppendProperties, LenProperties
  <2>2. Sending /\ buf.run = run /\ run \in Nat
    BY <1>1 DEF QueueInv, QueueTyped, RunsInOrder, Sending
  <2>3. \A i \in 1..Len(msgs) :
          /\ msgs[i].run \in Nat /\ msgs[i].run <= run
          /\ msgs[i].text = "quit" => msgs[i].run < run
    BY <2>1, <2>2, MessagesTyped DEF QueueInv, RunsInOrder, Ended
  <2>4. ASSUME NEW i \in DOMAIN msgs'
        PROVE  /\ msgs'[i].run <= run /\ msgs'[i].run \in Nat
               /\ msgs'[i].text = "quit" => Ended(msgs[i].run)'
               /\ \A j \in DOMAIN msgs' : i < j /\ msgs'[i].text = "quit" => msgs'[i].run < msgs'[j].run
    <3>1. CASE i = Len(msgs) + 1
      BY <1>1, <2>1, <2>2, <3>1 DEF Ended, Sending
    <3>2. CASE i \in 1..Len(msgs)
      <4>1. msgs'[i] = msgs[i] /\ msgs[i].run <= run /\ msgs[i].run \in Nat
        BY <2>1, <2>3, <3>2
      <4>2. msgs[i].text = "quit" => msgs[i].run < run
        BY <2>3, <3>2
      <4>3. ASSUME NEW j \in DOMAIN msgs', i < j, msgs[i].text = "quit"
            PROVE  msgs[i].run < msgs'[j].run
        <5>1. CASE j = Len(msgs) + 1
          BY <2>1, <2>2, <4>2, <4>3, <5>1
        <5>2. CASE j \in 1..Len(msgs)
          BY <2>1, <3>2, <4>3, <5>2 DEF QueueInv, RunsInOrder
        <5> QED
          BY <2>1, <5>1, <5>2
      <4> QED
        BY <1>1, <4>1, <4>2, <4>3 DEF Ended
    <3> QED
      BY <2>1, <3>1, <3>2
  <2>5. \A p \in Receivers : receiver[p] = "msgctl" /\ p \in got => quitRun[p] < run /\ Ended(quitRun[p])'
    BY <1>1, <2>2 DEF QueueInv, QueueTyped, RunsInOrder, Ended
  <2>6. RunsInOrder'
    BY <1>1, <2>4, <2>5 DEF RunsInOrder
  <2>7. Queue!LeavesOnlyOnQuit'
    BY <1>1, <2>1, <2>2, <2>5 DEF QueueInv, Queue!LeavesOnlyOnQuit, Queue!OfType1
  <2> QED
    BY <1>2, <2>6, <2>7 DEF QueueInv
<1> QED
  BY <1>1, <1>3, <1>4

(* A receiver takes the first message of type 1. *)
LEMMA QueueReceives ==
  ASSUME QueueInv, NEW p \in Receivers, Queue!Msgrcv(p)
  PROVE  QueueInv'
<1>1. PICK i \in Queue!Wanted :
        /\ msgs' = Queue!RemoveAt(msgs, i)
        /\ receiver' = [receiver EXCEPT ![p] = IF msgs[i].text = "quit" THEN "msgctl" ELSE "msgrcv"]
        /\ quitRun' = [quitRun EXCEPT ![p] = IF msgs[i].text = "quit" THEN msgs[i].run ELSE 0]
  BY DEF Queue!Msgrcv
<1>2. UNCHANGED <<got, sender, run, buf, left>>
  BY DEF Queue!Msgrcv
<1>3. i \in 1..Len(msgs) /\ Len(msgs) \in Nat /\ DOMAIN msgs = 1..Len(msgs)
  BY <1>1, MessagesTyped DEF QueueInv, Queue!Wanted
<1>4. \A j \in 1..(i - 1) : msgs[j].mtype # 1
  BY <1>1 DEF Queue!Wanted, Queue!OfType1
<1> DEFINE was(k) == IF k < i THEN k ELSE k + 1
<1>5. /\ msgs' \in Seq(Messages) /\ DOMAIN msgs' = 1..(Len(msgs) - 1)
      /\ \A k \in 1..(Len(msgs) - 1) : msgs'[k] = msgs[was(k)]
  <2> DEFINE t == Queue!RemoveAt(msgs, i)
  <2>1. msgs \in Seq(Messages)
    BY DEF QueueInv, QueueTyped
  <2>2. /\ t \in Seq(Messages) /\ Len(t) = Len(msgs) - 1
        /\ \A k \in 1..Len(t) : t[k] = msgs[IF k < i THEN k ELSE k + 1]
    BY <1>3, <2>1, RemoveAtIs, Zenon
  <2> HIDE DEF t
  <2>3. DOMAIN t = 1..Len(t)
    BY <2>2, LenProperties
  <2>4. msgs' = t
    BY <1>1 DEF t
  <2> QED
    BY <2>2, <2>3, <2>4
<1>6. ASSUME NEW k \in DOMAIN msgs'
      PROVE  /\ was(k) \in DOMAIN msgs /\ msgs'[k] = msgs[was(k)]
             /\ \A j \in DOMAIN msgs' : k < j => was(k) < was(j)
  BY <1>3, <1>5
<1> HIDE DEF was
<1>7. /\ receiver'[p] = "msgctl" => msgs[i].text = "quit" /\ quitRun'[p] = msgs[i].run
      /\ \A other \in Receivers \ {p} :
           receiver'[other] = receiver[other] /\ quitRun'[other] = quitRun[other]
  BY <1>1 DEF QueueInv, QueueTyped
<1>8. QueueTyped'
  <2>1. msgs[i].run \in Nat
    BY <1>3, MessagesTyped DEF QueueInv
  <2> QED
    BY <1>1, <1>2, <1>5, <2>1 DEF QueueInv, QueueTyped
<1>9. \A of : Ended(of)' <=> Ended(of)
  BY <1>2 DEF Ended, Sending
<1>10. RunsInOrder'
  <2>1. sender' = "msgsnd" => buf'.run = run'
    BY <1>2 DEF QueueInv, RunsInOrder
  <2>2. ASSUME NEW k \in DOMAIN msgs'
        PROVE  /\ msgs'[k].run <= run'
               /\ msgs'[k].text = "quit" => Ended(msgs[k].run)'
               /\ \A j \in DOMAIN msgs' : k < j /\ msgs'[k].text = "quit" => msgs'[k].run < msgs'[j].run
    <3>1. was(k) \in DOMAIN msgs /\ msgs'[k] = msgs[was(k)]
      BY <1>6
    <3>2. msgs[was(k)].run <= run /\ (msgs[was(k)].text = "quit" => Ended(msgs[was(k)].run))
      BY <3>1 DEF QueueInv, RunsInOrder
    <3>3. ASSUME NEW j \in DOMAIN msgs', k < j, msgs'[k].text = "quit"
          PROVE  msgs'[k].run < msgs'[j].run
      <4>1. was(j) \in DOMAIN msgs /\ msgs'[j] = msgs[was(j)] /\ was(k) < was(j)
        BY <1>6, <3>3
      <4> QED
        BY <3>1, <3>3, <4>1 DEF QueueInv, RunsInOrder
    <3>4. msgs'[k].text = "quit" => Ended(msgs[k].run)'
      BY <1>2, <3>1, <3>2 DEF Ended, Sending
    <3> QED
      BY <1>2, <3>1, <3>2, <3>3, <3>4
  <2>3. ASSUME NEW other \in Receivers, receiver'[other] = "msgctl", other \in got'
        PROVE  Ended(quitRun[other])'
    <3>1. Ended(quitRun'[other])
      BY <1>2, <1>3, <1>7, <2>3 DEF QueueInv, RunsInOrder
    <3> QED
      BY <1>2, <3>1 DEF Ended, Sending
  <2> QED
    BY <2>1, <2>2, <2>3 DEF RunsInOrder
<1>11. Queue!LeavesOnlyOnQuit'
  <2> SUFFICES ASSUME NEW other \in Receivers, receiver'[other] = "msgctl", other \in got',
                      NEW k \in DOMAIN msgs', msgs'[k].mtype = 1
               PROVE  msgs'[k].run > quitRun'[other]
    BY DEF Queue!LeavesOnlyOnQuit, Queue!OfType1
  <2>1. was(k) \in DOMAIN msgs /\ msgs'[k] = msgs[was(k)] /\ msgs[was(k)].mtype = 1
    BY <1>6
  <2>2. CASE other = p
    <3>1. was(k) # i /\ was(k) \in Nat /\ i \in Nat
      BY <1>3, <1>5, <2>1 DEF was
    <3>2. ~(was(k) < i)
      BY <1>3, <1>4, <2>1, <3>1
    <3>3. i < was(k)
      BY <3>1, <3>2
    <3>4. msgs[i].text = "quit" /\ quitRun'[p] = msgs[i].run
      BY <1>7, <2>2
    <3>5. msgs[i].run < msgs[was(k)].run /\ msgs[i].run \in Nat /\ msgs[was(k)].run \in Nat
      BY <1>3, <2>1, <3>3, <3>4, MessagesTyped DEF QueueInv, RunsInOrder
    <3> QED
      BY <2>1, <2>2, <3>4, <3>5
  <2>3. CASE other # p
    BY <1>2, <1>7, <2>1, <2>3 DEF QueueInv, Queue!LeavesOnlyOnQuit, Queue!OfType1
  <2> QED
    BY <2>2, <2>3
<1> QED
  BY <1>8, <1>10, <1>11 DEF QueueInv

(* No step of the message queue breaks its invariant. *)
LEMMA QueueStep ==
  ASSUME QueueInv, Queue!Next \/ UNCHANGED queueVars
  PROVE  QueueInv'
<1>1. CASE Queue!StartSender
  <2>1. /\ sender = "off" /\ sender' = "prompt" /\ run' = run + 1 /\ run \in Nat
        /\ got' = got \cup {"sender"}
        /\ UNCHANGED <<msgs, buf, left, receiver, quitRun>>
    BY <1>1 DEF Queue!StartSender, Queue!Msgget, QueueInv, QueueTyped
  <2>2. QueueTyped'
    BY <2>1 DEF QueueInv, QueueTyped
  <2>3. "sender" \notin Receivers
    BY ForkAndIpcAssumption DEF Queue!QueueAssumption
  <2>4. ASSUME NEW i \in DOMAIN msgs PROVE msgs[i].run <= run' /\ Ended(msgs[i].run)'
    <3>1. msgs[i].run \in Nat /\ msgs[i].run <= run
      BY <2>4, MessagesTyped DEF QueueInv, RunsInOrder
    <3> QED
      BY <2>1, <3>1 DEF Ended
  <2>5. ASSUME NEW p \in Receivers, receiver[p] = "msgctl", p \in got PROVE Ended(quitRun[p])'
    <3>1. quitRun[p] \in Nat /\ quitRun[p] <= run
      BY <2>1, <2>5 DEF QueueInv, QueueTyped, RunsInOrder, Ended
    <3> QED
      BY <2>1, <3>1 DEF Ended
  <2>6. RunsInOrder'
    BY <2>1, <2>3, <2>4, <2>5 DEF QueueInv, RunsInOrder
  <2>7. Queue!LeavesOnlyOnQuit'
    BY <2>1, <2>3 DEF QueueInv, Queue!LeavesOnlyOnQuit, Queue!OfType1
  <2> QED
    BY <2>2, <2>6, <2>7 DEF QueueInv
<1>2. CASE Queue!TypeMessage
  <2>1. PICK type \in Types, line \in Queue!Texts : buf' = [mtype |-> type, text |-> line, run |-> run]
    BY <1>2 DEF Queue!TypeMessage
  <2>2. sender = "prompt" /\ UNCHANGED <<msgs, got, run, receiver, quitRun>>
    BY <1>2 DEF Queue!TypeMessage
  <2>3. QueueTyped'
    BY <2>1, <2>2 DEF QueueInv, QueueTyped, Messages
  <2> QED
    BY <2>1, <2>2, <2>3, QueueStays DEF QueueInv, Sending
<1>3. CASE Queue!SenderDies
  <2>1. QueueTyped'
    BY <1>3 DEF Queue!SenderDies, QueueInv, QueueTyped, Queue!NoMessage, Messages, Queue!Texts
  <2>2. sender' = "off" /\ UNCHANGED <<msgs, got, run, left, receiver, quitRun>>
    BY <1>3 DEF Queue!SenderDies
  <2> QED
    BY <2>1, <2>2, QueueStays DEF QueueInv, Sending
<1>4. ASSUME NEW p \in Receivers, Queue!StartReceiver(p) PROVE QueueInv'
  <2>1. /\ got' = got \cup {p} /\ receiver' = [receiver EXCEPT ![p] = "msgrcv"]
        /\ UNCHANGED <<msgs, sender, run, buf, left, quitRun>>
    BY <1>4 DEF Queue!StartReceiver, Queue!Msgget
  <2>2. QueueTyped'
    BY <2>1 DEF QueueInv, QueueTyped
  <2>3. /\ receiver'[p] = "msgrcv"
        /\ \A other \in Receivers \ {p} : receiver'[other] = receiver[other] /\ (other \in got' => other \in got)
    BY <2>1 DEF QueueInv, QueueTyped
  <2>4. sender' = "msgsnd" => buf'.run = run
    BY <2>1 DEF QueueInv, RunsInOrder
  <2> QED
    BY <2>1, <2>2, <2>3, <2>4, QueueStays DEF QueueInv, Sending
<1>5. ASSUME NEW p \in Receivers, Queue!RemoveQueue(p) \/ Queue!ReceiverDies(p) PROVE QueueInv'
  <2>1. /\ receiver' = [receiver EXCEPT ![p] = "ended"]
        /\ UNCHANGED <<sender, run, buf, left, quitRun>>
        /\ UNCHANGED <<msgs, got>> \/ (msgs' = <<>> /\ got' = {})
    BY <1>5 DEF Queue!RemoveQueue, Queue!ReceiverDies
  <2>2. QueueTyped'
    <3>1. msgs' \in Seq(Messages)
      BY <2>1, EmptySeq DEF QueueInv, QueueTyped
    <3> QED
      BY <2>1, <3>1 DEF QueueInv, QueueTyped
  <2>3. /\ receiver'[p] = "ended"
        /\ \A other \in Receivers \ {p} : receiver'[other] = receiver[other]
    BY <2>1 DEF QueueInv, QueueTyped
  <2>4. sender' = "msgsnd" => buf'.run = run
    BY <2>1 DEF QueueInv, RunsInOrder
  <2>5. CASE UNCHANGED <<msgs, got>>
    BY <2>1, <2>2, <2>3, <2>4, <2>5, QueueStays DEF QueueInv, Sending
  <2>6. CASE msgs' = <<>> /\ got' = {}
    <3>1. RunsInOrder'
      BY <2>1, <2>4, <2>6 DEF RunsInOrder
    <3>2. Queue!LeavesOnlyOnQuit'
      BY <2>6 DEF Queue!LeavesOnlyOnQuit
    <3> QED
      BY <2>2, <3>1, <3>2 DEF QueueInv
  <2> QED
    BY <2>1, <2>5, <2>6
<1>6. CASE UNCHANGED queueVars
  <2>1. UNCHANGED <<msgs, got, sender, run, buf, left, receiver, quitRun>>
    BY <1>6 DEF queueVars
  <2>2. QueueTyped'
    BY <2>1 DEF QueueInv, QueueTyped
  <2>3. sender' = "msgsnd" => buf'.run = run
    BY <2>1 DEF QueueInv, RunsInOrder
  <2> QED
    BY <2>1, <2>2, <2>3, QueueStays DEF QueueInv, Sending
<1> QED
  BY <1>1, <1>2, <1>3, <1>4, <1>5, <1>6, QueueSends, QueueReceives DEF Queue!Next

-------------------------------------------------------------------------------
(* The shared memory.                                                         *)

(* A sequence with two more elements. *)
LEMMA WithTwo ==
  ASSUME NEW S, NEW s \in Seq(S), NEW a \in S, NEW b \in S,
         NEW whole, whole = s \o <<a, b>>
  PROVE  /\ Len(s) \in Nat /\ Len(whole) = Len(s) + 2
         /\ \A k \in 1..Len(s) : whole[k] = s[k]
         /\ whole[Len(s) + 1] = a /\ whole[Len(s) + 2] = b
         /\ SubSeq(whole, 1, Len(whole) - 2) = s
<1> DEFINE tail == <<a, b>>
           n == Len(s)
<1>1. tail \in Seq(S) /\ Len(tail) = 2 /\ tail[1] = a /\ tail[2] = b
  OBVIOUS
<1>2. n \in Nat
  BY LenProperties
<1>3. whole = s \o tail
  OBVIOUS
<1> HIDE DEF tail, n
<1>4. /\ whole \in Seq(S) /\ Len(whole) = n + Len(tail)
      /\ \A k \in 1..(n + Len(tail)) : whole[k] = IF k <= n THEN s[k] ELSE tail[k - n]
  <2>1. /\ s \o tail \in Seq(S) /\ Len(s \o tail) = Len(s) + Len(tail)
        /\ \A k \in 1..(Len(s) + Len(tail)) :
             (s \o tail)[k] = IF k <= Len(s) THEN s[k] ELSE tail[k - Len(s)]
    BY <1>1, ConcatProperties, Zenon
  <2> QED
    BY <1>3, <2>1, Zenon DEF n
<1>5. \A k \in 1..n : k \in 1..(n + 2) /\ k <= n
  BY <1>2
<1>6. \A k \in 1..n : whole[k] = s[k]
  BY <1>1, <1>4, <1>5
<1>7. /\ n + 1 \in 1..(n + 2) /\ ~(n + 1 <= n) /\ (n + 1) - n = 1
      /\ n + 2 \in 1..(n + 2) /\ ~(n + 2 <= n) /\ (n + 2) - n = 2
      /\ (n + 2) - 2 = n
  BY <1>2
<1>8. /\ whole[n + 1] = tail[(n + 1) - n] /\ whole[n + 2] = tail[(n + 2) - n]
  BY <1>1, <1>4, <1>7
<1>9. whole[n + 1] = a /\ whole[n + 2] = b /\ Len(whole) = n + 2
  BY <1>1, <1>4, <1>7, <1>8
<1>10. /\ SubSeq(whole, 1, n) \in Seq(S) /\ Len(SubSeq(whole, 1, n)) = n
       /\ \A k \in 1..n : SubSeq(whole, 1, n)[k] = whole[k]
  <2>1. n \in Nat /\ n <= Len(whole) /\ whole \in Seq(S)
    BY <1>1, <1>2, <1>4
  <2> QED
    BY <2>1
<1>11. SubSeq(whole, 1, n) = s
  BY <1>6, <1>10, SeqEqual DEF n
<1>12. SubSeq(whole, 1, Len(whole) - 2) = s
  BY <1>7, <1>9, <1>11
<1> QED
  BY <1>2, <1>6, <1>9, <1>12 DEF n

(* A line that is stored has at most two cells, newline and terminator.      *)
LEMMA TextIs ==
  ASSUME NEW line \in CellTexts
  PROVE  LET whole == line \o <<"newline", Memory!End>> IN
         /\ Len(line) \in 0..2 /\ Len(whole) = Len(line) + 2
         /\ \A k \in 1..Len(line) : whole[k] = line[k] /\ line[k] # Memory!End
         /\ whole[Len(line) + 1] = "newline" /\ whole[Len(line) + 2] = Memory!End
         /\ SubSeq(whole, 1, Len(whole) - 2) = line
<1> DEFINE S == STRING \cup {"newline", Memory!End}
           whole == line \o <<"newline", Memory!End>>
<1>1. /\ line \in Seq(STRING) /\ Len(line) <= 2
      /\ \A k \in DOMAIN line : line[k] # Memory!End
  BY ForkAndIpcAssumption DEF Memory!MemoryAssumption
<1>2. STRING \subseteq S /\ "newline" \in S /\ Memory!End \in S
  OBVIOUS
<1> HIDE DEF S
<1>3. line \in Seq(S)
  BY <1>1, <1>2, SeqMonotonic, Zenon
<1>4. Len(line) \in Nat /\ DOMAIN line = 1..Len(line)
  BY <1>3, LenProperties
<1>5. /\ Len(whole) = Len(line) + 2
      /\ \A k \in 1..Len(line) : whole[k] = line[k]
      /\ whole[Len(line) + 1] = "newline" /\ whole[Len(line) + 2] = Memory!End
      /\ SubSeq(whole, 1, Len(whole) - 2) = line
  <2> DEFINE newline == "newline"
             nul == Memory!End
  <2>1. whole = line \o <<newline, nul>>
    OBVIOUS
  <2>2. newline \in S /\ nul \in S
    BY <1>2
  <2> HIDE DEF whole, newline, nul
  <2>3. /\ Len(line) \in Nat /\ Len(whole) = Len(line) + 2
        /\ \A k \in 1..Len(line) : whole[k] = line[k]
        /\ whole[Len(line) + 1] = newline /\ whole[Len(line) + 2] = nul
        /\ SubSeq(whole, 1, Len(whole) - 2) = line
    BY <1>3, <2>1, <2>2, WithTwo
  <2> QED
    BY <2>3 DEF newline, nul
<1> HIDE DEF whole
<1>6. Len(line) \in 0..2
  BY <1>1, <1>4
<1>7. \A k \in 1..Len(line) : whole[k] = line[k] /\ line[k] # Memory!End
  BY <1>1, <1>4, <1>5
<1> QED
  BY <1>5, <1>6, <1>7 DEF whole

(* What the reader looks for. *)
LEMMA Quit ==
  /\ Memory!Pattern[1] = "qu" /\ Memory!Pattern[2] = "it" /\ Memory!Pattern[3] = "nul"
  /\ Len(Memory!Pattern) = 3 /\ Memory!End = "nul"
BY DEF Memory!Pattern, Memory!quit, Memory!End

(* When the segment says quit and its last line was stored whole, it is quit. *)
LEMMA QuitStored ==
  ASSUME MemoryTyped, SegmentHolds, \A k \in 1..3 : cells[k] = Memory!Pattern[k]
  PROVE  stored \in {Memory!quit, <<>>}
<1> SUFFICES ASSUME stored # <<>> PROVE stored = Memory!quit
  OBVIOUS
<1>1. stored \in CellTexts /\ stored \in Seq(STRING)
  BY ForkAndIpcAssumption DEF MemoryTyped, Memory!MemoryAssumption
<1>2. Len(stored) \in 1..2
  BY <1>1, TextIs, EmptySeq
<1>3. /\ \A k \in 1..Len(stored) : cells[k] = stored[k]
      /\ cells[Len(stored) + 1] = Memory!End
  BY DEF SegmentHolds
<1>4. Len(stored) = 2
  <2> SUFFICES ASSUME Len(stored) = 1 PROVE FALSE
    BY <1>2
  <2> QED
    BY <1>3, Quit
<1>5. stored[1] = "qu" /\ stored[2] = "it"
  BY <1>3, <1>4, Quit
<1>6. Memory!quit \in Seq(STRING) /\ Len(Memory!quit) = 2 /\ Memory!quit[1] = "qu" /\ Memory!quit[2] = "it"
  BY ForkAndIpcAssumption DEF Memory!MemoryAssumption, Memory!quit
<1>7. \A k \in 1..Len(stored) : stored[k] = Memory!quit[k]
  BY <1>4, <1>5, <1>6
<1> QED
  BY <1>1, <1>4, <1>6, <1>7, SeqEqual

(* The writer changes a cell. *)
LEMMA StoreChanges ==
  ASSUME MemoryInv, NEW i \in 1..4, NEW x, Memory!Store(i, x)
  PROVE  /\ Cells(cells') /\ torn' \in BOOLEAN
         /\ torn' \/ UNCHANGED <<cells, torn>> \/ same = 0
         /\ torn => torn'
         /\ attached => cells'[i] = x /\ \A k \in (1..4) \ {i} : cells'[k] = cells[k]
         /\ ~attached => UNCHANGED cells
<1>1. /\ cells' = IF attached THEN [cells EXCEPT ![i] = x] ELSE cells
      /\ torn' = (torn \/ (attached /\ same > 0))
  BY DEF Memory!Store
<1>2. Cells(cells) /\ torn \in BOOLEAN /\ same \in 0..3
  BY DEF MemoryInv, MemoryTyped
<1>3. CASE attached
  <2>1. cells' = [cells EXCEPT ![i] = x]
    BY <1>1, <1>3
  <2>2. Cells(cells') /\ cells'[i] = x /\ \A k \in (1..4) \ {i} : cells'[k] = cells[k]
    <3>1. DOMAIN cells = 1..4
      BY <1>2 DEF Cells
    <3>2. cells' = [k \in 1..4 |-> IF k = i THEN x ELSE cells[k]]
      BY <2>1, <3>1, Zenon
    <3>3. \A k \in 1..4 : cells'[k] = IF k = i THEN x ELSE cells[k]
      BY <3>2
    <3>4. cells' = [k \in 1..4 |-> cells'[k]]
      BY <3>2, <3>3
    <3> QED
      BY <3>3, <3>4 DEF Cells
  <2>3. torn' \in BOOLEAN /\ (torn' \/ same = 0) /\ (torn => torn')
    <3>1. torn' = (torn \/ (attached /\ same > 0)) /\ (same > 0 \/ same = 0)
      BY <1>1, <1>2
    <3> QED
      BY <1>2, <1>3, <3>1, Zenon
  <2> QED
    BY <1>3, <2>2, <2>3
<1>4. CASE ~attached
  <2>1. UNCHANGED <<cells, torn>>
    BY <1>1, <1>2, <1>4
  <2> QED
    BY <1>2, <1>4, <2>1
<1> QED
  BY <1>3, <1>4

(* The writer stores the next cell. *)
LEMMA MemoryStores ==
  ASSUME MemoryInv, Memory!StoreCell
  PROVE  MemoryInv'
<1>1. /\ writer = "store" /\ at < Len(text) /\ at' = at + 1
      /\ Memory!Store(at + 1, text[at + 1])
      /\ UNCHANGED <<writer, attached, text, stored, leftLines, reader, same, leftOn, runs>>
  BY DEF Memory!StoreCell
<1>2. PICK line \in CellTexts : text = line \o <<"newline", Memory!End>>
  BY <1>1 DEF MemoryInv, MemoryTyped
<1>3. Len(text) \in 2..4 /\ at \in Nat /\ at + 1 \in 1..4
  <2>1. Len(line) \in 0..2 /\ Len(text) = Len(line) + 2
    BY <1>2, TextIs
  <2>2. at \in Nat /\ at < Len(text)
    BY <1>1 DEF MemoryInv, MemoryTyped
  <2> DEFINE n == Len(line)
             m == Len(text)
  <2>3. n \in 0..2 /\ m = n + 2 /\ at \in Nat /\ at < m
    BY <2>1, <2>2
  <2> HIDE DEF n, m
  <2>4. m \in 2..4 /\ at \in Nat /\ at + 1 \in 1..4
    BY <2>3
  <2> QED
    BY <2>4 DEF m
<1>4. /\ Cells(cells') /\ torn' \in BOOLEAN
      /\ torn' \/ UNCHANGED <<cells, torn>> \/ same = 0
      /\ attached => cells'[at + 1] = text[at + 1] /\ \A k \in (1..4) \ {at + 1} : cells'[k] = cells[k]
  BY <1>1, <1>3, StoreChanges
<1>5. MemoryTyped'
  <2>1. at' \in Nat /\ at' <= 4
    BY <1>1, <1>3
  <2> QED
    BY <1>1, <1>2, <1>4, <2>1 DEF MemoryInv, MemoryTyped
<1>6. SegmentHolds'
  <2>1. writer' = "store" /\ attached' => stored' = <<>>
    BY <1>1 DEF MemoryInv, SegmentHolds
  <2>2. ASSUME attached, NEW k \in 1..(at + 1) PROVE cells'[k] = text[k]
    <3>1. CASE k = at + 1
      BY <1>4, <2>2, <3>1
    <3>2. CASE k # at + 1
      <4>1. k \in 1..at /\ k \in (1..4) \ {at + 1}
        BY <1>3, <2>2, <3>2
      <4> QED
        BY <1>1, <1>4, <2>2, <4>1 DEF MemoryInv, SegmentHolds
    <3> QED
      BY <3>1, <3>2
  <2>3. stored' # <<>> => /\ \A k \in 1..Len(stored) : cells'[k] = stored[k]
                          /\ cells'[Len(stored) + 1] = Memory!End
    <3> SUFFICES ASSUME stored # <<>> PROVE ~attached /\ UNCHANGED cells
      BY <1>1 DEF MemoryInv, SegmentHolds
    <3> QED
      BY <1>1, <1>3, StoreChanges DEF MemoryInv, SegmentHolds
  <2>4. ~torn' => \A k \in 1..same' : cells'[k] = Memory!Pattern[k]
    <3>1. same = 0 => \A k \in 1..same : FALSE
      OBVIOUS
    <3> QED
      BY <1>1, <1>4, <3>1 DEF MemoryInv, SegmentHolds
  <2>5. reader' = "strcmp" => same' < 3
    BY <1>1 DEF MemoryInv, SegmentHolds
  <2> QED
    BY <1>1, <2>1, <2>2, <2>3, <2>4, <2>5 DEF SegmentHolds
<1>7. Memory!LeavesOnlyOnQuit'
  BY <1>1, <1>3, StoreChanges DEF MemoryInv, Memory!LeavesOnlyOnQuit, Memory!quit
<1> QED
  BY <1>5, <1>6, <1>7 DEF MemoryInv

(* The writer replaces the newline: the line is stored whole. *)
LEMMA MemoryStrips ==
  ASSUME MemoryInv, Memory!StripNewline
  PROVE  MemoryInv'
<1>1. /\ writer = "store" /\ at = Len(text) /\ writer' \in {"off", "prompt"}
      /\ Memory!Store(Len(text) - 1, Memory!End)
      /\ stored' = IF attached THEN SubSeq(text, 1, Len(text) - 2) ELSE stored
      /\ UNCHANGED <<attached, text, at, leftLines, reader, same, leftOn, runs>>
  BY DEF Memory!StripNewline
<1>2. PICK line \in CellTexts : text = line \o <<"newline", Memory!End>>
  BY <1>1 DEF MemoryInv, MemoryTyped
<1>3. /\ Len(line) \in 0..2 /\ Len(text) = Len(line) + 2
      /\ \A k \in 1..Len(line) : text[k] = line[k]
      /\ SubSeq(text, 1, Len(text) - 2) = line
  BY <1>2, TextIs
<1>4. /\ Len(text) - 1 = Len(line) + 1 /\ Len(line) + 1 \in 1..4
      /\ \A k \in 1..Len(line) : k \in (1..4) \ {Len(line) + 1} /\ k \in 1..Len(text)
  <2> DEFINE n == Len(line)
             m == Len(text)
  <2>1. n \in 0..2 /\ m = n + 2
    BY <1>3
  <2> HIDE DEF n, m
  <2>2. /\ m - 1 = n + 1 /\ n + 1 \in 1..4
        /\ \A k \in 1..n : k \in 1..4 /\ k # n + 1 /\ k \in 1..m
    BY <2>1
  <2> QED
    BY <2>2 DEF n, m
<1>5. Memory!Store(Len(line) + 1, Memory!End)
  BY <1>1, <1>4
<1>6. /\ Cells(cells') /\ torn' \in BOOLEAN
      /\ torn' \/ UNCHANGED <<cells, torn>> \/ same = 0
      /\ attached => /\ cells'[Len(line) + 1] = Memory!End
                     /\ \A k \in (1..4) \ {Len(line) + 1} : cells'[k] = cells[k]
      /\ ~attached => UNCHANGED cells
      /\ torn => torn'
  BY <1>4, <1>5, StoreChanges
<1>7. stored' = IF attached THEN line ELSE stored
  BY <1>1, <1>3
<1>8. MemoryTyped'
  BY <1>1, <1>6, <1>7 DEF MemoryInv, MemoryTyped
<1>9. attached => \A k \in 1..Len(line) : cells'[k] = line[k]
  BY <1>1, <1>3, <1>4, <1>6 DEF MemoryInv, SegmentHolds
<1>10. SegmentHolds'
  <2>1. stored' # <<>> => /\ \A k \in 1..Len(stored') : cells'[k] = stored'[k]
                          /\ cells'[Len(stored') + 1] = Memory!End
    <3>1. CASE attached
      BY <1>6, <1>7, <1>9, <3>1
    <3>2. CASE ~attached
      BY <1>6, <1>7, <3>2 DEF MemoryInv, SegmentHolds
    <3> QED
      BY <3>1, <3>2
  <2>2. ~torn' => \A k \in 1..same' : cells'[k] = Memory!Pattern[k]
    <3>1. same = 0 => \A k \in 1..same : FALSE
      OBVIOUS
    <3> QED
      BY <1>1, <1>6, <3>1 DEF MemoryInv, SegmentHolds
  <2>3. writer' # "store" /\ (reader' = "strcmp" => same' < 3)
    BY <1>1 DEF MemoryInv, SegmentHolds
  <2> QED
    BY <2>1, <2>2, <2>3 DEF SegmentHolds
<1>11. Memory!LeavesOnlyOnQuit'
  BY <1>1, <1>6 DEF MemoryInv, Memory!LeavesOnlyOnQuit, Memory!quit
<1> QED
  BY <1>8, <1>10, <1>11 DEF MemoryInv

(* The reader compares the next cell. *)
LEMMA MemoryCompares ==
  ASSUME MemoryInv, Memory!CompareCell
  PROVE  MemoryInv'
<1> DEFINE equal == cells[same + 1] = Memory!Pattern[same + 1]
<1>1. /\ reader = "strcmp" /\ same' = IF equal THEN same + 1 ELSE 0
      /\ reader' = IF equal /\ same + 1 = Len(Memory!Pattern) THEN "shmctl" ELSE "strcmp"
      /\ torn' = (equal /\ ((same > 0 /\ torn) \/ Memory!Storing))
      /\ leftOn' = IF reader' = "shmctl" THEN stored ELSE <<>>
      /\ UNCHANGED <<cells, writer, attached, text, at, stored, leftLines, runs>>
  BY DEF Memory!CompareCell
<1>2. same \in 0..2 /\ torn \in BOOLEAN
  BY <1>1 DEF MemoryInv, MemoryTyped, SegmentHolds
<1>3. equal \in BOOLEAN /\ Memory!Storing \in BOOLEAN /\ Len(Memory!Pattern) = 3
  BY Quit DEF Memory!Storing
<1>4. ASSUME ~torn', NEW k \in 1..same' PROVE cells'[k] = Memory!Pattern[k]
  <2>1. equal /\ same' = same + 1 /\ (torn => same = 0)
    BY <1>1, <1>2, <1>3, <1>4
  <2>2. CASE k = same + 1
    BY <1>1, <2>1, <2>2
  <2>3. CASE k # same + 1
    <3>1. k \in 1..same /\ ~torn
      BY <1>2, <1>4, <2>1, <2>3
    <3> QED
      BY <1>1, <3>1 DEF MemoryInv, SegmentHolds
  <2> QED
    BY <2>2, <2>3
<1>5. /\ same' \in 0..3 /\ torn' \in BOOLEAN
      /\ reader' = "strcmp" => same' < 3
      /\ reader' = "shmctl" => same' = 3 /\ leftOn' = stored
  <2> HIDE DEF equal
  <2> QED
    BY <1>1, <1>2, <1>3
<1>6. MemoryTyped'
  BY <1>1, <1>5 DEF MemoryInv, MemoryTyped
<1>7. SegmentHolds'
  <2>1. UNCHANGED <<cells, writer, attached, text, at, stored>>
    BY <1>1
  <2> QED
    BY <1>4, <1>5, <2>1 DEF MemoryInv, SegmentHolds, Memory!Pattern, Memory!quit, Memory!End
<1>8. Memory!LeavesOnlyOnQuit'
  <2> SUFFICES ASSUME reader' = "shmctl", ~torn' PROVE leftOn' \in {Memory!quit, <<>>}
    BY DEF Memory!LeavesOnlyOnQuit, Memory!quit
  <2>1. \A k \in 1..3 : cells[k] = Memory!Pattern[k]
    BY <1>1, <1>4, <1>5
  <2> QED
    BY <1>5, <2>1, QuitStored DEF MemoryInv
<1> QED
  BY <1>6, <1>7, <1>8 DEF MemoryInv

(* Steps that leave the segment alone. *)
LEMMA SegmentStays ==
  ASSUME MemoryInv, UNCHANGED <<cells, stored>>,
         writer' = "store" => writer = "store" /\ UNCHANGED <<attached, text, at>>,
         at' \in Nat, at' <= 4,
         UNCHANGED <<reader, same, torn, leftOn>>
           \/ (reader' # "shmctl" /\ same' = 0 /\ torn' = FALSE)
  PROVE  MemoryInv'
<1>1. same' \in 0..3 /\ torn' \in BOOLEAN /\ (reader' = "strcmp" => same' < 3)
  <2>1. CASE UNCHANGED <<reader, same, torn, leftOn>>
    <3>1. same \in 0..3 /\ torn \in BOOLEAN /\ (reader = "strcmp" => same < 3)
      BY DEF MemoryInv, MemoryTyped, SegmentHolds
    <3> QED
      BY <2>1, <3>1
  <2>2. CASE reader' # "shmctl" /\ same' = 0 /\ torn' = FALSE
    <3>1. same' = 0 /\ 0 \in 0..3 /\ 0 < 3
      BY <2>2
    <3>2. torn' \in BOOLEAN
      BY <2>2, Zenon
    <3> QED
      BY <3>1, <3>2, Zenon
  <2> QED
    BY <2>1, <2>2
<1>2. MemoryTyped'
  BY <1>1 DEF MemoryInv, MemoryTyped
<1>3. ~torn' => \A k \in 1..same' : cells'[k] = Memory!Pattern[k]
  <2>1. CASE UNCHANGED <<same, torn>>
    BY <2>1 DEF MemoryInv, SegmentHolds
  <2>2. CASE same' = 0
    <3>1. \A k \in 1..same' : FALSE
      BY <2>2
    <3> QED
      BY <3>1
  <2> QED
    BY <2>1, <2>2
<1>4. SegmentHolds'
  BY <1>1, <1>3 DEF MemoryInv, SegmentHolds, Memory!Pattern, Memory!quit, Memory!End
<1>5. Memory!LeavesOnlyOnQuit'
  BY DEF MemoryInv, Memory!LeavesOnlyOnQuit, Memory!quit
<1> QED
  BY <1>2, <1>4, <1>5 DEF MemoryInv

(* A user types a line for the writer. *)
LEMMA MemoryTypes ==
  ASSUME MemoryInv, Memory!TypeLine
  PROVE  MemoryInv'
<1>1. /\ \E line \in CellTexts : text' = line \o <<"newline", Memory!End>>
      /\ at' = 0 /\ stored' = IF attached THEN <<>> ELSE stored
      /\ UNCHANGED <<cells, attached, reader, same, torn, leftOn, runs>>
  BY DEF Memory!TypeLine
<1>2. MemoryTyped'
  <2>1. stored' \in CellTexts \cup {<<>>} /\ at' \in Nat /\ at' <= 4
    BY <1>1 DEF MemoryInv, MemoryTyped
  <2> QED
    BY <1>1, <2>1 DEF MemoryInv, MemoryTyped
<1>3. \A k \in 1..at' : FALSE
  BY <1>1
<1>4. stored' # <<>> => stored' = stored
  BY <1>1
<1>5. SegmentHolds'
  BY <1>1, <1>3, <1>4 DEF MemoryInv, SegmentHolds, Memory!Pattern, Memory!quit, Memory!End
<1>6. Memory!LeavesOnlyOnQuit'
  BY <1>1 DEF MemoryInv, Memory!LeavesOnlyOnQuit, Memory!quit
<1> QED
  BY <1>2, <1>5, <1>6 DEF MemoryInv

(* The reader removes the segment: the next one is new. *)
LEMMA MemoryRemoved ==
  ASSUME MemoryInv, Memory!RemoveSegment
  PROVE  MemoryInv'
<1>1. /\ cells' = [i \in 1..4 |-> Memory!End] /\ stored' = <<>>
      /\ reader' = "off" /\ same' = 0 /\ torn' = FALSE /\ attached' = FALSE
      /\ UNCHANGED <<writer, text, at, leftLines, runs>>
  BY DEF Memory!RemoveSegment, Memory!Zeros, Memory!End
<1>2. Cells(cells')
  BY <1>1 DEF Cells
<1>3. MemoryTyped'
  <2>1. /\ stored' = <<>> /\ same' = 0 /\ torn' = FALSE
        /\ UNCHANGED <<writer, text, at>>
    BY <1>1
  <2>2. same' \in 0..3 /\ torn' \in BOOLEAN /\ stored' \in CellTexts \cup {<<>>}
    <3>1. 0 \in 0..3
      OBVIOUS
    <3> QED
      BY <2>1, <3>1, Zenon
  <2>3. /\ at' \in Nat /\ at' <= 4
        /\ writer' = "store" =>
             \E line \in CellTexts : text' = line \o <<"newline", Memory!End>>
    BY <2>1 DEF MemoryInv, MemoryTyped
  <2> QED
    BY <1>2, <2>2, <2>3 DEF MemoryTyped
<1>4. \A k \in 1..same' : FALSE
  BY <1>1
<1>5. SegmentHolds'
  BY <1>1, <1>4 DEF SegmentHolds
<1>6. Memory!LeavesOnlyOnQuit'
  BY <1>1 DEF Memory!LeavesOnlyOnQuit
<1> QED
  BY <1>3, <1>5, <1>6 DEF MemoryInv

(* No step of the shared memory breaks its invariant. *)
LEMMA MemoryStep ==
  ASSUME MemoryInv, Memory!Next \/ UNCHANGED memoryVars
  PROVE  MemoryInv'
<1>1. at \in Nat /\ at <= 4
  BY DEF MemoryInv, MemoryTyped
<1>2. CASE Memory!StartWriter
  <2>1. /\ writer' # "store"
        /\ UNCHANGED <<cells, stored, at, reader, same, torn, leftOn>>
    BY <1>2 DEF Memory!StartWriter
  <2> QED
    BY <1>1, <2>1, SegmentStays
<1>3. CASE Memory!WriterDies
  <2>1. /\ writer' # "store"
        /\ UNCHANGED <<cells, stored, at, reader, same, torn, leftOn>>
    BY <1>3 DEF Memory!WriterDies
  <2> QED
    BY <1>1, <2>1, SegmentStays
<1>4. CASE Memory!StartReader
  <2>1. /\ reader' # "shmctl" /\ same' = 0 /\ torn' = FALSE
        /\ UNCHANGED <<cells, stored, writer, attached, text, at>>
    BY <1>4 DEF Memory!StartReader
  <2> QED
    BY <1>1, <2>1, SegmentStays
<1>5. CASE Memory!ReaderDies
  <2>1. /\ reader' # "shmctl" /\ same' = 0 /\ torn' = FALSE
        /\ UNCHANGED <<cells, stored, writer, attached, text, at>>
    BY <1>5 DEF Memory!ReaderDies
  <2> QED
    BY <1>1, <2>1, SegmentStays
<1>6. CASE UNCHANGED memoryVars
  <2>1. UNCHANGED <<cells, stored, writer, attached, text, at, reader, same, torn, leftOn>>
    BY <1>6 DEF memoryVars
  <2> QED
    BY <1>1, <2>1, SegmentStays
<1> QED
  BY <1>2, <1>3, <1>4, <1>5, <1>6, MemoryTypes, MemoryStores, MemoryStrips,
     MemoryCompares, MemoryRemoved DEF Memory!Next

-------------------------------------------------------------------------------
(* The theorems.                                                              *)

(* The copy starts well, and so does one that is not looked at. *)
LEMMA CopyStarts ==
  ASSUME Init
  PROVE  CopyInv
<1>1. /\ regular \in BOOLEAN /\ dest = <<>>
      /\ \E n \in Lengths : /\ src = [k \in 1..(IF regular THEN n ELSE 0) |-> k]
                            /\ length \in {-1, Copy!ToInt(n)}
      /\ pos = [q \in Copiers |-> 0] /\ copied = [q \in Copiers |-> <<>>]
      /\ sum = [q \in Copiers |-> 0] /\ failures = [q \in Copiers |-> 0] /\ failed = {}
      /\ \/ pc = [q \in Copiers |-> IF q = "parent" THEN "fork" ELSE "unborn"]
         \/ length = -1 /\ pc = [q \in Copiers |-> "exited"]
  BY DEF Init, Copy!Init, Copy!CopyInit, Copiers
<1>2. PICK n \in Lengths : /\ src = [k \in 1..(IF regular THEN n ELSE 0) |-> k]
                           /\ length \in {-1, Copy!ToInt(n)}
  BY <1>1
<1> DEFINE m == IF regular THEN n ELSE 0
<1>3. n \in Nat /\ m \in Nat
  BY ForkAndIpcAssumption DEF Copy!CopyAssumption
<1>4. src \in Seq(Int) /\ Len(src) = m /\ \A k \in 1..Len(src) : src[k] = k
  <2>1. src \in [1..m -> Int]
    BY <1>2, <1>3
  <2>2. src \in Seq(Int) /\ Len(src) = IF m >= 0 THEN m ELSE 0
    <3>1. m \in Int
      BY <1>3
    <3> HIDE DEF m
    <3> QED
      BY <2>1, <3>1, NumberedIsSeq, Zenon
  <2>3. \A k \in 1..m : src[k] = k
    BY <1>2
  <2> QED
    BY <1>3, <2>2, <2>3
<1>5. Len(dest) = 0 /\ dest \in Seq(Int) /\ <<>> \in Seq(Int)
  BY <1>1, EmptySeq
<1>6. CopyTyped
  <2>1. length \in Int
    BY <1>2, <1>3, IntOfLength
  <2>2. regular => length \in {-1, Copy!ToInt(Len(src))}
    BY <1>2, <1>4
  <2>3. ~regular => Len(src) = 0
    BY <1>4
  <2>4. /\ pc \in [Copiers -> {"fork", "unborn", "open", "read", "write", "wait", "exited"}]
        /\ pos \in [Copiers -> Nat] /\ sum \in [Copiers -> Int]
        /\ failures \in [Copiers -> Nat] /\ copied \in [Copiers -> Seq(Int)]
    BY <1>1, <1>5
  <2> QED
    BY <1>1, <1>4, <1>5, <2>1, <2>2, <2>3, <2>4 DEF CopyTyped
<1>7. CopyPlaces
  BY <1>1 DEF CopyPlaces, Place, Copiers, Copy!Processes
<1>8. CopiedSoFar
  <2> SUFFICES ASSUME NEW q \in Copiers, pc[q] \in {"wait", "exited"}
               PROVE  Whole(q, Copy!end(q))
    BY <1>1 DEF CopiedSoFar
  <2>1. length < 0
    BY <1>1
  <2>2. Copy!offset(q) \in Nat /\ Copy!end(q) \in Int /\ Copy!end(q) <= Copy!offset(q)
    BY <1>6, <2>1, ShareBounds
  <2> QED
    BY <2>2 DEF Whole
<1>9. Copy!NeverWrong
  <2>1. "parent" \in Copiers /\ failures["parent"] = 0
    BY <1>1 DEF Copiers, Copy!Processes
  <2>2. Len(dest) <= Len(src) + failures["parent"]
    BY <1>3, <1>4, <1>5, <2>1
  <2> QED
    BY <1>5, <2>1, <2>2 DEF Copy!NeverWrong, Copiers
<1> QED
  BY <1>6, <1>7, <1>8, <1>9 DEF CopyInv

(* No line has been typed. *)
LEMMA FifoStarts ==
  ASSUME Init
  PROVE  FifoInv
<1>1. /\ w = [k \in Fifo!Fifos |-> "off"] /\ r = [k \in Fifo!Fifos |-> "off"]
      /\ pipe = [k \in Fifo!Fifos |-> <<>>]
  BY DEF Init, Fifo!Init
<1>2. <<>> \in Seq(STRING) /\ Fifo!quit # <<>>
  BY DEF Fifo!quit
<1> QED
  BY <1>1, <1>2 DEF FifoInv, ReaderPlaces

(* There is no queue yet. *)
LEMMA QueueStarts ==
  ASSUME Init
  PROVE  QueueInv
<1>1. /\ msgs = <<>> /\ sender = "off" /\ run = 0
      /\ buf = [mtype |-> 0, text |-> "line", run |-> 0]
      /\ receiver = [p \in Receivers |-> "off"] /\ quitRun = [p \in Receivers |-> 0]
  BY DEF Init, Queue!Init, Queue!NoMessage
<1>2. QueueTyped
  BY <1>1, EmptySeq DEF QueueTyped, Messages, Queue!Texts
<1>3. RunsInOrder
  BY <1>1 DEF RunsInOrder
<1>4. Queue!LeavesOnlyOnQuit
  BY <1>1 DEF Queue!LeavesOnlyOnQuit
<1> QED
  BY <1>2, <1>3, <1>4 DEF QueueInv

(* The segment is new. *)
LEMMA MemoryStarts ==
  ASSUME Init
  PROVE  MemoryInv
<1>1. /\ cells = [i \in 1..4 |-> Memory!End] /\ stored = <<>> /\ at = 0
      /\ writer = "off" /\ reader = "off" /\ same = 0 /\ torn = FALSE
  BY DEF Init, Memory!Init, Memory!Zeros, Memory!End
<1>2. MemoryTyped
  <2>1. Cells(cells)
    BY <1>1 DEF Cells
  <2>2. 0 \in Nat /\ 0 <= 4 /\ 0 \in 0..3
    OBVIOUS
  <2>3. at \in Nat /\ at <= 4 /\ same \in 0..3 /\ torn \in BOOLEAN
    BY <1>1, <2>2, Zenon
  <2> QED
    BY <1>1, <2>1, <2>3, Zenon DEF MemoryTyped
<1>3. SegmentHolds
  BY <1>1 DEF SegmentHolds
<1>4. Memory!LeavesOnlyOnQuit
  BY <1>1 DEF Memory!LeavesOnlyOnQuit
<1> QED
  BY <1>2, <1>3, <1>4 DEF MemoryInv

(* The invariants of the programs hold, whichever of them is looked at.       *)
THEOREM ProgramsInvariant == Spec => []Inv
<1>1. Init => Inv
  BY CopyStarts, FifoStarts, QueueStarts, MemoryStarts DEF Inv
<1>2. Inv /\ [Next]_vars => Inv'
  <2> SUFFICES ASSUME Inv, [Next]_vars PROVE Inv'
    OBVIOUS
  <2>1. /\ Copy!Next \/ UNCHANGED copyVars
        /\ Fifo!Next \/ UNCHANGED fifoVars
        /\ Queue!Next \/ UNCHANGED queueVars
        /\ Memory!Next \/ UNCHANGED memoryVars
    BY Zenon DEF Next, vars
  <2> QED
    BY <2>1, CopyStep, FifoStep, QueueStep, MemoryStep DEF Inv
<1> QED
  BY <1>1, <1>2, PTL DEF Spec

(* The two-process copy: each byte of the destination is the source's or a    *)
(* hole in front of the other process's bytes, also after reads that failed;  *)
(* only these can make it longer than the source.                             *)
THEOREM NeverWrongHolds == Spec => []NeverWrong
<1>1. Inv => NeverWrong
  BY DEF Inv, CopyInv, NeverWrong
<1> QED
  BY <1>1, ProgramsInvariant, PTL

(* When the parent of the two-process copy exits, the shares of the processes *)
(* that could open the files are copied; if both could and get_file_size too, *)
(* and the length of the source fits in an int, this is the whole source.     *)
THEOREM CopyIsCompleteHolds == Spec => []CopyIsComplete
<1>1. Inv => CopyIsComplete
  <2> SUFFICES ASSUME CopyInv, pc["parent"] = "exited"
               PROVE  /\ \A q \in Copiers \ failed :
                           \A k \in (Copy!start(q) + 1)..Copy!end(q) : Copy!Copied(k)
                      /\ failed = {} /\ length # -1 /\ 2 * Len(src) < IntSize =>
                           \A k \in 1..Len(src) : Copy!Copied(k)
    BY DEF Inv, CopyIsComplete, Copy!CopyIsComplete, Copiers
  <2>1. ASSUME NEW q \in Copiers \ failed, NEW k \in (Copy!start(q) + 1)..Copy!end(q)
        PROVE  Copy!Copied(k)
    <3>1. pc[q] = "exited"
      BY DEF CopyInv, CopyPlaces, Copiers, Copy!Processes
    <3>2. Whole(q, Copy!end(q))
      BY <3>1 DEF CopyInv, CopiedSoFar
    <3>3. CASE length < 0
      <4>1. Copy!len(q) <= 0 /\ Copy!len(q) \in Int /\ Copy!start(q) \in Int
        BY <3>3, ShareBounds DEF CopyInv
      <4>2. Copy!end(q) <= Copy!start(q)
        BY <4>1 DEF Copy!end
      <4> QED
        BY <4>1, <4>2 DEF Copy!end
    <3>4. CASE length >= 0
      <4>1. Copy!offset(q) = Copy!start(q)
        BY <3>4, ShareBounds DEF CopyInv
      <4> QED
        BY <3>2, <4>1 DEF Whole
    <3> QED
      BY <3>3, <3>4 DEF CopyInv, CopyTyped
  <2>2. ASSUME failed = {}, length # -1, 2 * Len(src) < IntSize, NEW k \in 1..Len(src)
        PROVE  Copy!Copied(k)
    <3>1. length = Len(src) /\ length \in Nat
      <4>1. Len(src) \in Nat /\ Len(src) # 0
        BY <2>2, LenProperties DEF CopyInv, CopyTyped
      <4> QED
        BY <2>2, <4>1, IntOfLength DEF CopyInv, CopyTyped
    <3>2. /\ Copy!half \in Int
          /\ Copy!start("parent") = 0 /\ Copy!end("parent") = Copy!half
          /\ Copy!start("child") = Copy!half /\ Copy!end("child") = length
      BY <3>1 DEF Copy!start, Copy!end, Copy!len, Copy!half
    <3>3. \/ k \in (Copy!start("parent") + 1)..Copy!end("parent")
          \/ k \in (Copy!start("child") + 1)..Copy!end("child")
      BY <2>2, <3>1, <3>2
    <3> QED
      BY <2>1, <2>2, <3>3 DEF Copiers, Copy!Processes
  <2> QED
    BY <2>1, <2>2
<1> QED
  BY <1>1, ProgramsInvariant, PTL

(* Who takes lines from a FIFO, a message queue or shared memory leaves on    *)
(* the line quit alone and loses none typed before it, but for the exceptions *)
(* that each module states.                                                   *)
THEOREM LeavesOnlyOnQuitHolds == Spec => []LeavesOnlyOnQuit
<1>1. Inv => LeavesOnlyOnQuit
  <2>1. FifoInv => Fifo!LeavesOnlyOnQuit
    BY DEF FifoInv, Fifo!LeavesOnlyOnQuit
  <2> QED
    BY <2>1 DEF Inv, QueueInv, MemoryInv, LeavesOnlyOnQuit
<1> QED
  BY <1>1, ProgramsInvariant, PTL

================================================================================
