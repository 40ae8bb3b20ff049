----------------------- MODULE FileProcessorMain_proofs -----------------------
(***************************************************************************)
(* Proofs about FileProcessorMain, for any names in the directory and any   *)
(* changes of it and of its path: the list has each file that stays and is  *)
(* found exactly once, and exit status 0 stands for a complete report. They *)
(* rest on the report itself, BatchReport, which is ordered and complete    *)
(* for a list of any length.                                                *)
(***************************************************************************)
EXTENDS FileProcessorMain, Operators_proofs

(* The promises of BatchReport.                                              *)
BatchInv == Batch!TypeOK /\ Batch!GroupsAscend /\ Batch!EveryFileOnce

Listed(f) == {k \in DOMAIN fileList : fileList[k] = f}

Once(f) == \E k \in DOMAIN fileList : Listed(f) = {k}

(* f is listed as it should be, if it stays what it is: never twice, and as  *)
(* its kind demands if stat found it.                                        *)
Right(f) ==
  /\ Listed(f) = {} \/ Once(f)
  /\ f \notin strayed => IF kind[f] = "file" THEN Once(f) ELSE Listed(f) = {}

(* While the directory is read, each steady name is either still to come or  *)
(* has been dealt with, and after that only a readdir that failed leaves some*)
(* to come; main goes on only with a list that is not empty.                 *)
ListInv ==
  /\ BeforeOpen => fileList = <<>> /\ unread = {}
  /\ pc \in {"readdir", "stat"} =>
       \A f \in steady :
         IF f \in unread \/ (pc = "stat" /\ f = entry) THEN Listed(f) = {} ELSE Right(f)
  /\ ~BeforeOpen /\ pc \notin {"readdir", "stat"} /\ fileList # <<>> =>
       \A f \in steady : IF cut /\ f \in unread THEN Listed(f) = {} ELSE Right(f)
  /\ pc = "stat" => entry \in Names /\ entry \notin unread \cap steady
  /\ pc \in {"mode", "print", "save", "success"} => fileList # <<>>

(* Nothing is in the report before the mode is called, and nothing printed   *)
(* before it returns; what is printed is the beginning of the report.        *)
PrintInv ==
  /\ BeforeOpen \/ pc \in {"readdir", "stat", "listed"} =>
       reported = <<>> /\ dropped = {} /\ accounted = 0
  /\ args.mode = "thread" => dropped = {}
  /\ pc \notin {"print", "save", "success"} => printed = <<>>
  /\ pc # "success" => saved = <<>>
  /\ Len(printed) <= Len(reported)
  /\ \A e \in 1..Len(printed) : printed[e] = reported[e]
  /\ pc \in {"save", "success"} => Len(printed) = Len(reported)

Inv == TypeOK /\ BatchInv /\ ListInv /\ PrintInv

-------------------------------------------------------------------------------
(* The report of a mode.                                                       *)

(* What is reported after one more group. *)
LEMMA InReportAppend ==
  ASSUME NEW S, NEW g \in SUBSET S, reported \in Seq(SUBSET S), reported' = Append(reported, g)
  PROVE  /\ reported' \in Seq(SUBSET S)
         /\ Len(reported) \in Nat /\ Len(reported') = Len(reported) + 1
         /\ \A k \in 1..Len(reported) : reported'[k] = reported[k]
         /\ reported'[Len(reported) + 1] = g
         /\ Batch!InReport' = Batch!InReport \cup g
<1>1. /\ reported' \in Seq(SUBSET S)
      /\ Len(reported) \in Nat /\ Len(reported') = Len(reported) + 1
      /\ \A k \in 1..Len(reported) : reported'[k] = reported[k]
      /\ reported'[Len(reported) + 1] = g
  BY LenProperties
<1>2. ASSUME NEW x PROVE x \in Batch!InReport' <=> x \in Batch!InReport \cup g
  <2>1. x \in Batch!InReport' <=> \E k \in 1..Len(reported') : x \in reported'[k]
    BY DEF Batch!InReport
  <2>2. x \in Batch!InReport <=> \E k \in 1..Len(reported) : x \in reported[k]
    BY DEF Batch!InReport
  <2> QED
    BY <1>1, <2>1, <2>2
<1> QED
  BY <1>1, <1>2

(* A report that starts at the next file keeps the order and the account. *)
LEMMA ReportStep ==
  ASSUME BatchInv, NEW last \in (accounted + 1)..Len(fileList), Batch!Report(last)
  PROVE  BatchInv'
<1> DEFINE g == (accounted + 1)..last
<1>1. /\ accounted \in Nat /\ accounted <= Len(fileList) /\ last \in Nat /\ accounted < last
      /\ g \in SUBSET (1..Len(fileList))
      /\ 1..last = (1..accounted) \cup g
      /\ \A i \in 1..accounted : i \notin g /\ \A j \in g : i < j
  BY DEF BatchInv, Batch!TypeOK
<1>2. /\ Len(fileList)' = Len(fileList) /\ reported' = Append(reported, g) /\ accounted' = last
      /\ dropped' = dropped /\ returned' = returned /\ returned = FALSE
  BY DEF Batch!Report, BatchInv, Batch!TypeOK
<1> HIDE DEF g
<1>3. /\ reported' \in Seq(SUBSET (1..Len(fileList)))
      /\ Len(reported) \in Nat /\ Len(reported') = Len(reported) + 1
      /\ \A k \in 1..Len(reported) : reported'[k] = reported[k]
      /\ reported'[Len(reported) + 1] = g
      /\ Batch!InReport' = Batch!InReport \cup g
  BY <1>1, <1>2, InReportAppend DEF BatchInv, Batch!TypeOK
<1>4. Batch!TypeOK'
  BY <1>1, <1>2, <1>3 DEF BatchInv, Batch!TypeOK
<1>5. Batch!EveryFileOnce'
  BY <1>1, <1>2, <1>3 DEF BatchInv, Batch!EveryFileOnce
<1>6. \A k \in 1..Len(reported) : reported[k] \subseteq 1..accounted
  BY DEF BatchInv, Batch!EveryFileOnce, Batch!InReport
<1>7. ASSUME NEW k \in 1..Len(reported'), NEW l \in 1..Len(reported'), k < l,
             NEW i \in reported'[k], NEW j \in reported'[l]
      PROVE  i < j
  <2>1. k \in 1..Len(reported) /\ i \in reported[k]
    BY <1>3, <1>7
  <2>2. CASE l \in 1..Len(reported)
    BY <1>3, <1>7, <2>1, <2>2 DEF BatchInv, Batch!GroupsAscend
  <2>3. CASE l = Len(reported) + 1
    BY <1>1, <1>3, <1>6, <1>7, <2>1, <2>3
  <2> QED
    BY <1>3, <2>2, <2>3
<1>8. Batch!GroupsAscend'
  BY <1>7 DEF Batch!GroupsAscend
<1> QED
  BY <1>4, <1>5, <1>8 DEF BatchInv

(* So does leaving the next files out. *)
LEMMA DropStep ==
  ASSUME BatchInv, NEW last \in (accounted + 1)..Len(fileList), Batch!Drop(last)
  PROVE  BatchInv'
<1> DEFINE g == (accounted + 1)..last
<1>1. /\ accounted \in Nat /\ last \in Nat /\ last <= Len(fileList)
      /\ g \in SUBSET (1..Len(fileList))
      /\ 1..last = (1..accounted) \cup g
      /\ (1..accounted) \cap g = {}
  BY DEF BatchInv, Batch!TypeOK
<1>2. /\ Len(fileList)' = Len(fileList) /\ reported' = reported /\ accounted' = last
      /\ dropped' = dropped \cup g /\ returned' = returned /\ returned = FALSE
  BY DEF Batch!Drop, BatchInv, Batch!TypeOK
<1> HIDE DEF g
<1>3. Batch!InReport' = Batch!InReport
  BY <1>2 DEF Batch!InReport
<1>4. Batch!TypeOK'
  BY <1>1, <1>2 DEF BatchInv, Batch!TypeOK
<1>5. Batch!EveryFileOnce'
  BY <1>1, <1>2, <1>3 DEF BatchInv, Batch!EveryFileOnce
<1>6. Batch!GroupsAscend'
  BY <1>2 DEF BatchInv, Batch!GroupsAscend
<1> QED
  BY <1>4, <1>5, <1>6 DEF BatchInv

(* And the return, which leaves the groups alone. *)
LEMMA ReturnStep ==
  ASSUME BatchInv, Batch!Return
  PROVE  BatchInv'
<1>1. /\ Len(fileList)' = Len(fileList) /\ reported' = reported /\ dropped' = dropped
      /\ accounted' = accounted /\ accounted = Len(fileList) /\ returned' = TRUE
  BY DEF Batch!Return
<1>2. Batch!InReport' = Batch!InReport
  BY <1>1 DEF Batch!InReport
<1> QED
  BY <1>1, <1>2 DEF BatchInv, Batch!TypeOK, Batch!GroupsAscend, Batch!EveryFileOnce

(* An empty report is right of any list. *)
LEMMA EmptyReport ==
  ASSUME Len(fileList) \in Nat, reported = <<>>, dropped = {}, accounted = 0, returned = FALSE
  PROVE  BatchInv
<1>1. reported \in Seq(SUBSET (1..Len(fileList))) /\ Len(reported) = 0
  BY EmptySeq
<1>2. Batch!TypeOK
  <2>1. dropped \in SUBSET (1..Len(fileList)) /\ accounted \in 0..Len(fileList)
    OBVIOUS
  <2>2. returned \in BOOLEAN
    OBVIOUS
  <2> QED
    BY <1>1, <2>1, <2>2 DEF Batch!TypeOK
<1>3. Batch!InReport = {} /\ Batch!GroupsAscend
  BY <1>1 DEF Batch!InReport, Batch!GroupsAscend
<1>4. Batch!EveryFileOnce
  BY <1>3 DEF Batch!EveryFileOnce
<1> QED
  BY <1>2, <1>3, <1>4 DEF BatchInv

(* The report of a run is in the order of the files, and has every file of   *)
(* the list once, or dropped: for any list, and both modes of FileProcessor. *)
THEOREM ReportInvariant == Batch!SafetySpec => []BatchInv
<1>1. Batch!Init => BatchInv
  BY EmptyReport DEF Batch!Init
<1>2. BatchInv /\ [Batch!Next]_(Batch!vars) => BatchInv'
  <2> SUFFICES ASSUME BatchInv, [Batch!Next]_(Batch!vars) PROVE BatchInv'
    OBVIOUS
  <2>1. CASE UNCHANGED Batch!vars
    <3>1. Batch!InReport' = Batch!InReport
      BY <2>1 DEF Batch!vars, Batch!InReport
    <3> QED
      BY <2>1, <3>1
      DEF Batch!vars, BatchInv, Batch!TypeOK, Batch!GroupsAscend, Batch!EveryFileOnce
  <2> QED
    BY <2>1, ReportStep, DropStep, ReturnStep DEF Batch!Next
<1> QED
  BY <1>1, <1>2, PTL DEF Batch!SafetySpec

(* The entries of results are disjoint and in the order of fileList. *)
THEOREM ReportAscends == Batch!SafetySpec => []Batch!GroupsAscend
BY ReportInvariant, PTL DEF BatchInv

(* Every file is in results or dropped, never both, and all of them are when *)
(* the call returns.                                                         *)
THEOREM ReportComplete == Batch!SafetySpec => []Batch!EveryFileOnce
BY ReportInvariant, PTL DEF BatchInv

-------------------------------------------------------------------------------
(* What the steps of the program and of the others change.                     *)

ListingStep == OpenDirectory \/ ReadEntry \/ StatEntry \/ EndOfDirectory \/ ReadError

(* The list grows in StatEntry only, the report in the mode only.            *)
LEMMA WhatChanges ==
  ASSUME [Next]_vars
  PROVE  /\ args' = args
         /\ fileList' = fileList \/ StatEntry
         /\ UNCHANGED batchVars \/ MergeFile \/ MergeGroup \/ ModeReturns
         /\ printed' = printed \/ PrintEntry
         /\ saved' = saved \/ SaveResults
         /\ UNCHANGED <<kind, steady>> \/ (\E f \in Names : ChangeEntry(f))
BY DEF Next, Program, vars, diskVars, listVars, batchVars, outVars, CheckArguments, BadNumber,
   IsDirectory, OpenDirectory, ReadEntry, StatEntry, EndOfDirectory, ReadError, ChooseMode,
   MergeFile, MergeGroup, ModeAborts, DivideByZero, ModeReturns, PrintEntry, EndOfResults,
   SaveResults, ChangeDirectory, ChangeEntry

(* The report stays right if it stays, and if it is empty for any list.      *)
LEMMA BatchStays ==
  ASSUME BatchInv, UNCHANGED batchVars, Len(fileList)' \in Nat,
         \/ fileList' = fileList
         \/ reported = <<>> /\ dropped = {} /\ accounted = 0 /\ returned = FALSE
  PROVE  BatchInv'
<1>1. Batch!InReport' = Batch!InReport
  BY DEF batchVars, Batch!InReport
<1>2. CASE fileList' = fileList
  BY <1>1, <1>2 DEF batchVars, BatchInv, Batch!TypeOK, Batch!GroupsAscend, Batch!EveryFileOnce
<1>3. CASE reported = <<>> /\ dropped = {} /\ accounted = 0 /\ returned = FALSE
  <2>1. reported' \in Seq(SUBSET (1..Len(fileList)'))
    BY <1>3, EmptySeq DEF batchVars
  <2>2. dropped' \in SUBSET (1..Len(fileList)') /\ accounted' \in 0..Len(fileList)'
    BY <1>3 DEF batchVars
  <2>3. returned' \in BOOLEAN
    BY <1>3 DEF batchVars
  <2>4. Batch!TypeOK'
    BY <2>1, <2>2, <2>3 DEF Batch!TypeOK
  <2>5. Batch!GroupsAscend' /\ Batch!EveryFileOnce'
    BY <1>1, <1>3 DEF batchVars, BatchInv, Batch!GroupsAscend, Batch!EveryFileOnce
  <2> QED
    BY <2>4, <2>5 DEF BatchInv
<1> QED
  BY <1>2, <1>3

(* StatEntry lists the entry once or not, and if stat finds it, as its kind  *)
(* demands.                                                                  *)
LEMMA StatLists ==
  ASSUME Inv, StatEntry
  PROVE  /\ fileList' \in Seq(Names)
         /\ \A f : f # entry => Listed(f)' = Listed(f)
         /\ \/ /\ fileList' = fileList /\ Listed(entry)' = Listed(entry)
               /\ entry \notin strayed' => kind[entry] # "file"
            \/ /\ \E k \in DOMAIN fileList' : Listed(entry)' = Listed(entry) \cup {k}
               /\ entry \notin strayed' => kind[entry] = "file"
<1>1. /\ fileList \in Seq(Names) /\ Len(fileList) \in Nat /\ DOMAIN fileList = 1..Len(fileList)
  BY LenProperties DEF Inv, TypeOK
<1>2. entry \in Names
  BY DEF Inv, ListInv, StatEntry, Goes
<1>3. /\ fileList' = fileList \/ fileList' = Append(fileList, entry)
      /\ entry \notin strayed' =>
           fileList' = IF kind[entry] = "file" THEN Append(fileList, entry) ELSE fileList
  BY <1>2 DEF StatEntry, Inv, TypeOK
<1>4. Append(fileList, entry) # fileList
  <2> SUFFICES ASSUME Append(fileList, entry) = fileList PROVE FALSE
    OBVIOUS
  <2>1. Len(Append(fileList, entry)) = Len(fileList) + 1
    BY <1>1, <1>2, AppendProperties
  <2>2. Len(fileList) = Len(fileList) + 1
    BY <2>1, Zenon
  <2> QED
    BY <1>1, <2>2
<1>5. CASE fileList' = fileList
  <2>1. entry \notin strayed' => kind[entry] # "file"
    BY <1>3, <1>4, <1>5, Zenon
  <2>2. entry' = entry
    BY DEF StatEntry
  <2> QED
    BY <1>1, <1>5, <2>1, <2>2 DEF Listed
<1>6. CASE fileList' = Append(fileList, entry)
  <2>1. /\ fileList' \in Seq(Names) /\ Len(fileList') = Len(fileList) + 1
        /\ \A k \in 1..Len(fileList) : fileList'[k] = fileList[k]
        /\ fileList'[Len(fileList) + 1] = entry
    BY <1>1, <1>2, <1>6, AppendProperties
  <2>2. DOMAIN fileList' = (1..Len(fileList)) \cup {Len(fileList) + 1}
    BY <1>1, <2>1, LenProperties
  <2>3. \A f : f # entry => Listed(f)' = Listed(f)
    BY <1>1, <2>1, <2>2 DEF Listed
  <2>4. Listed(entry)' = Listed(entry) \cup {Len(fileList) + 1}
    <3>1. entry' = entry
      BY DEF StatEntry
    <3> QED
      BY <1>1, <2>1, <2>2, <3>1 DEF Listed
  <2>5. entry \notin strayed' => kind[entry] = "file"
    BY <1>3, <1>4, <1>6, Zenon
  <2> QED
    BY <2>1, <2>2, <2>3, <2>4, <2>5
<1> QED
  BY <1>3, <1>5, <1>6

(* Every step keeps the report of the mode right.                            *)
LEMMA BatchStep ==
  ASSUME Inv, [Next]_vars
  PROVE  BatchInv'
<1>1. BatchInv /\ Len(fileList) \in Nat /\ accounted \in Nat /\ (returned \in BOOLEAN)
  BY DEF Inv, BatchInv, Batch!TypeOK
<1>2. CASE MergeFile
  <2>1. accounted + 1 \in (accounted + 1)..Len(fileList)
    BY <1>1, <1>2 DEF MergeFile
  <2> QED
    BY <1>1, <1>2, <2>1, ReportStep DEF MergeFile
<1>3. CASE MergeGroup
  <2>1. PICK i \in 0..(p - 1) :
          /\ accounted = startIdx(Len(fileList), p, i)
          /\ \/ Batch!Report(endIdx(Len(fileList), p, i))
             \/ Batch!Drop(endIdx(Len(fileList), p, i))
    BY <1>3 DEF MergeGroup
  <2>2. p \in 1..Len(fileList) /\ Len(fileList) \in Nat \ {0}
    <3>1. args.threads \in Nat /\ p > 0 /\ accounted < Len(fileList)
      BY <1>3, MainAssumption DEF MergeGroup, Inv, TypeOK
    <3> QED
      BY <1>1, <3>1 DEF p, numProcesses
  <2>3. endIdx(Len(fileList), p, i) \in (accounted + 1)..Len(fileList)
    <3> HIDE DEF p
    <3>1. /\ startIdx(Len(fileList), p, i) \in 0..(Len(fileList) - 1)
          /\ startIdx(Len(fileList), p, i) < endIdx(Len(fileList), p, i)
          /\ endIdx(Len(fileList), p, i) \in 1..Len(fileList)
      BY <2>2, SharesEven
    <3> QED
      BY <1>1, <2>1, <3>1
  <2> QED
    BY <1>1, <2>1, <2>3, ReportStep, DropStep
<1>4. CASE ModeReturns
  BY <1>1, <1>4, ReturnStep DEF ModeReturns
<1>5. CASE StatEntry
  <2>1. reported = <<>> /\ dropped = {} /\ accounted = 0 /\ returned = FALSE
    BY <1>1, <1>5 DEF StatEntry, Goes, Inv, PrintInv, TypeOK
  <2>2. Len(fileList)' \in Nat
    BY <1>5, StatLists, LenProperties
  <2> QED
    BY <1>1, <1>5, <2>1, <2>2, BatchStays DEF StatEntry
<1>6. CASE fileList' = fileList /\ UNCHANGED batchVars
  BY <1>1, <1>6, BatchStays
<1> QED
  BY <1>2, <1>3, <1>4, <1>5, <1>6, WhatChanges

(* What is listed as it should be stays so while the name is what it is.     *)
LEMMA RightStays ==
  ASSUME fileList' = fileList, strayed' = strayed, NEW f, kind'[f] = kind[f]
  PROVE  Listed(f)' = Listed(f) /\ Right(f)' = Right(f)
BY DEF Listed, Right, Once

(* Other programs disturb only what they change, and that is not steady.     *)
LEMMA ListChanged ==
  ASSUME Inv, NEW f \in Names, ChangeEntry(f)
  PROVE  ListInv'
<1>1. /\ pc' = pc /\ entry' = entry /\ fileList' = fileList /\ strayed' = strayed /\ cut' = cut
      /\ kind \in [Names -> Kinds]
  BY DEF ChangeEntry, Inv, TypeOK
<1>2. \A g \in Names \ {f} : kind'[g] = kind[g]
  BY <1>1 DEF ChangeEntry
<1>3. CASE BeforeOpen
  <2>1. BeforeOpen' /\ unread' = unread
    BY <1>1, <1>3 DEF BeforeOpen, ChangeEntry
  <2> QED
    BY <1>1, <1>3, <2>1 DEF Inv, ListInv, BeforeOpen
<1>4. CASE ~BeforeOpen
  <2>1. steady' = steady \ {f} /\ steady \subseteq Names /\ unread \subseteq unread'
    BY <1>4 DEF ChangeEntry, BeforeOpen, Inv, TypeOK
  <2>2. \A g \in steady' : /\ g \in steady /\ g # f
                           /\ Listed(g)' = Listed(g) /\ Right(g)' = Right(g)
    BY <1>1, <1>2, <2>1, RightStays
  <2>3. \A g \in steady' : g \in unread' => g \in unread
    BY <2>2 DEF ChangeEntry
  <2> QED
    BY <1>1, <1>4, <2>1, <2>2, <2>3 DEF Inv, ListInv, BeforeOpen
<1> QED
  BY <1>3, <1>4

(* Each name that readdir returns is dealt with by stat.                     *)
LEMMA ListRead ==
  ASSUME Inv, ListingStep
  PROVE  ListInv'
<1>1. kind' = kind /\ steady' = steady /\ steady \subseteq Names
  BY DEF ListingStep, OpenDirectory, ReadEntry, StatEntry, EndOfDirectory, ReadError, diskVars, Inv,
     TypeOK
<1>2. CASE OpenDirectory
  <2>1. fileList = <<>> /\ fileList' = <<>>
    BY <1>2 DEF OpenDirectory, Inv, ListInv, BeforeOpen, Goes
  <2>2. \A f \in steady : Listed(f)' = {}
    BY <2>1 DEF Listed
  <2>3. \/ pc' = "listed"
        \/ pc' = "readdir" /\ \A f \in steady : f \notin unread' => kind[f] = "absent"
    BY <1>1, <1>2 DEF OpenDirectory, Goes
  <2>4. ASSUME NEW f \in steady, kind[f] = "absent" PROVE Right(f)'
    BY <1>1, <2>2, <2>4 DEF Right
  <2> QED
    BY <1>1, <2>1, <2>2, <2>3, <2>4 DEF ListInv, BeforeOpen
<1>3. CASE ReadEntry
  <2>1. /\ pc = "readdir" /\ pc' = "stat" /\ entry' \in unread /\ unread' = unread \ {entry'}
        /\ fileList' = fileList /\ strayed' = strayed /\ unread \subseteq Names
    BY <1>3 DEF ReadEntry, Goes, Inv, TypeOK
  <2>2. \A f \in steady : Listed(f)' = Listed(f) /\ Right(f)' = Right(f)
    BY <1>1, <2>1, RightStays
  <2>3. \A f \in steady : IF f \in unread THEN Listed(f) = {} ELSE Right(f)
    BY <2>1 DEF Inv, ListInv
  <2> QED
    BY <1>1, <2>1, <2>2, <2>3 DEF ListInv, BeforeOpen
<1>4. CASE StatEntry
  <2>1. /\ pc = "stat" /\ pc' = "readdir" /\ unread' = unread /\ entry' = entry
    BY <1>4 DEF StatEntry, Goes
  <2>2. \A f \in steady : IF f \in unread \/ f = entry THEN Listed(f) = {} ELSE Right(f)
    BY <2>1 DEF Inv, ListInv
  <2>3. entry \notin unread \cap steady
    BY <2>1 DEF Inv, ListInv
  <2>4. ASSUME NEW f \in steady, f # entry
        PROVE  IF f \in unread THEN Listed(f)' = {} ELSE Right(f)'
    <3>1. Listed(f)' = Listed(f)
      BY <1>4, <2>4, StatLists
    <3>2. Right(f) => Right(f)'
      <4>1. Listed(f)' \subseteq DOMAIN fileList'
        BY DEF Listed
      <4>2. Once(f) => Once(f)'
        BY <3>1, <4>1 DEF Once
      <4>3. f \notin strayed' => f \notin strayed
        BY <1>4 DEF StatEntry
      <4> QED
        BY <1>1, <3>1, <4>2, <4>3 DEF Right
    <3> QED
      BY <2>2, <2>4, <3>1, <3>2
  <2>5. entry \in steady => entry \notin unread /\ Right(entry)'
    <3> SUFFICES ASSUME entry \in steady PROVE Right(entry)'
      BY <2>3
    <3>1. Listed(entry) = {}
      BY <2>2
    <3>2. CASE Listed(entry)' = Listed(entry) /\ (entry \notin strayed' => kind[entry] # "file")
      BY <1>1, <2>1, <3>1, <3>2 DEF Right
    <3>3. CASE /\ \E k \in DOMAIN fileList' : Listed(entry)' = Listed(entry) \cup {k}
               /\ entry \notin strayed' => kind[entry] = "file"
      <4>1. Once(entry)'
        BY <2>1, <3>1, <3>3 DEF Once
      <4> QED
        BY <1>1, <2>1, <3>3, <4>1 DEF Right
    <3> QED
      BY <1>4, <3>2, <3>3, StatLists
  <2>6. \A f \in steady' : IF f \in unread' THEN Listed(f)' = {} ELSE Right(f)'
    <3> SUFFICES ASSUME NEW f \in steady
                 PROVE  IF f \in unread THEN Listed(f)' = {} ELSE Right(f)'
      BY <1>1, <2>1
    <3>1. CASE f = entry
      <4>1. Right(f)' = Right(entry)'
        BY <2>1, <3>1 DEF Right, Once, Listed
      <4> QED
        BY <2>5, <3>1, <4>1
    <3> QED
      BY <2>4, <3>1
  <2> QED
    BY <2>1, <2>6 DEF ListInv, BeforeOpen
<1>5. CASE EndOfDirectory
  <2>1. /\ pc = "readdir" /\ pc' = "listed"
        /\ UNCHANGED <<fileList, strayed, unread>>
        /\ \A f \in steady : f \notin unread
    BY <1>5 DEF EndOfDirectory, Goes
  <2>2. \A f \in steady : Right(f)' = Right(f)
    BY <1>1, <2>1, RightStays
  <2>3. \A f \in steady : Right(f)
    BY <2>1 DEF Inv, ListInv
  <2> QED
    BY <1>1, <2>1, <2>2, <2>3 DEF ListInv, BeforeOpen
<1>6. CASE ReadError
  <2>1. /\ pc = "readdir" /\ pc' = "listed" /\ cut'
        /\ UNCHANGED <<fileList, strayed, unread>>
    BY <1>6 DEF ReadError, Goes
  <2>2. \A f \in steady : Right(f)' = Right(f) /\ Listed(f)' = Listed(f)
    BY <1>1, <2>1, RightStays
  <2>3. \A f \in steady : IF f \in unread THEN Listed(f) = {} ELSE Right(f)
    BY <2>1 DEF Inv, ListInv
  <2> QED
    BY <1>1, <2>1, <2>2, <2>3 DEF ListInv, BeforeOpen
<1> QED
  BY <1>2, <1>3, <1>4, <1>5, <1>6 DEF ListingStep

(* Every step keeps what is known of the list.                               *)
LEMMA ListStep ==
  ASSUME Inv, [Next]_vars
  PROVE  ListInv'
<1>1. CASE \E f \in Names : ChangeEntry(f)
  BY <1>1, ListChanged
<1>2. CASE ListingStep
  BY <1>2, ListRead
<1>3. CASE UNCHANGED <<kind, steady, fileList, unread, entry, strayed, cut, pc>>
  BY <1>3 DEF Inv, ListInv, BeforeOpen, Right, Once, Listed
<1>4. CASE CheckArguments \/ BadNumber \/ IsDirectory
  <2>1. /\ BeforeOpen /\ UNCHANGED <<kind, steady, fileList, unread>>
        /\ pc' \in {"isDirectory", "opendir", "failure", "aborted"}
    BY <1>4 DEF CheckArguments, BadNumber, IsDirectory, diskVars, listVars, BeforeOpen, Goes
  <2> QED
    BY <2>1 DEF Inv, ListInv, BeforeOpen
<1>5. CASE ChooseMode \/ ModeAborts \/ DivideByZero \/ ModeReturns \/ EndOfResults \/ SaveResults
  <2>1. /\ pc \in {"listed", "mode", "print", "save"}
        /\ pc' \in {"mode", "print", "save", "success", "failure", "aborted", "killed"}
        /\ UNCHANGED <<kind, steady, fileList, unread, strayed, cut>>
        /\ pc = "listed" /\ pc' # "failure" => fileList # <<>>
    BY <1>5 DEF ChooseMode, ModeAborts, DivideByZero, ModeReturns, EndOfResults, SaveResults, Goes,
         diskVars, listVars
  <2>2. \A f \in steady : Listed(f)' = Listed(f) /\ Right(f)' = Right(f)
    BY <2>1, RightStays
  <2>3. fileList # <<>> =>
          \A f \in steady : IF cut /\ f \in unread THEN Listed(f) = {} ELSE Right(f)
    BY <2>1 DEF Inv, ListInv, BeforeOpen
  <2>4. pc # "listed" => fileList # <<>>
    BY <2>1 DEF Inv, ListInv
  <2> QED
    BY <2>1, <2>2, <2>3, <2>4 DEF ListInv, BeforeOpen
<1> QED
  BY <1>1, <1>2, <1>3, <1>4, <1>5
  DEF Next, Program, ListingStep, vars, diskVars, listVars, MergeFile, MergeGroup, PrintEntry,
      ChangeDirectory

(* Every step keeps what is printed the beginning of the report.             *)
LEMMA PrintStep ==
  ASSUME Inv, [Next]_vars
  PROVE  PrintInv'
<1>1. /\ args' = args /\ PrintInv
      /\ reported \in Seq(SUBSET (1..Len(fileList))) /\ Len(reported) \in Nat
      /\ printed \in Seq(SUBSET (1..Len(fileList))) /\ Len(printed) \in Nat
  BY WhatChanges, LenProperties DEF Inv, TypeOK, Batch!TypeOK
<1>2. CASE CheckArguments \/ BadNumber \/ IsDirectory \/ ListingStep \/ ChooseMode
             \/ ChangeDirectory \/ (\E f \in Names : ChangeEntry(f))
  <2>1. /\ UNCHANGED <<batchVars, outVars>>
        /\ \/ pc' = pc
           \/ /\ BeforeOpen \/ pc \in {"readdir", "stat", "listed"}
              /\ pc' \in {"isDirectory", "opendir", "readdir", "stat", "listed", "mode", "failure",
                          "aborted"}
    BY <1>2 DEF CheckArguments, BadNumber, IsDirectory, ListingStep, OpenDirectory, ReadEntry,
         StatEntry, EndOfDirectory, ReadError, ChooseMode, ChangeDirectory, ChangeEntry, Goes,
         BeforeOpen
  <2> QED
    BY <1>1, <2>1 DEF PrintInv, batchVars, outVars, BeforeOpen
<1>3. CASE MergeFile \/ MergeGroup
  <2>1. /\ pc = "mode" /\ pc' = pc /\ UNCHANGED outVars
        /\ args.mode = "thread" => dropped' = dropped
    BY <1>3 DEF MergeFile, MergeGroup, Batch!Report
  <2>2. printed = <<>> /\ saved = <<>>
    BY <1>1, <2>1 DEF PrintInv
  <2>3. Len(printed') = 0 /\ Len(reported') \in Nat
    <3>1. BatchInv'
      BY BatchStep
    <3> QED
      BY <2>1, <2>2, <3>1, EmptySeq, LenProperties DEF BatchInv, Batch!TypeOK, outVars
  <2> QED
    BY <1>1, <2>1, <2>2, <2>3 DEF PrintInv, outVars, BeforeOpen
<1>4. CASE ModeAborts \/ DivideByZero \/ ModeReturns
  <2>1. /\ pc = "mode" /\ pc' \in {"aborted", "killed", "print"}
        /\ UNCHANGED <<reported, dropped, outVars>>
    BY <1>4 DEF ModeAborts, DivideByZero, ModeReturns, Batch!Return, batchVars
  <2> QED
    BY <1>1, <2>1 DEF PrintInv, outVars, BeforeOpen
<1>5. CASE PrintEntry
  <2>1. /\ pc = "print" /\ pc' = pc /\ Len(printed) < Len(reported)
        /\ printed' = Append(printed, reported[Len(printed) + 1])
        /\ UNCHANGED <<batchVars, saved>>
    BY <1>5 DEF PrintEntry
  <2>2. reported[Len(printed) + 1] \in SUBSET (1..Len(fileList))
    BY <1>1, <2>1, ElementOfSeq
  <2>3. /\ Len(printed') = Len(printed) + 1
        /\ \A e \in 1..Len(printed) : printed'[e] = printed[e]
        /\ printed'[Len(printed) + 1] = reported[Len(printed) + 1]
    BY <1>1, <2>1, <2>2, AppendProperties
  <2> QED
    BY <1>1, <2>1, <2>3 DEF PrintInv, batchVars, BeforeOpen
<1>6. CASE EndOfResults
  <2>1. /\ pc = "print" /\ pc' \in {"save", "success"} /\ Len(printed) = Len(reported)
        /\ UNCHANGED <<batchVars, outVars>>
    BY <1>6 DEF EndOfResults, Goes
  <2> QED
    BY <1>1, <2>1 DEF PrintInv, batchVars, outVars, BeforeOpen
<1>7. CASE SaveResults
  <2>1. /\ pc = "save" /\ pc' = "success" /\ UNCHANGED <<batchVars, printed>>
    BY <1>7 DEF SaveResults, Goes
  <2> QED
    BY <1>1, <2>1 DEF PrintInv, batchVars, BeforeOpen
<1>8. CASE UNCHANGED vars
  BY <1>1, <1>8 DEF PrintInv, vars, batchVars, outVars, BeforeOpen
<1> QED
  BY <1>2, <1>3, <1>4, <1>5, <1>6, <1>7, <1>8 DEF Next, Program, ListingStep

(* Every step keeps the types.                                               *)
LEMMA TypeStep ==
  ASSUME Inv, [Next]_vars
  PROVE  TypeOK'
<1> DEFINE Groups == SUBSET (1..Len(fileList))
<1>1. Batch!TypeOK' /\ args' = args
  BY BatchStep, WhatChanges DEF BatchInv
<1>2. path' \in Paths /\ kind' \in [Names -> Kinds] /\ steady' \in SUBSET Names
  <2>1. path \in Paths /\ kind \in [Names -> Kinds] /\ steady \in SUBSET Names
    BY DEF Inv, TypeOK
  <2>2. CASE \E f \in Names : ChangeEntry(f)
    BY <2>1, <2>2 DEF ChangeEntry
  <2>3. CASE ChangeDirectory
    BY <2>1, <2>3 DEF ChangeDirectory
  <2>4. CASE UNCHANGED <<path, kind, steady>>
    BY <2>1, <2>4
  <2> QED
    BY <2>2, <2>3, <2>4
    DEF Next, Program, vars, diskVars, CheckArguments, BadNumber, IsDirectory, OpenDirectory,
        ReadEntry, StatEntry, EndOfDirectory, ReadError, ChooseMode, MergeFile, MergeGroup,
        ModeAborts, DivideByZero, ModeReturns, PrintEntry, EndOfResults, SaveResults
<1>3. unread' \in SUBSET Names
  <2>1. unread \in SUBSET Names
    BY DEF Inv, TypeOK
  <2>2. CASE (\E f \in Names : ChangeEntry(f)) \/ OpenDirectory \/ ReadEntry
    BY <2>1, <2>2 DEF ChangeEntry, OpenDirectory, ReadEntry
  <2>3. CASE unread' = unread
    BY <2>1, <2>3
  <2> QED
    BY <2>2, <2>3
    DEF Next, Program, vars, listVars, CheckArguments, BadNumber, IsDirectory, StatEntry,
        EndOfDirectory, ReadError, ChooseMode, MergeFile, MergeGroup, ModeAborts, DivideByZero,
        ModeReturns, PrintEntry, EndOfResults, SaveResults, ChangeDirectory
<1>4. strayed' \in SUBSET Names /\ cut' \in BOOLEAN
  <2>1. strayed \in SUBSET Names /\ cut \in BOOLEAN /\ (pc = "stat" => entry \in Names)
    BY DEF Inv, TypeOK, ListInv
  <2>2. CASE StatEntry
    BY <2>1, <2>2 DEF StatEntry, Goes
  <2>3. CASE ReadError
    BY <2>1, <2>3 DEF ReadError
  <2>4. CASE UNCHANGED <<strayed, cut>>
    BY <2>1, <2>4
  <2> QED
    BY <2>2, <2>3, <2>4
    DEF Next, Program, vars, listVars, CheckArguments, BadNumber, IsDirectory, OpenDirectory,
        ReadEntry, EndOfDirectory, ReadError, ChooseMode, MergeFile, MergeGroup, ModeAborts,
        DivideByZero, ModeReturns, PrintEntry, EndOfResults, SaveResults, ChangeDirectory, ChangeEntry
<1>5. fileList' \in Seq(Names)
  BY StatLists, WhatChanges DEF Inv, TypeOK
<1>6. returned' <=> pc' \in {"print", "save", "success"}
  <2>1. returned <=> pc \in {"print", "save", "success"}
    BY DEF Inv, TypeOK
  <2>2. CASE MergeFile \/ MergeGroup
    BY <2>1, <2>2 DEF MergeFile, MergeGroup, Batch!Report, Batch!Drop
  <2>3. CASE ModeReturns
    BY <2>3 DEF ModeReturns, Batch!Return
  <2>4. CASE ~MergeFile /\ ~MergeGroup /\ ~ModeReturns
    BY <2>1, <2>4
    DEF Next, Program, vars, batchVars, Goes, CheckArguments, BadNumber, IsDirectory,
        OpenDirectory, ReadEntry, StatEntry, EndOfDirectory, ReadError, ChooseMode, ModeAborts,
        DivideByZero, PrintEntry, EndOfResults, SaveResults, ChangeDirectory, ChangeEntry
  <2> QED
    BY <2>2, <2>3, <2>4
<1>7. printed' \in Seq(Groups') /\ saved' \in Seq(Groups')
  <2>1. /\ reported \in Seq(Groups) /\ Len(reported) \in Nat
        /\ printed \in Seq(Groups) /\ Len(printed) \in Nat /\ saved \in Seq(Groups)
    BY LenProperties DEF Inv, TypeOK, Batch!TypeOK
  <2>2. CASE StatEntry
    <3>1. printed' = <<>> /\ saved' = <<>>
      BY <2>2 DEF StatEntry, Goes, outVars, Inv, PrintInv
    <3> QED
      BY <3>1, EmptySeq
  <2>3. CASE fileList' = fileList
    <3> HIDE DEF Groups
    <3>1. Groups' = Groups
      BY <2>3 DEF Groups
    <3>2. CASE PrintEntry
      <4>1. printed' = Append(printed, reported[Len(printed) + 1]) /\ saved' = saved
        BY <3>2 DEF PrintEntry
      <4>2. reported[Len(printed) + 1] \in Groups
        BY <2>1, <3>2, ElementOfSeq DEF PrintEntry
      <4> QED
        BY <2>1, <3>1, <4>1, <4>2, AppendProperties
    <3>3. CASE SaveResults
      <4>1. printed' = printed
        BY <3>3 DEF SaveResults
      <4>2. saved' = saved \/ \E k \in 0..Len(reported) : saved' = SubSeq(reported, 1, k)
        BY <3>3 DEF SaveResults
      <4>3. \A k \in 0..Len(reported) : SubSeq(reported, 1, k) \in Seq(Groups)
        <5> SUFFICES ASSUME NEW k \in 0..Len(reported) PROVE SubSeq(reported, 1, k) \in Seq(Groups)
          OBVIOUS
        <5>1. \A e \in 1..k : reported[e] \in Groups
          BY <2>1, ElementOfSeq
        <5> QED
          BY <2>1, <5>1, SubSeqProperties
      <4> QED
        BY <2>1, <3>1, <4>1, <4>2, <4>3
    <3>4. CASE printed' = printed /\ saved' = saved
      BY <2>1, <3>1, <3>4
    <3> QED
      BY <3>2, <3>3, <3>4, WhatChanges
  <2> QED
    BY <2>2, <2>3, WhatChanges
<1> QED
  BY <1>1, <1>2, <1>3, <1>4, <1>5, <1>6, <1>7 DEF Inv, TypeOK

-------------------------------------------------------------------------------
(* Inv is inductive: it holds in every state of a run.                         *)
THEOREM RunInvariant == Spec => []Inv
<1>1. Init => Inv
  <2> SUFFICES ASSUME Init PROVE Inv
    OBVIOUS
  <2>1. /\ fileList = <<>> /\ fileList \in Seq(Names) /\ Len(fileList) = 0
        /\ printed = <<>> /\ Len(printed) = 0 /\ reported = <<>> /\ Len(reported) = 0
        /\ saved = <<>> /\ printed \in Seq(SUBSET (1..Len(fileList)))
    BY EmptySeq DEF Init
  <2>2. BatchInv
    BY <2>1, EmptyReport DEF Init
  <2>3. TypeOK
    <3>1. args \in [mode : {"thread", "process", "other"}, threads : Threads]
      BY DEF Init
    <3>2. path \in Paths /\ kind \in [Names -> Kinds] /\ steady \in SUBSET Names
          /\ strayed \in SUBSET Names /\ cut \in BOOLEAN
          /\ unread \in SUBSET Names /\ (returned <=> pc \in {"print", "save", "success"})
      BY DEF Init, Paths
    <3> QED
      BY <2>1, <2>2, <3>1, <3>2 DEF TypeOK, BatchInv
  <2>4. ListInv /\ PrintInv
    BY <2>1 DEF Init, ListInv, PrintInv, BeforeOpen
  <2> QED
    BY <2>2, <2>3, <2>4 DEF Inv
<1>2. Inv /\ [Next]_vars => Inv'
  BY BatchStep, ListStep, PrintStep, TypeStep DEF Inv
<1> QED
  BY <1>1, <1>2, PTL DEF Spec

(* Each variable has its type; in particular the report, what is printed and *)
(* what is saved are groups of files of the list.                            *)
THEOREM TypeCorrect == Spec => []TypeOK
BY RunInvariant, PTL DEF Inv

(* However the directory and its path change while it is read, each regular  *)
(* file that stays and is found is in fileList exactly once, and nothing else*)
(* that stays is, and none is there twice.                                   *)
THEOREM SteadyFilesListedOnceHolds == Spec => []SteadyFilesListedOnce
<1>1. Inv => SteadyFilesListedOnce
  <2> SUFFICES ASSUME Inv, pc \in {"mode", "print", "save", "success"}, NEW f \in steady
               PROVE  /\ Cardinality(Listed(f)) <= 1
                      /\ f \notin strayed /\ ~(cut /\ f \in unread) =>
                           Cardinality(Listed(f)) = IF kind[f] = "file" THEN 1 ELSE 0
    BY DEF SteadyFilesListedOnce, Listed
  <2>1. /\ Listed(f) = {} \/ Once(f)
        /\ f \notin strayed /\ ~(cut /\ f \in unread) =>
             IF kind[f] = "file" THEN Once(f) ELSE Listed(f) = {}
    BY DEF Inv, ListInv, BeforeOpen, Right
  <2>2. Once(f) => Cardinality(Listed(f)) = 1
    BY FS_Singleton DEF Once
  <2>3. Listed(f) = {} => Cardinality(Listed(f)) = 0
    BY FS_EmptySet
  <2> QED
    BY <2>1, <2>2, <2>3
<1> QED
  BY <1>1, RunInvariant, PTL

(* Exit status 0 means that each listed file is in exactly one of the        *)
(* printed entries, or that the process of its group failed.                 *)
THEOREM SuccessIsCompleteReportHolds == Spec => []SuccessIsCompleteReport
<1>1. Inv => SuccessIsCompleteReport
  <2> SUFFICES ASSUME Inv, pc = "success" PROVE SuccessIsCompleteReport
    BY DEF SuccessIsCompleteReport
  <2>1. /\ DOMAIN fileList = 1..Len(fileList) /\ Len(reported) \in Nat
        /\ DOMAIN printed = 1..Len(reported) /\ \A e \in DOMAIN printed : printed[e] = reported[e]
    BY LenProperties DEF Inv, TypeOK, Batch!TypeOK, PrintInv
  <2>2. /\ Batch!InReport \cup dropped = 1..Len(fileList) /\ Batch!InReport \cap dropped = {}
        /\ Batch!GroupsAscend /\ reported \in Seq(SUBSET (1..Len(fileList)))
    BY DEF Inv, BatchInv, Batch!EveryFileOnce, Batch!TypeOK, TypeOK
  <2>3. ASSUME NEW k \in DOMAIN fileList
        PROVE  Cardinality({e \in DOMAIN printed : k \in printed[e]}) = IF k \in dropped THEN 0 ELSE 1
    <3> DEFINE E == {e \in DOMAIN printed : k \in printed[e]}
    <3>1. k \in Nat /\ \A e, d \in E : ~(e < d)
      BY <2>1, <2>2, <2>3 DEF Batch!GroupsAscend
    <3>2. CASE k \in dropped
      <4>1. E = {}
        BY <2>1, <2>2, <3>2 DEF Batch!InReport
      <4> QED
        BY <3>2, <4>1, FS_EmptySet
    <3>3. CASE k \notin dropped
      <4>1. PICK e \in 1..Len(reported) : k \in reported[e]
        BY <2>1, <2>2, <2>3, <3>3 DEF Batch!InReport
      <4>2. \A d \in E : d = e
        BY <2>1, <3>1, <4>1
      <4>3. E = {e}
        BY <2>1, <4>1, <4>2
      <4> QED
        BY <3>3, <4>3, FS_Singleton
    <3> QED
      BY <3>2, <3>3
  <2>4. args.mode = "thread" => dropped = {}
    BY DEF Inv, PrintInv
  <2> QED
    BY <2>3, <2>4 DEF SuccessIsCompleteReport
<1> QED
  BY <1>1, RunInvariant, PTL
================================================================================
