------------------------------ MODULE ProcessFile ------------------------------
(***************************************************************************)
(* FileProcessor::processFile (mynewcode/file_processor.cpp): the loop of  *)
(* getline over the file and of operator>> over each line, one word at a   *)
(* time, with the counters of FileStats. A character is a letter, a blank  *)
(* or the end of a line.                                                   *)
(***************************************************************************)
EXTENDS Naturals, Sequences, FiniteSets, SequencesExt

CONSTANTS Letters, Blank, Newline, MaxLength

ProcessFileAssumption ==
  Blank \notin Letters /\ Newline \notin Letters \cup {Blank} /\ MaxLength \in Nat

Characters == Letters \cup {Blank, Newline}
Contents   == BoundedSeq(Characters, MaxLength)
Words      == BoundedSeq(Letters, MaxLength) \ {<<>>}

VARIABLES
  content,        (* the file                                                *)
  unread,         (* what getline has not read yet                           *)
  line,           (* what operator>> has not read of the current line        *)
  pc,
  lineCount, wordCount, charCount, wordFrequency

counters == <<lineCount, wordCount, charCount, wordFrequency>>
vars     == <<content, unread, line, pc, counters>>

Init ==
  /\ content \in Contents
  /\ unread = content
  /\ line = <<>>
  /\ pc = "getline"
  /\ lineCount = 0 /\ wordCount = 0 /\ charCount = 0
  /\ wordFrequency = [w \in Words |-> 0]

(* s up to its first character in stops. *)
UpTo(s, stops) ==
  LET k == SelectInSeq(s, LAMBDA c : c \in stops) IN IF k = 0 THEN s ELSE SubSeq(s, 1, k - 1)

Without(s, n) == SubSeq(s, n + 1, Len(s))

(* Mutated form: a last line without a newline is not read. *)
MoreLinesTerminated == Newline \in ToSet(unread)

(* getline fails at the end of the file, not on an empty line. *)
MoreLines == unread # <<>>

(* getline takes the newline from the file, and does not put it in line. *)
GetLine ==
  /\ pc = "getline" /\ MoreLines
  /\ LET l == UpTo(unread, {Newline}) IN
       /\ line' = l
       /\ unread' = Without(unread, Len(l) + 1)
       /\ charCount' = charCount + Len(l) + 1
  /\ lineCount' = lineCount + 1
  /\ pc' = "words"
  /\ UNCHANGED <<content, wordCount, wordFrequency>>

EndOfFile ==
  /\ pc = "getline" /\ ~MoreLines
  /\ pc' = "returned"
  /\ UNCHANGED <<content, unread, line, counters>>

SkipBlanks(s) == Without(s, Len(UpTo(s, Letters)))

NextWord ==
  /\ pc = "words" /\ SkipBlanks(line) # <<>>
  /\ LET word == UpTo(SkipBlanks(line), {Blank}) IN
       /\ line' = Without(SkipBlanks(line), Len(word))
       /\ wordFrequency' = [wordFrequency EXCEPT ![word] = @ + 1]
  /\ wordCount' = wordCount + 1
  /\ UNCHANGED <<content, unread, pc, lineCount, charCount>>

NoMoreWords ==
  /\ pc = "words" /\ SkipBlanks(line) = <<>>
  /\ pc' = "getline"
  /\ UNCHANGED <<content, unread, line, counters>>

Returned == pc = "returned" /\ UNCHANGED vars

Next == GetLine \/ EndOfFile \/ NextWord \/ NoMoreWords \/ Returned

Spec == Init /\ [][Next]_vars

-------------------------------------------------------------------------------
(* What the counters ought to be, read off the whole content: the places of   *)
(* its newlines, of the beginnings of its words, and of those of one word.    *)

Newlines == {k \in 1..Len(content) : content[k] = Newline}

Unterminated == content # <<>> /\ content[Len(content)] # Newline

IsLetter(k) == k \in 1..Len(content) /\ content[k] \in Letters

WordStarts == {k \in 1..Len(content) : IsLetter(k) /\ ~IsLetter(k - 1)}

Occurrences(word) ==
  {k \in WordStarts :
     /\ ~IsLetter(k + Len(word))
     /\ k + Len(word) - 1 <= Len(content) /\ SubSeq(content, k, k + Len(word) - 1) = word}

(* The nested loops count what there is: the lines, the last one also when   *)
(* no newline ends it; the characters, and one more for the newline that     *)
(* such a line lacks; the words; and each word as often as it occurs.        *)
CountsAreRight ==
  pc = "returned" =>
    /\ lineCount = Cardinality(Newlines) + (IF Unterminated THEN 1 ELSE 0)
    /\ charCount = Len(content) + (IF Unterminated THEN 1 ELSE 0)
    /\ wordCount = Cardinality(WordStarts)
    /\ \A word \in Words : wordFrequency[word] = Cardinality(Occurrences(word))
================================================================================
