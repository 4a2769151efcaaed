--------------------------- MODULE LogFile_proofs ---------------------------
(***************************************************************************)
(* That both readers of a log on disk give an answer that is complete and   *)
(* accurate whatever the writer does to the files under them, and that a    *)
(* log past its limit has its reason said: for every limit, chunk, interval *)
(* between marks, and however often the file is rotated, fails to be, or    *)
(* the daemon restarts.                                                     *)
(*                                                                         *)
(* The invariant goes from the files to the answers: ShapeInv and BytesInv  *)
(* say which bytes the two files hold; TimeInv and IndexInv what each index *)
(* says of when they came; ReadInv what a reader that has got so far holds. *)
(***************************************************************************)
EXTENDS LogFile, FiniteSetTheorems, SequenceTheorems, WellFoundedInduction, TLAPS

\* What is assumed of the constants, one by one.
LEMMA Constants ==
    /\ MaxSize \in Nat /\ MaxSize > 0 /\ Second \in Nat /\ Second > 0
    /\ MarkEvery \in Nat /\ MarkEvery > 0 /\ MarkEvery % Second = 0
    /\ MaxChunk \in Nat /\ MaxChunk > 0 /\ Attempts \in Nat
    /\ MaxBytes \in Nat /\ MaxTime \in Nat /\ MaxFaults \in Nat
BY LogFileAssumption, WholeSeconds

----------------------------------------------------------------------------
(* Seconds and ticks. *)

\* The second a tick falls in.
LEMMA SecondOf ==
    \A t \in Nat : /\ t \div Second \in Nat
                   /\ (t \div Second) * Second \in Nat
                   /\ (t \div Second) * Second <= t
                   /\ t < (t \div Second) * Second + Second
<1> DEFINE s == Second
<1>1. s \in Nat /\ s > 0
  BY Constants
<1> HIDE DEF s
<1>2. \A t \in Nat : /\ t \div s \in Nat
                     /\ (t \div s) * s \in Nat
                     /\ (t \div s) * s <= t
                     /\ t < (t \div s) * s + s
  BY <1>1
<1> QED
  BY <1>2 DEF s

\* Seconds in ticks, and their order.
LEMMA Seconds ==
    ASSUME NEW a \in Nat, NEW b \in Nat
    PROVE  /\ a * Second \in Nat
           /\ a <= b => a * Second <= b * Second
           /\ a < b => a * Second + Second <= b * Second
           /\ (a + b) * Second = a * Second + b * Second
BY Constants

\* The second before which a tick does not fall.
LEMMA SecondsUpTo ==
    ASSUME NEW a \in Nat, NEW t \in Nat, a * Second <= t
    PROVE  a <= t \div Second
<1>1. SUFFICES ASSUME a > t \div Second PROVE FALSE
  BY SecondOf
<1> DEFINE d == t \div Second
<1>2. d \in Nat /\ t < d * Second + Second
  BY SecondOf
<1>3. d * Second + Second <= a * Second
  BY <1>1, <1>2, Seconds
<1> QED
  BY <1>2, <1>3, Seconds, Constants

\* The window a mark is given is all of the interval between two.
LEMMA Window ==
    /\ MarkEvery \div Second \in Nat
    /\ (MarkEvery \div Second) * Second = MarkEvery
    /\ ~(MarkEvery < Second)
<1> DEFINE s == Second
           m == MarkEvery
<1>1. s \in Nat /\ s > 0 /\ m \in Nat /\ m > 0 /\ m % s = 0
  BY Constants
<1> HIDE DEF s, m
<1>2. m \div s \in Nat /\ (m \div s) * s = m
  BY <1>1
<1>3. ~(m < s)
  BY <1>1
<1> QED
  BY <1>2, <1>3 DEF s, m

----------------------------------------------------------------------------
(* Where an answer begins. *)

\* A set of numbers with everything below them is counted by its largest.
LEMMA InitialSegment ==
    ASSUME NEW k \in Nat, NEW S \in SUBSET (1..k), \A i \in S : \A j \in 1..i : j \in S
    PROVE  Cardinality(S) \in 0..k /\ S = 1..Cardinality(S)
<1> DEFINE out == (1..(k + 1)) \ S
<1>1. k + 1 \in out
  OBVIOUS
<1>2. PICK m \in out : \A j \in out : m <= j
  <2>1. out # {} /\ out \subseteq Nat
    BY <1>1
  <2> HIDE DEF out
  <2>2. \E m \in out : \A j \in out : ~(<<j, m>> \in OpToRel(<, Nat))
    BY ONLY <2>1, WFMin, NatLessThanWellFounded
  <2>3. \A j, m \in Nat : j < m => <<j, m>> \in OpToRel(<, Nat)
    BY DEF OpToRel
  <2>4. \A j, m \in Nat : ~(j < m) => m <= j
    OBVIOUS
  <2> QED
    BY <2>1, <2>2, <2>3, <2>4
<1>3. m \in 1..(k + 1) /\ ~(m \in S)
  BY <1>2
<1>4. ASSUME NEW j \in S PROVE j < m
  <2>1. j \in 1..k
    OBVIOUS
  <2>2. ~(m \in 1..j)
    BY <1>3
  <2> QED
    BY <1>3, <2>1, <2>2
<1>5. ASSUME NEW j \in 1..(m - 1) PROVE j \in S
  <2>1. j \in 1..(k + 1) /\ ~(m <= j)
    BY <1>3
  <2> QED
    BY <1>2, <2>1
<1>6. S = 1..(m - 1)
  <2>1. ASSUME NEW j \in S PROVE j \in 1..(m - 1)
    BY <1>3, <1>4
  <2> QED
    BY <1>5, <2>1
<1>7. Cardinality(1..(m - 1)) = m - 1
  BY <1>3, FS_Interval
<1> QED
  BY <1>3, <1>6, <1>7

Marks == [at : Nat, offset : Nat]

\* The output from since on begins with mark i, which is the last one as old, if since
\* falls into its window; else with the next one; else there is none.
BeginsAt(marks, since, size, off, i) ==
    /\ i \in DOMAIN marks /\ marks[i].at <= since
    /\ \/ since < marks[i].at + MarkEvery \div Second /\ off = marks[i].offset
       \/ since < marks[i].at + MarkEvery \div Second /\ size <= marks[i].offset /\ off = size
       \/ /\ marks[i].at + MarkEvery \div Second <= since
          /\ i < Len(marks) /\ since < marks[i + 1].at
          /\ off = marks[i + 1].offset \/ (size <= marks[i + 1].offset /\ off = size)
       \/ /\ marks[i].at + MarkEvery \div Second <= since
          /\ i = Len(marks) /\ off = size

\* What sinceStart returns: -1 if every mark is newer than what is asked for (or there
\* is none), else an offset in the file that one of the marks gives.
LEMMA SinceFound ==
    ASSUME NEW marks \in Seq(Marks), NEW since \in Nat, NEW size \in Nat
    PROVE  LET off == SinceStart(marks, since, size)
           IN  \/ off = -1 /\ (marks # <<>> => since < marks[1].at)
               \/ off \in 0..size /\ \E i \in DOMAIN marks : BeginsAt(marks, since, size, off, i)
<1>1. DOMAIN marks = 1..Len(marks) /\ Len(marks) \in Nat
  OBVIOUS
<1>2. \A i \in 1..Len(marks) : marks[i].at \in Nat /\ marks[i].offset \in Nat
  <2>1. \A i \in 1..Len(marks) : marks[i] \in Marks
    OBVIOUS
  <2> QED
    BY <2>1 DEF Marks
<1> DEFINE older == {i \in DOMAIN marks : \A j \in 1..i : marks[j].at <= since}
           last == Cardinality(older)
           w == MarkEvery \div Second
           from == IF since < marks[last].at + w \/ MarkEvery < Second
                     THEN marks[last].offset
                     ELSE IF last < Len(marks) THEN marks[last + 1].offset ELSE size
           off == SinceStart(marks, since, size)
<1>3. off = IF older = {} THEN -1 ELSE IF from > size THEN size ELSE from
  BY DEF SinceStart
<1>4. last \in 0..Len(marks) /\ older = 1..last
  <2>1. older \in SUBSET (1..Len(marks))
    BY <1>1
  <2>2. \A i \in older : \A j \in 1..i : j \in older
    <3> TAKE i \in older
    <3> TAKE j \in 1..i
    <3>1. i \in 1..Len(marks) /\ j \in 1..Len(marks)
      BY <1>1
    <3> QED
      BY <1>1, <3>1
  <2> HIDE DEF older
  <2> QED
    BY <1>1, <2>1, <2>2, InitialSegment
<1>5. CASE older = {}
  <2>1. ASSUME marks # <<>> PROVE since < marks[1].at
    <3>1. 1 \in DOMAIN marks
      BY <1>1, <2>1
    <3>2. ~(1 \in older)
      BY <1>5
    <3>3. \E j \in 1..1 : ~(marks[j].at <= since)
      BY <3>1, <3>2
    <3> QED
      BY <1>1, <1>2, <3>1, <3>3
  <2>2. off = -1
    BY <1>3, <1>5
  <2> HIDE DEF off, older
  <2> QED
    BY <2>1, <2>2 DEF off
<1>6. CASE older # {}
  <2>1. last \in 1..Len(marks) /\ last \in older
    <3> HIDE DEF last
    <3> QED
      BY <1>1, <1>4, <1>6
  <2>2. marks[last].at <= since
    BY <1>1, <2>1
  <2>3. ASSUME last < Len(marks) PROVE since < marks[last + 1].at
    <3>1. last + 1 \in 1..Len(marks) /\ ~(last + 1 \in older)
      <4> HIDE DEF last
      <4> QED
        BY <1>1, <1>4, <2>1, <2>3
    <3>2. PICK j \in 1..(last + 1) : ~(marks[j].at <= since)
      BY <1>1, <3>1
    <3>3. ASSUME j \in 1..last PROVE FALSE
      BY <1>1, <2>1, <3>2, <3>3
    <3> HIDE DEF last
    <3>4. j = last + 1
      BY <1>4, <3>2, <3>3
    <3> QED
      BY <1>2, <3>1, <3>2, <3>4
  <2>4. w \in Nat /\ ~(MarkEvery < Second)
    BY Window
  <2>5. off = IF from > size THEN size ELSE from
    BY <1>3, <1>6
  <2>6. from = IF since < marks[last].at + w THEN marks[last].offset
               ELSE IF last < Len(marks) THEN marks[last + 1].offset ELSE size
    BY <2>4
  <2> HIDE DEF older, last, from, off, w
  <2>7. marks[last].at \in Nat /\ marks[last].offset \in Nat
        /\ (last < Len(marks) => marks[last + 1].at \in Nat /\ marks[last + 1].offset \in Nat)
    BY <1>2, <2>1
  <2>8. from \in Nat
    BY <2>1, <2>6, <2>7
  <2>9. off \in 0..size
    BY <2>5, <2>8
  <2>10. BeginsAt(marks, since, size, off, last)
    <3>1. CASE since < marks[last].at + w
      BY <1>1, <2>1, <2>2, <2>5, <2>6, <2>7, <3>1 DEF BeginsAt, w
    <3>2. CASE marks[last].at + w <= since /\ last < Len(marks)
      <4>1. from = marks[last + 1].offset
        BY <2>1, <2>4, <2>6, <2>7, <3>2
      <4> QED
        BY <1>1, <2>1, <2>2, <2>3, <2>5, <2>7, <3>2, <4>1 DEF BeginsAt, w
    <3>3. CASE marks[last].at + w <= since /\ last = Len(marks)
      <4>1. from = size
        BY <2>1, <2>4, <2>6, <2>7, <3>3
      <4> QED
        BY <1>1, <2>1, <2>2, <2>5, <2>7, <3>3, <4>1 DEF BeginsAt, w
    <3> QED
      BY <2>1, <2>4, <2>7, <3>1, <3>2, <3>3
  <2> QED
    BY <1>1, <2>1, <2>9, <2>10 DEF off
<1> QED
  BY <1>5, <1>6

----------------------------------------------------------------------------
(* The inductive invariant. *)

\* How many of the bytes that have arrived are still on their way to the file.
Pending == IF writer = "writing" THEN chunk ELSE 0
Arrived == 1..Len(when)
Emitted == 1..(Len(when) - Pending)

\* Every mark has been made and every index moved with its file.
Timed == "unindexed" \notin odd

FileTypes == [id : Nat, data : Seq(Nat)]
ReaderTypes ==
    [at : {"idle", "stat", "data", "prevIndex", "curIndex", "generation", "check",
           "tailData", "tailGeneration", "since", "tail", "none"},
     since : Nat, before : Nat, data : Seq(Nat), prevMarks : Seq(Marks), curMarks : Seq(Marks),
     unknown : Nat, attempt : Nat, first : SUBSET Nat, turned : BOOLEAN]

Types ==
    /\ now \in Nat /\ when \in Seq(Nat)
    /\ cur \in FileTypes /\ prev \in FileTypes
    /\ curIdx \in Seq(Marks) /\ prevIdx \in Seq(Marks)
    /\ writer \in {"idle", "rotating", "indexing", "opening", "marking", "writing"}
    /\ chunk \in Nat /\ n \in Nat /\ notBefore \in Nat
    /\ marked \in Nat \cup {-1}
    /\ rd \in ReaderTypes

\* What the writer holds open is the file of the path, which is newer than the one kept
\* of it, and at whose end it is.
ShapeInv ==
    /\ There(cur) => cur.id > prev.id
    /\ ~There(cur) => cur.data = <<>>
    /\ open => There(cur) /\ n = Len(cur.data)
    /\ writer \in {"rotating", "marking", "writing"} => open
    /\ writer = "indexing" => ~There(cur)
    /\ writer \in {"indexing", "opening"} => ~open
    /\ writer # "idle" => chunk \in 1..MaxChunk
    /\ Pending <= Len(when)
    /\ rd.before <= cur.id \/ rd.before <= prev.id
    /\ rd.turned => rd.at = "since"

\* The bytes kept are in the order of the stream, those of the older file first, and none
\* of them is still on its way; no more are those that were there for a reader.
Rising(s) == \A i, j \in DOMAIN s : i < j => s[i] < s[j]

BytesInv ==
    /\ Rising(cur.data) /\ Rising(prev.data)
    /\ \A i \in DOMAIN prev.data, j \in DOMAIN cur.data : prev.data[i] < cur.data[j]
    /\ \A i \in DOMAIN prev.data : prev.data[i] \in Emitted
    /\ \A i \in DOMAIN cur.data : cur.data[i] \in Emitted
    /\ \A i \in DOMAIN rd.data : rd.data[i] \in Emitted
    /\ rd.first \subseteq Emitted

\* No byte arrived later than now, and those on their way just now.
TimeInv ==
    /\ \A b \in Arrived : when[b] <= now
    /\ writer = "writing" => \A b \in Arrived \ Emitted : when[b] = now

\* An index of the file with that content, whose bytes arrived at those times: it begins
\* at its beginning; what lies past a mark arrived after it, what lies before it no later
\* than in its second, and what lies before the next mark, or the end, within the interval
\* between two.
Index(marks, data, times) ==
    /\ data # <<>> => marks # <<>>
    /\ marks # <<>> => marks[1].offset = 0
    /\ \A i, j \in DOMAIN marks : i < j => marks[i].at <= marks[j].at
    /\ \A i \in DOMAIN marks, k \in DOMAIN data :
          /\ k > marks[i].offset => times[data[k]] >= marks[i].at * Second
          /\ k <= marks[i].offset => times[data[k]] < marks[i].at * Second + Second
          /\ i = Len(marks) \/ k <= marks[i + 1].offset
                => times[data[k]] < marks[i].at * Second + Second + MarkEvery - 1

\* Each index is of its file, but for the moment between the moves of a file and its
\* index; and the last mark is the one that the writer counts the interval from.
MarksInv ==
    /\ \A i \in DOMAIN curIdx :
          /\ curIdx[i].at * Second <= now
          /\ writer # "indexing" => curIdx[i].offset <= Len(cur.data)
    /\ curIdx # <<>> /\ writer # "indexing" =>
          \A k \in DOMAIN prev.data : when[prev.data[k]] < curIdx[1].at * Second + Second
    /\ marked # -1 => /\ curIdx # <<>> /\ marked <= now
                      /\ curIdx[Len(curIdx)].at = marked \div Second
    /\ writer = "writing" => marked # -1 /\ now - marked < MarkEvery

IndexInv ==
    Timed =>
      /\ Index(curIdx, IF writer = "indexing" THEN prev.data ELSE cur.data, when)
      /\ Index(prevIdx, IF writer = "indexing" THEN <<>> ELSE prev.data, when)
      /\ MarksInv

\* The file at the path is the one the answer was begun with.
Same == There(cur) /\ cur.id = rd.before

\* What was kept when reading began, and still is, is in S.
Have(S) == rd.first \cap Kept \subseteq S

\* What an answer promises of what it holds and of what it does not.
Complete == {b \in rd.first \cap Kept : when[b] >= Since + Second} \subseteq Range(rd.data)
Accurate ==
    \A i \in DOMAIN rd.data :
        /\ i > 1 => rd.data[i - 1] < rd.data[i]
        /\ i > rd.unknown => when[rd.data[i]] > Since - MarkEvery - Second

\* What a reader has in hand at each of its steps.  Of an answer that will be thrown
\* away, because the file was moved in the meantime, nothing is said.
ReadInv ==
    /\ rd.at = "tailGeneration" => Have(Range(rd.data) \cup Range(prev.data))
    /\ rd.at = "tail" => Have(Range(rd.data))
    /\ rd.at \in {"stat", "data", "prevIndex", "curIndex", "generation"} => rd.unknown = 0
    /\ rd.at \in {"prevIndex", "curIndex", "generation"} /\ Same =>
          /\ Len(rd.data) <= Len(cur.data)
          /\ \A i \in DOMAIN rd.data : rd.data[i] = cur.data[i]
          /\ Have(Range(rd.data) \cup Range(prev.data))
    /\ rd.at \in {"curIndex", "generation"} /\ Same => rd.prevMarks = prevIdx
    /\ rd.at = "generation" => rd.prevMarks # <<>> \/ rd.curMarks # <<>>
    /\ rd.at = "generation" /\ Same /\ Timed =>
          /\ \A i \in DOMAIN rd.data : when[rd.data[i]] >= Since + Second
          /\ rd.curMarks # <<>> => rd.curMarks[1].offset = 0
    /\ rd.at = "check" /\ Same /\ Timed => Complete /\ Accurate
    /\ rd.at = "since" /\ ~rd.turned /\ Timed => Complete /\ Accurate

\* A raised limit and a chunk that goes past it have their reason said.
Said == "rotate" \in errs \/ "stale limit" \in odd

LimitInv ==
    /\ notBefore > 0 /\ (writer \in {"indexing", "opening"} => There(cur)) => Said
    /\ writer = "opening" /\ There(cur) => "rotate" \in errs
    /\ writer \in {"marking", "writing"} /\ n + chunk > MaxSize /\ MaxChunk <= MaxSize => Said

IInv == Types /\ ShapeInv /\ BytesInv /\ TimeInv /\ IndexInv /\ ReadInv /\ LimitInv

----------------------------------------------------------------------------
(* Types. *)

\* Empty sequences, a file that is not there and a reader that is not at work have
\* their types.
LEMMA Empties ==
    /\ <<>> \in Seq(Marks) /\ <<>> \in Seq(Nat)
    /\ NoFile \in FileTypes /\ NoReader \in ReaderTypes
<1>1. <<>> \in Seq(Marks) /\ <<>> \in Seq(Nat)
  OBVIOUS
<1> QED
  BY <1>1 DEF NoFile, FileTypes, NoReader, ReaderTypes

\* There is nothing on disk at the beginning.
LEMMA InitIInv == ASSUME Init PROVE IInv
<1> USE DEF Init
<1>1. Types
  BY Empties DEF Types, FileTypes
<1>2. ShapeInv /\ BytesInv /\ TimeInv
  BY DEF ReaderTypes, NoReader, NoFile, ShapeInv, Pending, There, BytesInv, Rising,
         Emitted, TimeInv, Arrived
<1>3. IndexInv
  BY Constants DEF IndexInv, Index, MarksInv, NoFile
<1>4. ReadInv /\ LimitInv
  BY DEF ReadInv, LimitInv, NoReader
<1> QED
  BY <1>1, <1>2, <1>3, <1>4 DEF IInv

\* A file opened is a file.
LEMMA OpenedFile ==
    ASSUME Types, ShapeInv
    PROVE  /\ Opened \in FileTypes
           /\ Opened.id > prev.id /\ There(Opened) /\ Opened.data = cur.data
           /\ There(cur) => Opened = cur
           /\ ~There(cur) => Opened.id > rd.before
<1>1. /\ prev.id \in Nat /\ cur.id \in Nat /\ rd.before \in Nat /\ <<>> \in Seq(Nat)
      /\ cur \in FileTypes
  BY DEF Types, FileTypes, ReaderTypes
<1> QED
  BY <1>1 DEF ShapeInv, Opened, There, FileTypes

\* What follows the first k elements.
LEMMA RestOf ==
    ASSUME NEW s \in Seq(Nat), NEW k \in 0..Len(s)
    PROVE  /\ From(s, k) \in Seq(Nat) /\ Len(From(s, k)) = Len(s) - k
           /\ \A i \in 1..(Len(s) - k) : From(s, k)[i] = s[i + k]
<1>1. k + 1 \in 1..(Len(s) + 1) /\ Len(s) \in (k + 1) - 1 .. Len(s)
  OBVIOUS
<1> QED
  BY <1>1, SubSeqProperties DEF From

\* Every step keeps the types.
LEMMA TypesKept == ASSUME IInv, [Next]_vars PROVE Types'
<1>0. Types /\ ShapeInv
  BY DEF IInv
<1> USE <1>0
<1>a. /\ Len(cur.data) \in Nat /\ Len(when) \in Nat /\ Len(prev.data) \in Nat
      /\ cur.data \in Seq(Nat) /\ prev.data \in Seq(Nat)
  BY DEF Types, FileTypes
<1>b. ASSUME NEW t \in Nat, NEW k \in Nat, Arrive(k, t) PROVE when' \in Seq(Nat)
  <2>1. [i \in 1..k |-> t] \in Seq(Nat)
    OBVIOUS
  <2> QED
    BY <1>b, <2>1 DEF Arrive, Types
<1>1. ASSUME NEW k \in 1..MaxChunk, Emit(k) PROVE Types'
  <2>1. Arrive(k, now) => when' \in Seq(Nat)
    BY <1>b, Constants DEF Types
  <2>2. cur' \in {cur, Opened} /\ cur' \in FileTypes
    BY <1>1, OpenedFile DEF Emit, Types
  <2>3. Len(cur'.data) \in Nat
    BY <1>a, <2>2, OpenedFile
  <2> QED
    BY <1>1, <2>1, <2>2, <2>3, Constants DEF Emit, Types
<1>2. ASSUME RotateData PROVE Types'
  BY <1>2, Empties DEF RotateData, Types
<1>3. ASSUME RotateIndex PROVE Types'
  BY <1>3, Empties DEF RotateIndex, Types
<1>4. ASSUME RotateOpen PROVE Types'
  <2>1. Arrive(chunk, now) => when' \in Seq(Nat)
    BY <1>b DEF Types
  <2>2. cur' \in {cur, Opened} /\ cur' \in FileTypes
    BY <1>4, OpenedFile DEF RotateOpen, Types
  <2>3. Len(cur'.data) \in Nat
    BY <1>a, <2>2, OpenedFile
  <2> QED
    <3>1. ASSUME NEW a \in Nat PROVE a + MaxSize \in Nat
      BY Constants
    <3>2. now' \in Nat /\ prev' \in FileTypes /\ curIdx' \in Seq(Marks) /\ prevIdx' \in Seq(Marks)
          /\ marked' \in Nat \cup {-1} /\ rd' \in ReaderTypes
      BY <1>4 DEF RotateOpen, Types
    <3>3. when' \in Seq(Nat)
      BY <1>4, <2>1 DEF RotateOpen, Types
    <3>4. n' \in Nat /\ chunk' \in Nat
      <4>1. n' \in {n, Len(cur'.data)} /\ chunk' \in {chunk, 0}
        BY <1>4 DEF RotateOpen
      <4> QED
        BY <2>3, <4>1 DEF Types
    <3>6. notBefore' \in {0, notBefore, n' + MaxSize}
      BY <1>4 DEF RotateOpen
    <3>7. notBefore' \in Nat
      <4>1. n' + MaxSize \in Nat /\ notBefore \in Nat
        BY <3>1, <3>4 DEF Types
      <4> QED
        BY <3>6, <4>1
    <3>5. writer' \in {"idle", "marking"}
      BY <1>4 DEF RotateOpen
    <3> QED
      BY <2>2, <3>2, <3>3, <3>4, <3>5, <3>7 DEF Types
<1>5. ASSUME MarkIndex PROVE Types'
  <2>1. PICK t \in now..MaxTime : now' = t /\ Arrive(chunk, t)
           /\ (marked' = marked \/ marked' = t)
           /\ (curIdx' = curIdx \/ curIdx' = Append(curIdx, [at |-> t \div Second, offset |-> n]))
    BY <1>5 DEF MarkIndex
  <2>2. t \in Nat
    BY Constants DEF Types
  <2>3. when' \in Seq(Nat)
    BY <1>b, <2>1, <2>2 DEF Types
  <2>4. [at |-> t \div Second, offset |-> n] \in Marks
    BY <2>2, SecondOf DEF Types, Marks
  <2>5. curIdx' \in Seq(Marks)
    <3>1. curIdx \in Seq(Marks)
      BY DEF Types
    <3>2. Append(curIdx, [at |-> t \div Second, offset |-> n]) \in Seq(Marks)
      BY ONLY <2>4, <3>1, AppendProperties
    <3> QED
      BY <2>1, <3>1, <3>2
  <2> QED
    BY <1>5, <2>1, <2>2, <2>3, <2>5 DEF MarkIndex, Types
<1>6. ASSUME Write PROVE Types'
  <2>1. PICK j \in 0..chunk : n' = n + j
             /\ cur' = [cur EXCEPT !.data = @ \o [i \in 1..j |-> Len(when) - chunk + i]]
    BY <1>6 DEF Write
  <2>2. chunk \in Nat /\ chunk <= Len(when) /\ j \in Nat
    BY <1>6 DEF Write, ShapeInv, Pending, Types
  <2>3. [i \in 1..j |-> Len(when) - chunk + i] \in Seq(Nat)
    BY <1>a, <2>2
  <2>4. cur.data \o [i \in 1..j |-> Len(when) - chunk + i] \in Seq(Nat)
    BY <1>a, <2>3, ConcatProperties
  <2>5. cur' \in FileTypes
    BY <2>1, <2>4 DEF Types, FileTypes
  <2> QED
    BY <1>6, <2>1, <2>2, <2>5 DEF Write, Types
<1>7. ASSUME Restart PROVE Types'
  <2>1. cur' \in FileTypes /\ Len(cur'.data) \in Nat
    BY <1>7, <1>a, OpenedFile DEF Restart
  <2> QED
    BY <1>7, <2>1, Empties DEF Restart, Types
<1>8. ASSUME ReaderOnly, rd' \in ReaderTypes PROVE Types'
  BY <1>8 DEF ReaderOnly, files, sink, Types
<1>9. ASSUME NEW s \in 0..(MaxTime \div Second), BeginSince(s) PROVE Types'
  <2>1. Kept \in SUBSET Nat /\ s \in Nat
    BY RangeOfSeq, <1>a DEF Kept
  <2>2. rd' \in ReaderTypes
    BY <1>9, <2>1, Empties DEF BeginSince, ReaderTypes
  <2> QED
    BY <1>8, <1>9, <2>2 DEF BeginSince
<1>10. ASSUME BeginTail PROVE Types'
  <2>1. Kept \in SUBSET Nat
    BY RangeOfSeq, <1>a DEF Kept
  <2>2. rd' \in ReaderTypes
    BY <1>10, <2>1, Empties DEF BeginTail, ReaderTypes
  <2> QED
    BY <1>8, <1>10, <2>2 DEF BeginTail
<1>11. ASSUME Stat \/ ReadData \/ ReadPrevIndex \/ TailData \/ TailGeneration \/ Check \/ Finish
       PROVE  Types'
  <2>1. [NoReader EXCEPT !.at = "none"] \in ReaderTypes /\ NoReader \in ReaderTypes
    BY Empties DEF ReaderTypes
  <2>2. cur.id \in Nat /\ rd.data \in Seq(Nat)
    BY DEF Types, FileTypes, ReaderTypes
  <2>3. prev.data \o rd.data \in Seq(Nat)
    BY <1>a, <2>2, ConcatProperties
  <2>4. CASE Stat
    BY <1>8, <2>1, <2>2, <2>4 DEF Stat, ReaderTypes, Types
  <2>5. CASE ReadData
    BY <1>8, <1>a, <2>1, <2>5 DEF ReadData, ReaderTypes, Types
  <2>6. CASE ReadPrevIndex
    BY <1>8, <2>6 DEF ReadPrevIndex, ReaderTypes, Types
  <2>7. CASE TailData
    BY <1>8, <1>a, <2>1, <2>7 DEF TailData, ReaderTypes, Types
  <2>8. CASE TailGeneration
    BY <1>8, <2>3, <2>8 DEF TailGeneration, ReaderTypes, Types
  <2>9. CASE Check
    <3> DEFINE forget == [rd EXCEPT !.before = 0, !.prevMarks = <<>>, !.curMarks = <<>>]
    <3>1. forget \in ReaderTypes /\ rd.attempt \in Nat
      BY Empties DEF ReaderTypes, Types
    <3>2. PICK same \in BOOLEAN :
             \/ rd' = [forget EXCEPT !.at = "since", !.turned = same]
             \/ rd' = [forget EXCEPT !.at = "stat", !.data = <<>>, !.unknown = 0, !.attempt = @ + 1]
      BY <2>9 DEF Check
    <3> HIDE DEF forget
    <3>3. CASE rd' = [forget EXCEPT !.at = "since", !.turned = same]
      BY <1>8, <2>9, <3>1, <3>2, <3>3 DEF Check, ReaderTypes
    <3>4. CASE rd' = [forget EXCEPT !.at = "stat", !.data = <<>>, !.unknown = 0, !.attempt = @ + 1]
      <4>1. rd' \in ReaderTypes
        <5>1. forget.attempt = rd.attempt
          BY DEF forget, ReaderTypes, Types
        <5> QED
          <6>1. forget.attempt + 1 \in Nat
            BY <3>1, <5>1
          <6> QED
            BY <3>1, <3>4, <6>1, Empties DEF ReaderTypes
      <4> QED
        BY <1>8, <2>9, <4>1 DEF Check
    <3> QED
      BY <3>2, <3>3, <3>4
  <2>10. CASE Finish
    BY <1>8, <2>1, <2>10 DEF Finish
  <2> QED
    BY <1>11, <2>4, <2>5, <2>6, <2>7, <2>8, <2>9, <2>10
<1>12. ASSUME ReadCurIndex PROVE Types'
  <2> DEFINE off == SinceStart(curIdx, rd.since, Len(rd.data))
  <2>1. curIdx \in Seq(Marks) /\ rd.since \in Nat /\ rd.data \in Seq(Nat) /\ Len(rd.data) \in Nat
    BY DEF Types, ReaderTypes
  <2>2. off # -1 => From(rd.data, off) \in Seq(Nat)
    BY <2>1, SinceFound, RestOf
  <2>3. [NoReader EXCEPT !.at = "none"] \in ReaderTypes
    BY Empties DEF ReaderTypes
  <2> HIDE DEF off
  <2>4. rd' \in ReaderTypes
    BY <1>12, <2>1, <2>2, <2>3 DEF ReadCurIndex, ReaderTypes, Types, off
  <2> QED
    BY <1>8, <1>12, <2>4 DEF ReadCurIndex
<1>13. ASSUME ReadGeneration PROVE Types'
  <2> DEFINE off == SinceStart(rd.prevMarks, rd.since, Len(prev.data))
             begins == IF off # -1 THEN From(prev.data, off) ELSE prev.data
  <2>1. rd.prevMarks \in Seq(Marks) /\ rd.since \in Nat /\ rd.data \in Seq(Nat)
    BY DEF Types, ReaderTypes
  <2>2. begins \in Seq(Nat)
    BY <1>a, <2>1, SinceFound, RestOf
  <2>3. begins \o rd.data \in Seq(Nat)
    BY <2>1, <2>2, ConcatProperties
  <2> DEFINE untimed == IF rd.prevMarks # <<>> THEN rd.prevMarks[1].offset
                        ELSE IF prev.data # <<>> THEN Len(prev.data) ELSE rd.curMarks[1].offset
  <2>4. untimed \in Nat
    <3>1. rd.prevMarks # <<>> \/ rd.curMarks # <<>>
      BY <1>13 DEF IInv, ReadInv, ReadGeneration
    <3>2. rd.curMarks \in Seq(Marks)
      BY DEF Types, ReaderTypes
    <3>3. ASSUME NEW m \in Seq(Marks), m # <<>> PROVE m[1].offset \in Nat
      <4>1. m[1] \in Marks
        BY <3>3
      <4> QED
        BY <4>1 DEF Marks
    <3> QED
      BY <1>a, <2>1, <3>1, <3>2, <3>3
  <2>5. /\ rd' = [rd EXCEPT !.at = "check", !.data = begins \o @,
                             !.unknown = IF off # -1 THEN 0 ELSE untimed]
        /\ ReaderOnly
    BY <1>13 DEF ReadGeneration
  <2> HIDE DEF off, begins, untimed
  <2>6. rd' \in ReaderTypes
    BY <2>3, <2>4, <2>5 DEF ReaderTypes, Types
  <2> QED
    BY <1>8, <2>5, <2>6
<1>14. CASE UNCHANGED vars
  BY <1>14 DEF vars, files, sink, Types
<1> QED
  BY <1>1, <1>2, <1>3, <1>4, <1>5, <1>6, <1>7, <1>9, <1>10, <1>11, <1>12, <1>13, <1>14 DEF Next

\* What becomes of the reader in each of its steps.
Ended ==
    /\ rd'.at \in {"none", "idle"} /\ rd'.before = 0 /\ rd'.data = <<>> /\ rd'.first = {}
    /\ ~rd'.turned /\ rd'.unknown = 0
Begun == rd'.before = 0 /\ rd'.data = <<>> /\ rd'.first = Kept /\ rd'.unknown = 0
Goes(at) == rd'.at = at /\ rd'.since = rd.since /\ rd'.first = rd.first /\ ~rd'.turned

\* What each step of a reader does to what it has in hand.
LEMMA ReaderSteps ==
    ASSUME Types, ~rd.turned \/ rd.at = "since"
    PROVE  /\ \A s : BeginSince(s) => rd'.at = "stat" /\ rd'.since = s /\ Begun /\ ~rd'.turned
           /\ BeginTail => rd'.at = "tailData" /\ Begun /\ ~rd'.turned
           /\ Finish => Ended
           /\ Stat =>
                \/ Ended
                \/ /\ Goes("data") /\ rd'.before = cur.id
                   /\ rd'.data = rd.data /\ rd'.unknown = rd.unknown
           /\ ReadData =>
                \/ Ended
                \/ /\ Goes("prevIndex") /\ rd'.before = rd.before
                   /\ rd'.data = cur.data /\ rd'.unknown = rd.unknown
           /\ ReadPrevIndex =>
                /\ Goes("curIndex") /\ rd'.before = rd.before /\ rd'.data = rd.data
                /\ rd'.unknown = rd.unknown /\ rd'.prevMarks = prevIdx
           /\ ReadCurIndex =>
                LET off == SinceStart(curIdx, rd.since, Len(rd.data))
                IN  \/ Ended
                    \/ /\ off # -1 /\ Goes("check") /\ rd'.before = rd.before
                       /\ rd'.data = From(rd.data, off) /\ rd'.unknown = rd.unknown
                    \/ /\ off = -1 /\ Goes("generation") /\ rd'.before = rd.before
                       /\ rd'.data = rd.data /\ rd'.unknown = rd.unknown
                       /\ rd'.prevMarks = rd.prevMarks /\ rd'.curMarks = curIdx
                       /\ rd.prevMarks # <<>> \/ curIdx # <<>>
           /\ ReadGeneration =>
                LET off == SinceStart(rd.prevMarks, rd.since, Len(prev.data))
                IN  /\ Goes("check") /\ rd'.before = rd.before
                    /\ \/ /\ off # -1 /\ rd'.unknown = 0
                          /\ rd'.data = From(prev.data, off) \o rd.data
                       \/ /\ off = -1 /\ rd'.data = prev.data \o rd.data
                          /\ rd'.unknown =
                                IF rd.prevMarks # <<>> THEN rd.prevMarks[1].offset
                                ELSE IF prev.data # <<>> THEN Len(prev.data)
                                ELSE rd.curMarks[1].offset
           /\ Check =>
                \/ /\ rd'.at = "since" /\ rd'.since = rd.since /\ rd'.first = rd.first
                   /\ rd'.before = 0 /\ rd'.data = rd.data /\ rd'.unknown = rd.unknown
                   /\ rd'.turned = ~Same
                \/ /\ Goes("stat") /\ rd'.before = 0 /\ rd'.data = <<>> /\ rd'.unknown = 0
           /\ TailData =>
                \/ Ended
                \/ Goes("tailGeneration") /\ rd'.before = rd.before /\ rd'.data = cur.data
           /\ TailGeneration =>
                Goes("tail") /\ rd'.before = rd.before /\ rd'.data = prev.data \o rd.data
<1>0. rd \in ReaderTypes
  BY DEF Types
<1>e. [NoReader EXCEPT !.at = "none"].at = "none" /\ [NoReader EXCEPT !.at = "none"].before = 0
      /\ [NoReader EXCEPT !.at = "none"].data = <<>> /\ [NoReader EXCEPT !.at = "none"].first = {}
      /\ ~[NoReader EXCEPT !.at = "none"].turned /\ [NoReader EXCEPT !.at = "none"].unknown = 0
  BY DEF NoReader
<1>1. ASSUME NEW s, BeginSince(s)
      PROVE  rd'.at = "stat" /\ rd'.since = s /\ Begun /\ ~rd'.turned
  BY <1>1 DEF BeginSince, NoReader, Begun
<1>2. BeginTail => rd'.at = "tailData" /\ Begun /\ ~rd'.turned
  BY DEF BeginTail, NoReader, Begun
<1>3. Finish => Ended
  BY DEF Finish, NoReader, Ended
<1>4. Stat =>
        \/ Ended
        \/ /\ Goes("data") /\ rd'.before = cur.id
           /\ rd'.data = rd.data /\ rd'.unknown = rd.unknown
  BY <1>0, <1>e DEF Stat, Ended, Goes, ReaderTypes
<1>5. ReadData =>
        \/ Ended
        \/ /\ Goes("prevIndex") /\ rd'.before = rd.before
           /\ rd'.data = cur.data /\ rd'.unknown = rd.unknown
  BY <1>0, <1>e DEF ReadData, Ended, Goes, ReaderTypes
<1>6. ReadPrevIndex =>
        /\ Goes("curIndex") /\ rd'.before = rd.before /\ rd'.data = rd.data
        /\ rd'.unknown = rd.unknown /\ rd'.prevMarks = prevIdx
  BY <1>0 DEF ReadPrevIndex, Goes, ReaderTypes
<1>7. ASSUME ReadCurIndex
      PROVE  LET off == SinceStart(curIdx, rd.since, Len(rd.data))
             IN  \/ Ended
                 \/ /\ off # -1 /\ Goes("check") /\ rd'.before = rd.before
                    /\ rd'.data = From(rd.data, off) /\ rd'.unknown = rd.unknown
                 \/ /\ off = -1 /\ Goes("generation") /\ rd'.before = rd.before
                    /\ rd'.data = rd.data /\ rd'.unknown = rd.unknown
                    /\ rd'.prevMarks = rd.prevMarks /\ rd'.curMarks = curIdx
                    /\ rd.prevMarks # <<>> \/ curIdx # <<>>
  <2> DEFINE off == SinceStart(curIdx, rd.since, Len(rd.data))
  <2>1. rd.at = "curIndex"
        /\ rd' = IF rd.prevMarks = <<>> /\ curIdx = <<>> THEN [NoReader EXCEPT !.at = "none"]
                 ELSE IF off # -1 THEN [rd EXCEPT !.at = "check", !.data = From(@, off)]
                 ELSE [rd EXCEPT !.at = "generation", !.curMarks = curIdx]
    BY <1>7 DEF ReadCurIndex
  <2> HIDE DEF off
  <2>2. CASE rd.prevMarks = <<>> /\ curIdx = <<>>
    BY <1>e, <2>1, <2>2 DEF Ended
  <2>3. CASE rd.prevMarks # <<>> \/ curIdx # <<>>
    BY <1>0, <2>1, <2>3 DEF Goes, ReaderTypes, off
  <2> QED
    BY <2>2, <2>3
<1>8. ASSUME ReadGeneration
      PROVE  LET off == SinceStart(rd.prevMarks, rd.since, Len(prev.data))
             IN  /\ Goes("check") /\ rd'.before = rd.before
                 /\ \/ /\ off # -1 /\ rd'.unknown = 0
                       /\ rd'.data = From(prev.data, off) \o rd.data
                    \/ /\ off = -1 /\ rd'.data = prev.data \o rd.data
                       /\ rd'.unknown =
                             IF rd.prevMarks # <<>> THEN rd.prevMarks[1].offset
                             ELSE IF prev.data # <<>> THEN Len(prev.data)
                             ELSE rd.curMarks[1].offset
  <2> DEFINE off == SinceStart(rd.prevMarks, rd.since, Len(prev.data))
             untimed == IF rd.prevMarks # <<>> THEN rd.prevMarks[1].offset
                        ELSE IF prev.data # <<>> THEN Len(prev.data) ELSE rd.curMarks[1].offset
  <2>1. rd.at = "generation"
        /\ rd' = [rd EXCEPT !.at = "check",
                    !.data = (IF off # -1 THEN From(prev.data, off) ELSE prev.data) \o @,
                    !.unknown = IF off # -1 THEN 0 ELSE untimed]
    BY <1>8 DEF ReadGeneration
  <2> HIDE DEF off, untimed
  <2>2. Goes("check") /\ rd'.before = rd.before
    BY <1>0, <2>1 DEF Goes, ReaderTypes
  <2>3. /\ rd'.data = (IF off # -1 THEN From(prev.data, off) ELSE prev.data) \o rd.data
        /\ rd'.unknown = IF off # -1 THEN 0 ELSE untimed
    BY <1>0, <2>1 DEF ReaderTypes
  <2> QED
    BY <2>2, <2>3 DEF off, untimed
<1>9. ASSUME Check
      PROVE  \/ /\ rd'.at = "since" /\ rd'.since = rd.since /\ rd'.first = rd.first
                /\ rd'.before = 0 /\ rd'.data = rd.data /\ rd'.unknown = rd.unknown
                /\ rd'.turned = ~Same
             \/ /\ Goes("stat") /\ rd'.before = 0 /\ rd'.data = <<>> /\ rd'.unknown = 0
  <2> DEFINE forget == [rd EXCEPT !.before = 0, !.prevMarks = <<>>, !.curMarks = <<>>]
  <2>1. /\ forget.since = rd.since /\ forget.first = rd.first /\ forget.before = 0
        /\ forget.data = rd.data /\ forget.unknown = rd.unknown /\ forget.turned = rd.turned
        /\ forget \in ReaderTypes
    BY <1>0, Empties DEF ReaderTypes
  <2>2. rd.at = "check"
        /\ \/ rd' = [forget EXCEPT !.at = "since", !.turned = ~Same]
           \/ rd' = [forget EXCEPT !.at = "stat", !.data = <<>>, !.unknown = 0, !.attempt = @ + 1]
    BY <1>9 DEF Check, Same
  <2> HIDE DEF forget
  <2>3. CASE rd' = [forget EXCEPT !.at = "since", !.turned = ~Same]
    BY <2>1, <2>3 DEF ReaderTypes
  <2>4. CASE rd' = [forget EXCEPT !.at = "stat", !.data = <<>>, !.unknown = 0, !.attempt = @ + 1]
    BY <2>1, <2>2, <2>4 DEF ReaderTypes, Goes
  <2> QED
    BY <2>2, <2>3, <2>4
<1>10. TailData =>
         \/ Ended
         \/ Goes("tailGeneration") /\ rd'.before = rd.before /\ rd'.data = cur.data
  BY <1>0, <1>e DEF TailData, Ended, Goes, ReaderTypes
<1>11. TailGeneration =>
         Goes("tail") /\ rd'.before = rd.before /\ rd'.data = prev.data \o rd.data
  BY <1>0 DEF TailGeneration, Goes, ReaderTypes
<1> QED
  BY <1>1, <1>2, <1>3, <1>4, <1>5, <1>6, <1>7, <1>8, <1>9, <1>10, <1>11

----------------------------------------------------------------------------
(* Files and bytes. *)

\* What a step may do to the file and to the one kept of it.
LEMMA ShapeKept == ASSUME IInv, [Next]_vars PROVE ShapeInv'
<1>0. Types /\ ShapeInv
  BY DEF IInv
<1> USE <1>0
<1>a. /\ Len(cur.data) \in Nat /\ Len(when) \in Nat /\ cur.id \in Nat /\ prev.id \in Nat
      /\ chunk \in Nat /\ rd.before \in Nat
  BY DEF Types, FileTypes, ReaderTypes
<1>b. ASSUME NEW t \in Nat, NEW k \in Nat, Arrive(k, t) PROVE Len(when') = Len(when) + k
  <2>1. [i \in 1..k |-> t] \in Seq(Nat) /\ Len([i \in 1..k |-> t]) = k
    OBVIOUS
  <2> QED
    BY <1>b, <2>1, ConcatProperties DEF Arrive, Types
<1>1. ASSUME NEW k \in 1..MaxChunk, Emit(k) PROVE ShapeInv'
  <2>1. k \in Nat /\ now \in Nat
    BY Constants DEF Types
  <2>2. writer = "idle" /\ Pending = 0 /\ prev' = prev /\ rd' = rd
    BY <1>1 DEF Emit, Pending
  <2>3. CASE open' = open
    BY <1>1, <1>a, <1>b, <2>1, <2>2, <2>3 DEF Emit, ShapeInv, Pending, There
  <2>4. CASE ~open /\ open' /\ cur' = Opened
    <3>1. n' = Len(cur'.data) /\ chunk' = k /\ writer' \in {"rotating", "marking"} /\ when' = when
      BY <1>1, <2>4 DEF Emit
    <3> QED
      BY <1>a, <2>1, <2>2, <2>4, <3>1, OpenedFile DEF ShapeInv, Pending, There
  <2> QED
    BY <1>1, <2>3, <2>4 DEF Emit
<1>2. ASSUME RotateData PROVE ShapeInv'
  BY <1>2, <1>a DEF RotateData, ShapeInv, Pending, There, NoFile
<1>3. ASSUME RotateIndex PROVE ShapeInv'
  BY <1>3, <1>a DEF RotateIndex, ShapeInv, Pending, There
<1>4. ASSUME RotateOpen PROVE ShapeInv'
  <2>1. now \in Nat
    BY DEF Types
  <2>2. writer = "opening" /\ Pending = 0 /\ prev' = prev /\ rd' = rd /\ Pending' = 0 /\ ~open
    BY <1>4 DEF RotateOpen, Pending, ShapeInv
  <2>3. CASE writer' = "idle" /\ Arrive(chunk, now) /\ cur' = cur /\ open' = open
    BY <1>a, <1>b, <2>1, <2>2, <2>3 DEF ShapeInv, There
  <2>4. CASE writer' = "marking" /\ cur' = Opened
    <3>1. n' = Len(cur'.data) /\ chunk' = chunk /\ when' = when /\ open'
      BY <1>4, <2>4 DEF RotateOpen
    <3> QED
      BY <1>a, <2>1, <2>2, <2>4, <3>1, OpenedFile DEF ShapeInv, There
  <2> QED
    BY <1>4, <2>3, <2>4 DEF RotateOpen
<1>5. ASSUME MarkIndex PROVE ShapeInv'
  <2>1. PICK t \in now..MaxTime : Arrive(chunk, t)
    BY <1>5 DEF MarkIndex
  <2>2. t \in Nat
    BY Constants DEF Types
  <2>3. Len(when') = Len(when) + chunk
    BY <1>a, <1>b, <2>1, <2>2
  <2> QED
    BY <1>5, <1>a, <2>3 DEF MarkIndex, ShapeInv, Pending, There
<1>6. ASSUME Write PROVE ShapeInv'
  <2>1. PICK j \in 0..chunk : n' = n + j
             /\ cur' = [cur EXCEPT !.data = @ \o [i \in 1..j |-> Len(when) - chunk + i]]
    BY <1>6 DEF Write
  <2>2. chunk \in Nat /\ chunk <= Len(when) /\ j \in Nat /\ cur.data \in Seq(Nat)
    BY <1>6 DEF Write, ShapeInv, Pending, Types, FileTypes
  <2>3. [i \in 1..j |-> Len(when) - chunk + i] \in Seq(Nat)
        /\ Len([i \in 1..j |-> Len(when) - chunk + i]) = j
    BY <1>a, <2>2
  <2>4. Len(cur.data \o [i \in 1..j |-> Len(when) - chunk + i]) = Len(cur.data) + j
    BY <2>2, <2>3, ConcatProperties
  <2>5. cur'.id = cur.id /\ Len(cur'.data) = Len(cur.data) + j
    BY <2>1, <2>4 DEF Types, FileTypes
  <2>6. writer = "writing" /\ open /\ There(cur) /\ n = Len(cur.data)
    BY <1>6 DEF Write, ShapeInv
  <2>7. writer' = "idle" /\ open' = open /\ prev' = prev /\ rd' = rd /\ when' = when
    BY <1>6 DEF Write
  <2> QED
    BY <1>a, <2>1, <2>2, <2>5, <2>6, <2>7 DEF ShapeInv, Pending, There
<1>7. ASSUME Restart PROVE ShapeInv'
  BY <1>7, <1>a, OpenedFile DEF Restart, ShapeInv, Pending, There, NoReader
<1>8. ASSUME ReaderOnly, rd'.before \in {0, rd.before, cur.id}, rd'.turned => rd'.at = "since"
      PROVE  ShapeInv'
  BY <1>8, <1>a DEF ReaderOnly, files, sink, ShapeInv, Pending, There
<1>9. ASSUME \/ \E s \in 0..(MaxTime \div Second) : BeginSince(s)
             \/ Stat \/ ReadData \/ ReadPrevIndex \/ ReadCurIndex \/ ReadGeneration \/ Check
             \/ BeginTail \/ TailData \/ TailGeneration \/ Finish
      PROVE  ShapeInv'
  <2>1. ReaderOnly
    BY <1>9 DEF BeginSince, Stat, ReadData, ReadPrevIndex, ReadCurIndex, ReadGeneration, Check,
                BeginTail, TailData, TailGeneration, Finish
  <2>2. ~rd.turned \/ rd.at = "since"
    BY DEF ShapeInv
  <2>3. rd'.before \in {0, rd.before, cur.id}
    BY <1>9, <2>2, ReaderSteps DEF Begun, Ended
  <2>4. rd'.turned => rd'.at = "since"
    BY <1>9, <2>2, ReaderSteps DEF Goes, Ended
  <2> QED
    BY <1>8, <2>1, <2>3, <2>4
<1>10. CASE UNCHANGED vars
  BY <1>10 DEF vars, files, sink, ShapeInv, Pending, There
<1> QED
  BY <1>1, <1>2, <1>3, <1>4, <1>5, <1>6, <1>7, <1>9, <1>10 DEF Next

\* A write puts the bytes that are on their way after those in the file.
LEMMA Written ==
    ASSUME Types, ShapeInv, Write
    PROVE  \E j \in 0..chunk :
             /\ cur'.id = cur.id /\ cur'.data \in Seq(Nat)
             /\ Len(cur'.data) = Len(cur.data) + j
             /\ \A i \in 1..Len(cur.data) : cur'.data[i] = cur.data[i]
             /\ \A i \in (Len(cur.data) + 1)..(Len(cur.data) + j) :
                    cur'.data[i] = Len(when) - chunk + (i - Len(cur.data))
<1>1. PICK j \in 0..chunk :
             cur' = [cur EXCEPT !.data = @ \o [i \in 1..j |-> Len(when) - chunk + i]]
  BY DEF Write
<1>2. /\ chunk \in Nat /\ chunk <= Len(when) /\ j \in Nat /\ cur.data \in Seq(Nat)
      /\ Len(cur.data) \in Nat /\ Len(when) \in Nat
  BY DEF Write, ShapeInv, Pending, Types, FileTypes
<1> DEFINE new == [i \in 1..j |-> Len(when) - chunk + i]
           old == cur.data
           a == Len(cur.data)
<1>3. new \in Seq(Nat) /\ Len(new) = j /\ \A i \in 1..j : new[i] = Len(when) - chunk + i
  BY <1>2
<1>4. cur'.id = cur.id /\ cur'.data = old \o new
  BY <1>1 DEF Types, FileTypes
<1> HIDE DEF new
<1>6. /\ old \o new \in Seq(Nat) /\ Len(old \o new) = a + j
      /\ \A i \in 1..(a + j) : (old \o new)[i] = IF i <= a THEN old[i] ELSE new[i - a]
  BY ONLY <1>2, <1>3, ConcatProperties
<1>7. a \in Nat
  BY <1>2
<1>8. ASSUME NEW i \in 1..a PROVE (old \o new)[i] = old[i]
  <2> HIDE DEF a, old
  <2> QED
    BY <1>2, <1>6, <1>7
<1>9. ASSUME NEW i \in (a + 1)..(a + j) PROVE (old \o new)[i] = Len(when) - chunk + (i - a)
  <2> HIDE DEF a, old
  <2>1. i \in 1..(a + j) /\ ~(i <= a) /\ i - a \in 1..j
    BY <1>2, <1>7
  <2> QED
    BY <1>3, <1>6, <2>1
<1> QED
  BY <1>4, <1>6, <1>8, <1>9

\* The bytes a step adds to when come after the others.
LEMMA ArrivedMore ==
    ASSUME Types, NEW t \in Nat, NEW k \in Nat, Arrive(k, t)
    PROVE  /\ Len(when') = Len(when) + k /\ Len(when) \in Nat
           /\ \A b \in 1..Len(when) : when'[b] = when[b]
           /\ \A b \in (Len(when) + 1)..(Len(when) + k) : when'[b] = t
<1> DEFINE new == [i \in 1..k |-> t]
           a == Len(when)
<1>1. new \in Seq(Nat) /\ Len(new) = k /\ when \in Seq(Nat) /\ a \in Nat
      /\ \A i \in 1..k : new[i] = t
  BY DEF Types
<1>2. when' = when \o new
  BY DEF Arrive
<1> HIDE DEF new
<1>3. /\ Len(when \o new) = a + k
      /\ \A i \in 1..(a + k) : (when \o new)[i] = IF i <= a THEN when[i] ELSE new[i - a]
  BY ONLY <1>1, ConcatProperties
<1>4. ASSUME NEW b \in 1..a PROVE (when \o new)[b] = when[b]
  <2> HIDE DEF a
  <2> QED
    BY <1>1, <1>3
<1>5. ASSUME NEW b \in (a + 1)..(a + k) PROVE (when \o new)[b] = t
  <2> HIDE DEF a
  <2>1. b \in 1..(a + k) /\ ~(b <= a) /\ b - a \in 1..k
    BY <1>1
  <2> QED
    BY <1>1, <1>3, <2>1
<1> QED
  BY <1>1, <1>2, <1>3, <1>4, <1>5

\* Every step keeps the bytes in order: a write puts those just come at the end, and
\* a rotation puts the file whose bytes came last in the place of the older.
LEMMA BytesKept == ASSUME IInv, [Next]_vars PROVE BytesInv'
<1>0. Types /\ ShapeInv /\ BytesInv
  BY DEF IInv
<1> USE <1>0
<1>a. /\ Len(cur.data) \in Nat /\ Len(when) \in Nat /\ Len(prev.data) \in Nat
      /\ chunk \in Nat /\ rd \in ReaderTypes /\ rd.data \in Seq(Nat)
      /\ cur.data \in Seq(Nat) /\ prev.data \in Seq(Nat) /\ now \in Nat
      /\ Len(rd.data) \in Nat
  BY DEF Types, FileTypes, ReaderTypes
<1>b. ASSUME cur'.data = cur.data, prev'.data = prev.data, rd'.data = rd.data, rd'.first = rd.first,
             Len(when') \in Nat, Len(when) - Pending <= Len(when') - Pending'
      PROVE  BytesInv'
  <2>0. Len(when) - Pending \in Int /\ Len(when') - Pending' \in Int
    <3>1. Pending \in Nat
      BY <1>a DEF Pending
    <3>2. Pending' \in Nat
      BY <1>0, TypesKept DEF Pending, Types
    <3> QED
      BY <1>a, <1>b, <3>1, <3>2
  <2>1. \A b \in Emitted : b \in Emitted'
    BY <1>b, <2>0 DEF Emitted
  <2> QED
    BY <1>b, <2>1 DEF BytesInv, Rising
<1>1. ASSUME NEW k \in 1..MaxChunk, Emit(k) PROVE BytesInv'
  <2>1. k \in Nat /\ Pending = 0 /\ Pending' = 0
    BY <1>1, Constants DEF Emit, Pending
  <2>2. cur'.data = cur.data /\ prev' = prev /\ rd' = rd
    BY <1>1, OpenedFile DEF Emit
  <2>3. when' = when \/ Arrive(k, now)
    BY <1>1 DEF Emit
  <2> QED
    BY <1>a, <1>b, <2>1, <2>2, <2>3, ArrivedMore
<1>2. ASSUME RotateData PROVE BytesInv'
  <2>1. Pending = 0 /\ Pending' = 0 /\ when' = when /\ rd' = rd
    BY <1>2 DEF RotateData, Pending
  <2>2. CASE prev' = cur /\ cur' = NoFile
    BY <2>1, <2>2 DEF BytesInv, Rising, NoFile, Emitted
  <2>3. CASE UNCHANGED <<cur, prev>>
    BY <1>a, <1>b, <2>1, <2>3
  <2> QED
    BY <1>2, <2>2, <2>3 DEF RotateData
<1>3. ASSUME RotateIndex PROVE BytesInv'
  BY <1>3, <1>a, <1>b DEF RotateIndex, Pending
<1>4. ASSUME RotateOpen PROVE BytesInv'
  <2>1. Pending = 0 /\ Pending' = 0
    BY <1>4 DEF RotateOpen, Pending
  <2>2. cur'.data = cur.data /\ prev' = prev /\ rd' = rd
    BY <1>4, OpenedFile DEF RotateOpen
  <2>3. when' = when \/ Arrive(chunk, now)
    BY <1>4 DEF RotateOpen
  <2> QED
    BY <1>a, <1>b, <2>1, <2>2, <2>3, ArrivedMore
<1>5. ASSUME MarkIndex PROVE BytesInv'
  <2>1. PICK t \in now..MaxTime : Arrive(chunk, t)
    BY <1>5 DEF MarkIndex
  <2>2. t \in Nat
    BY <1>a, Constants
  <2>3. Pending = 0 /\ Pending' = chunk
    BY <1>5 DEF MarkIndex, Pending
  <2>4. Len(when') = Len(when) + chunk
    BY <1>a, <2>1, <2>2, ArrivedMore
  <2> QED
    BY <1>5, <1>a, <1>b, <2>3, <2>4 DEF MarkIndex
<1>6. ASSUME Write PROVE BytesInv'
  <2>1. PICK j \in 0..chunk :
             /\ Len(cur'.data) = Len(cur.data) + j /\ cur'.data \in Seq(Nat)
             /\ \A i \in 1..Len(cur.data) : cur'.data[i] = cur.data[i]
             /\ \A i \in (Len(cur.data) + 1)..(Len(cur.data) + j) :
                    cur'.data[i] = Len(when) - chunk + (i - Len(cur.data))
    BY <1>6, Written
  <2>2. /\ Pending = chunk /\ Pending' = 0
        /\ when' = when /\ rd' = rd /\ prev' = prev /\ chunk <= Len(when)
    BY <1>6 DEF Write, Pending, ShapeInv
  <2>3. DOMAIN cur.data = 1..Len(cur.data) /\ DOMAIN cur'.data = 1..(Len(cur.data) + j) /\ j \in Nat
    BY <1>a, <2>1
  <2> DEFINE a == Len(cur.data)
             w == Len(when)
             c == chunk
             old == cur.data
             new == cur'.data
  <2>4. a \in Nat /\ w \in Nat /\ c \in Nat /\ c <= w /\ j \in 0..c
        /\ DOMAIN old = 1..a /\ DOMAIN new = 1..(a + j)
    BY <1>a, <2>2, <2>3
  <2>5. Emitted = 1..(w - c) /\ Emitted' = 1..w
    BY <2>2, <2>4 DEF Emitted
  <2>6. \A i \in 1..a : new[i] = old[i] /\ old[i] \in 1..(w - c)
    BY <2>1, <2>4, <2>5 DEF BytesInv
  <2>7. \A i \in (a + 1)..(a + j) : new[i] = w - c + (i - a)
    BY <2>1
  <2>8. \A i, m \in 1..a : i < m => old[i] < old[m]
    BY <2>4 DEF BytesInv, Rising
  <2>9. \A i \in DOMAIN prev.data :
          prev.data[i] \in 1..(w - c) /\ \A m \in 1..a : prev.data[i] < old[m]
    BY <2>4, <2>5 DEF BytesInv
  <2>10. (\A i \in DOMAIN rd.data : rd.data[i] \in 1..w) /\ rd.first \subseteq 1..w
    <3>1. 1..(w - c) \subseteq 1..w
      BY <2>4
    <3> QED
      BY <2>5, <3>1 DEF BytesInv
  <2> HIDE DEF a, w, c, old, new
  <2>11. \A i \in 1..(a + j) : (i \in 1..a) \/ (i \in (a + 1)..(a + j))
    BY <2>4
  <2>12. \A i \in (a + 1)..(a + j) : new[i] \in (w - c + 1)..w
    BY <2>4, <2>7
  <2>13. \A i \in 1..(a + j) : new[i] \in 1..w
    BY <2>4, <2>6, <2>11, <2>12
  <2>14. \A i, m \in 1..(a + j) : i < m => new[i] < new[m]
    <3> SUFFICES ASSUME NEW i \in 1..(a + j), NEW m \in 1..(a + j), i < m
                 PROVE  new[i] < new[m]
      OBVIOUS
    <3>1. CASE m \in 1..a
      <4>1. i \in 1..a
        BY <2>4, <3>1
      <4> QED
        BY <2>6, <2>8, <3>1, <4>1
    <3>2. CASE m \in (a + 1)..(a + j) /\ i \in 1..a
      BY <2>4, <2>6, <2>12, <3>2
    <3>3. CASE m \in (a + 1)..(a + j) /\ i \in (a + 1)..(a + j)
      <4>1. new[i] = w - c + (i - a) /\ new[m] = w - c + (m - a)
        BY <2>7, <3>3
      <4> QED
        BY <2>4, <3>3, <4>1
    <3> QED
      BY <2>11, <3>1, <3>2, <3>3
  <2>15. \A i \in DOMAIN prev.data, m \in 1..(a + j) : prev.data[i] < new[m]
    <3> SUFFICES ASSUME NEW i \in DOMAIN prev.data, NEW m \in 1..(a + j)
                 PROVE  prev.data[i] < new[m]
      OBVIOUS
    <3>1. CASE m \in 1..a
      BY <2>6, <2>9, <3>1
    <3>2. CASE m \in (a + 1)..(a + j)
      BY <2>4, <2>9, <2>12, <3>2
    <3> QED
      BY <2>11, <3>1, <3>2
  <2>16. \A i \in DOMAIN prev.data : prev.data[i] \in 1..w
    BY <2>4, <2>9
  <2>17. Rising(new) /\ (\A i \in DOMAIN new : new[i] \in 1..w)
         /\ \A i \in DOMAIN prev.data, m \in DOMAIN new : prev.data[i] < new[m]
    BY <2>4, <2>13, <2>14, <2>15 DEF Rising
  <2>18. Rising(prev.data)
    BY DEF BytesInv
  <2> QED
    BY <2>2, <2>5, <2>10, <2>16, <2>17, <2>18 DEF BytesInv, Rising, new
<1>7. ASSUME Restart PROVE BytesInv'
  <2>1. cur'.data = cur.data /\ prev' = prev /\ when' = when /\ rd' = NoReader /\ Pending' = 0
    BY <1>7, OpenedFile DEF Restart, Pending
  <2>2. \A b \in Emitted : b \in Emitted'
    BY <1>a, <2>1 DEF Emitted, Pending
  <2> QED
    BY <2>1, <2>2 DEF BytesInv, Rising, NoReader
<1>8. ASSUME ReaderOnly, \A i \in DOMAIN rd'.data : rd'.data[i] \in Emitted,
             rd'.first \subseteq Emitted
      PROVE  BytesInv'
  <2>1. Emitted' = Emitted
    BY <1>8 DEF ReaderOnly, files, sink, Emitted, Pending
  <2> QED
    BY <1>8, <2>1 DEF ReaderOnly, files, sink, BytesInv, Rising
<1>c. Kept \subseteq Emitted
  BY DEF Kept, Range, BytesInv
<1>d. ASSUME NEW s \in Seq(Nat), \A i \in DOMAIN s : s[i] \in Emitted, NEW k \in 0..Len(s)
      PROVE  From(s, k) \in Seq(Nat) /\ \A i \in DOMAIN From(s, k) : From(s, k)[i] \in Emitted
  <2>1. \A i \in 1..(Len(s) - k) : i + k \in DOMAIN s
    OBVIOUS
  <2>2. From(s, k) \in Seq(Nat) /\ DOMAIN From(s, k) = 1..(Len(s) - k)
        /\ \A i \in 1..(Len(s) - k) : From(s, k)[i] = s[i + k]
    <3>1. From(s, k) \in Seq(Nat) /\ Len(From(s, k)) = Len(s) - k
          /\ \A i \in 1..(Len(s) - k) : From(s, k)[i] = s[i + k]
      BY RestOf
    <3> QED
      BY <3>1
  <2> QED
    BY <1>d, <2>1, <2>2
<1>e. ASSUME NEW s \in Seq(Nat), \A i \in DOMAIN s : s[i] \in Emitted
      PROVE  \A i \in DOMAIN (s \o rd.data) : (s \o rd.data)[i] \in Emitted
  <2> DEFINE r == rd.data
  <2>0. r \in Seq(Nat) /\ Len(r) \in Nat /\ Len(s) \in Nat
        /\ DOMAIN s = 1..Len(s) /\ DOMAIN r = 1..Len(r)
    BY <1>a
  <2>1. DOMAIN (s \o r) = 1..(Len(s) + Len(r))
        /\ \A i \in 1..(Len(s) + Len(r)) : (s \o r)[i] = IF i <= Len(s) THEN s[i] ELSE r[i - Len(s)]
    <3>1. /\ s \o r \in Seq(Nat) /\ Len(s \o r) = Len(s) + Len(r)
          /\ \A i \in 1..(Len(s) + Len(r)) :
                (s \o r)[i] = IF i <= Len(s) THEN s[i] ELSE r[i - Len(s)]
      BY ONLY <2>0, s \in Seq(Nat), ConcatProperties
    <3> QED
      BY <3>1
  <2>2. \A i \in DOMAIN r : r[i] \in Emitted
    BY DEF BytesInv
  <2> HIDE DEF r
  <2> SUFFICES ASSUME NEW i \in 1..(Len(s) + Len(r))
               PROVE  (s \o r)[i] \in Emitted
    BY <2>1 DEF r
  <2>3. CASE i <= Len(s)
    <3>1. i \in DOMAIN s
      BY <2>0, <2>3
    <3> QED
      BY <1>e, <2>1, <2>3, <3>1
  <2>4. CASE i > Len(s)
    <3>1. i - Len(s) \in DOMAIN r /\ ~(i <= Len(s))
      BY <2>0, <2>4
    <3> QED
      BY <2>1, <2>2, <3>1
  <2> QED
    BY <2>0, <2>3, <2>4
<1>f. ~rd.turned \/ rd.at = "since"
  BY DEF ShapeInv
<1>g. \A i \in DOMAIN rd.data : rd.data[i] \in Emitted
  BY DEF BytesInv
<1>h. rd.first \subseteq Emitted
  BY DEF BytesInv
<1>9. ASSUME \/ \E s \in 0..(MaxTime \div Second) : BeginSince(s)
             \/ BeginTail \/ Finish \/ Stat
      PROVE  BytesInv'
  <2>1. ReaderOnly
    BY <1>9 DEF BeginSince, BeginTail, Finish, Stat
  <2>2. rd'.data \in {<<>>, rd.data} /\ rd'.first \in {Kept, {}, rd.first}
    BY <1>9, <1>f, ReaderSteps DEF Begun, Ended, Goes
  <2> QED
    BY <1>8, <1>c, <1>g, <1>h, <2>1, <2>2
<1>10. ASSUME ReadData \/ ReadPrevIndex \/ TailData \/ Check PROVE BytesInv'
  <2>1. ReaderOnly
    BY <1>10 DEF ReadData, ReadPrevIndex, TailData, Check
  <2>2. rd'.data \in {<<>>, rd.data, cur.data} /\ rd'.first \in {{}, rd.first}
    BY <1>10, <1>f, ReaderSteps DEF Begun, Ended, Goes
  <2>3. \A i \in DOMAIN cur.data : cur.data[i] \in Emitted
    BY DEF BytesInv
  <2> QED
    BY <1>8, <1>g, <1>h, <2>1, <2>2, <2>3
<1>11. ASSUME TailGeneration PROVE BytesInv'
  <2>1. \A i \in DOMAIN (prev.data \o rd.data) : (prev.data \o rd.data)[i] \in Emitted
    BY <1>a, <1>e DEF BytesInv
  <2>2. rd'.data = prev.data \o rd.data /\ rd'.first = rd.first
    BY <1>11, <1>f, ReaderSteps DEF Goes
  <2> QED
    BY <1>8, <1>h, <1>11, <2>1, <2>2 DEF TailGeneration
<1>13. ASSUME ReadCurIndex PROVE BytesInv'
  <2> DEFINE off == SinceStart(curIdx, rd.since, Len(rd.data))
  <2>1. curIdx \in Seq(Marks) /\ rd.since \in Nat
    BY DEF Types, ReaderTypes
  <2>2. off # -1 => off \in 0..Len(rd.data)
    BY <1>a, <2>1, SinceFound
  <2>3. \/ rd'.data \in {rd.data, <<>>}
        \/ off # -1 /\ rd'.data = From(rd.data, off)
    BY <1>13, <1>f, ReaderSteps DEF Ended
  <2>4. rd'.first \in {rd.first, {}}
    BY <1>13, <1>f, ReaderSteps DEF Ended, Goes
  <2> HIDE DEF off
  <2>5. \A i \in DOMAIN rd'.data : rd'.data[i] \in Emitted
    <3>1. off # -1 => \A i \in DOMAIN From(rd.data, off) : From(rd.data, off)[i] \in Emitted
      BY <1>a, <1>d, <1>g, <2>2
    <3> QED
      BY <1>g, <2>3, <3>1
  <2> QED
    BY <1>8, <1>h, <1>13, <2>4, <2>5 DEF ReadCurIndex
<1>14. ASSUME ReadGeneration PROVE BytesInv'
  <2> DEFINE off == SinceStart(rd.prevMarks, rd.since, Len(prev.data))
             begins == IF off # -1 THEN From(prev.data, off) ELSE prev.data
  <2>1. rd.prevMarks \in Seq(Marks) /\ rd.since \in Nat
    BY DEF Types, ReaderTypes
  <2>2. off # -1 => off \in 0..Len(prev.data)
    BY <1>a, <2>1, SinceFound
  <2>3. begins \in Seq(Nat) /\ \A i \in DOMAIN begins : begins[i] \in Emitted
    <3> HIDE DEF off
    <3>1. \A i \in DOMAIN prev.data : prev.data[i] \in Emitted
      BY DEF BytesInv
    <3> QED
      BY <1>a, <1>d, <2>2, <3>1
  <2>4. rd'.data = begins \o rd.data /\ rd'.first = rd.first /\ ReaderOnly
    BY <1>14, <1>f, ReaderSteps DEF Goes, ReadGeneration
  <2> HIDE DEF off, begins
  <2>5. \A i \in DOMAIN (begins \o rd.data) : (begins \o rd.data)[i] \in Emitted
    BY <1>e, <2>3
  <2> QED
    BY <1>8, <1>h, <2>4, <2>5
<1>15. CASE UNCHANGED vars
  BY <1>15 DEF vars, files, sink, BytesInv, Rising, Emitted, Pending
<1> QED
  BY <1>1, <1>2, <1>3, <1>4, <1>5, <1>6, <1>7, <1>9, <1>10, <1>11, <1>13, <1>14, <1>15 DEF Next

----------------------------------------------------------------------------
(* Limits and times. *)

\* Nothing a reader does touches the files or the writer.
LEMMA ReadersOnly ==
    ASSUME \/ \E s \in 0..(MaxTime \div Second) : BeginSince(s)
           \/ Stat \/ ReadData \/ ReadPrevIndex \/ ReadCurIndex \/ ReadGeneration \/ Check
           \/ BeginTail \/ TailData \/ TailGeneration \/ Finish
    PROVE  ReaderOnly
BY DEF BeginSince, Stat, ReadData, ReadPrevIndex, ReadCurIndex, ReadGeneration, Check,
       BeginTail, TailData, TailGeneration, Finish

\* Every step that raises the limit, or goes on past it, leaves its reason said.
LEMMA LimitKept == ASSUME IInv, [Next]_vars PROVE LimitInv'
<1>0. Types /\ ShapeInv /\ LimitInv
  BY DEF IInv
<1> USE <1>0
<1>a. /\ Len(cur.data) \in Nat /\ chunk \in Nat /\ n \in Nat /\ notBefore \in Nat
      /\ MaxSize \in Nat /\ MaxChunk \in Nat
  BY Constants DEF Types, FileTypes
<1>1. ASSUME NEW k \in 1..MaxChunk, Emit(k) PROVE LimitInv'
  <2>0. errs' = errs \/ errs' = errs \cup {"write"}
    BY <1>1 DEF Emit
  <2>1. k \in Nat /\ writer = "idle" /\ notBefore' = notBefore /\ odd' = odd
    BY <1>1, <1>a DEF Emit
  <2>4. Said => Said'
    BY <2>0, <2>1 DEF Said
  <2>2. CASE writer' = "idle"
    BY <2>1, <2>2, <2>4 DEF LimitInv
  <2>3. CASE writer' = IF Full(n', k) THEN "rotating" ELSE "marking"
    <3>1. chunk' = k /\ n' \in Nat
      BY <1>1, <1>a, <2>1, <2>3, OpenedFile DEF Emit
    <3>2. notBefore > 0 => Said'
      BY <2>1, <2>4 DEF LimitInv
    <3>3. writer' \in {"rotating", "marking"}
      BY <2>3
    <3>4. writer' = "marking" /\ n' + k > MaxSize => notBefore > 0
      BY <1>a, <2>1, <2>3, <3>1 DEF Full
    <3> QED
      BY <2>1, <3>1, <3>2, <3>3, <3>4 DEF LimitInv
  <2> QED
    BY <1>1, <2>1, <2>2, <2>3 DEF Emit
<1>2. ASSUME RotateData PROVE LimitInv'
  <2>1. writer = "rotating" /\ notBefore' = notBefore /\ odd' = odd
    BY <1>2 DEF RotateData
  <2>2. CASE writer' = "indexing" /\ cur' = NoFile
    BY <2>1, <2>2 DEF LimitInv, There, NoFile
  <2>3. CASE writer' = "opening" /\ errs' = errs \cup {"rotate"}
    BY <2>1, <2>3 DEF LimitInv, Said
  <2> QED
    BY <1>2, <2>2, <2>3 DEF RotateData
<1>3. ASSUME RotateIndex PROVE LimitInv'
  BY <1>3 DEF RotateIndex, LimitInv, Said, There, ShapeInv
<1>4. ASSUME RotateOpen PROVE LimitInv'
  <2>1. writer = "opening" /\ (There(cur) => "rotate" \in errs)
    BY <1>4 DEF RotateOpen, LimitInv
  <2>2. CASE writer' = "idle"
    <3>1. notBefore' = notBefore /\ errs' = errs \cup {"write"}
          /\ odd' = IF There(cur) \/ notBefore = 0 THEN odd ELSE odd \cup {"stale limit"}
      BY <1>4, <2>2 DEF RotateOpen
    <3>2. Said => Said'
      BY <3>1 DEF Said
    <3>3. notBefore > 0 => Said'
      <4>1. CASE There(cur)
        BY <2>1, <3>1, <4>1 DEF Said
      <4>2. CASE ~There(cur) /\ notBefore # 0
        <5>1. odd' = odd \cup {"stale limit"}
          BY <3>1, <4>2
        <5> QED
          BY <5>1 DEF Said
      <4> QED
        BY <1>a, <4>1, <4>2
    <3> QED
      BY <2>2, <3>1, <3>3 DEF LimitInv
  <2>3. CASE writer' = "marking"
    <3>1. /\ n' = Len(Opened.data) /\ notBefore' = IF There(cur) THEN n' + MaxSize ELSE 0
          /\ chunk' = chunk /\ errs' = errs /\ odd' = odd
      BY <1>4, <2>3 DEF RotateOpen
    <3>2. ~There(cur) => n' = 0 /\ chunk <= MaxChunk
      BY <2>1, <3>1, OpenedFile DEF ShapeInv
    <3>3. There(cur) => Said'
      BY <2>1, <3>1 DEF Said
    <3>4. notBefore' > 0 => Said'
      BY <3>1, <3>3
    <3>5. n' + chunk' > MaxSize /\ MaxChunk <= MaxSize => Said'
      BY <1>a, <3>1, <3>2, <3>3
    <3> QED
      BY <2>3, <3>4, <3>5 DEF LimitInv
  <2> QED
    BY <1>4, <2>2, <2>3 DEF RotateOpen
<1>5. ASSUME MarkIndex PROVE LimitInv'
  BY <1>5 DEF MarkIndex, LimitInv, Said
<1>6. ASSUME Write PROVE LimitInv'
  <2>1. writer = "writing" /\ writer' = "idle" /\ notBefore' = notBefore
        /\ odd' = odd /\ (Said => Said')
    BY <1>6 DEF Write, Said
  <2> QED
    BY <2>1 DEF LimitInv
<1>7. ASSUME Restart PROVE LimitInv'
  BY <1>7 DEF Restart, LimitInv
<1>8. ASSUME ReaderOnly PROVE LimitInv'
  BY <1>8 DEF ReaderOnly, files, sink, LimitInv, Said
<1>9. CASE UNCHANGED vars
  BY <1>9 DEF vars, files, sink, LimitInv, Said
<1> QED
  BY <1>1, <1>2, <1>3, <1>4, <1>5, <1>6, <1>7, <1>8, <1>9, ReadersOnly DEF Next

\* Bytes come now.
LEMMA TimesKept == ASSUME IInv, [Next]_vars PROVE TimeInv'
<1>0. Types /\ ShapeInv /\ TimeInv
  BY DEF IInv
<1> USE <1>0
<1>a. now \in Nat /\ chunk \in Nat /\ Len(when) \in Nat
  BY DEF Types
<1>b. \A b \in 1..Len(when) : when[b] \in Nat /\ when[b] <= now
  BY DEF Types, TimeInv, Arrived
<1>c. ASSUME NEW k \in Nat, NEW t \in Nat, Arrive(k, t), now <= t
      PROVE  /\ \A b \in 1..Len(when') : when'[b] <= t
             /\ \A b \in (Len(when) + 1)..Len(when') : when'[b] = t
             /\ Len(when') = Len(when) + k
  <2>1. /\ Len(when') = Len(when) + k
        /\ \A b \in 1..Len(when) : when'[b] = when[b]
        /\ \A b \in (Len(when) + 1)..(Len(when) + k) : when'[b] = t
    BY <1>c, ArrivedMore
  <2>2. \A b \in 1..(Len(when) + k) : b \in 1..Len(when) \/ b \in (Len(when) + 1)..(Len(when) + k)
    BY <1>a
  <2> QED
    BY <1>a, <1>b, <1>c, <2>1, <2>2
<1>1. ASSUME writer' # "writing", now' = now, when' = when \/ \E k \in Nat : Arrive(k, now)
      PROVE  TimeInv'
  <2>1. CASE when' = when
    BY <1>1, <2>1 DEF TimeInv, Arrived
  <2>2. CASE \E k \in Nat : Arrive(k, now)
    BY <1>1, <1>a, <1>c, <2>2 DEF TimeInv, Arrived
  <2> QED
    BY <1>1, <2>1, <2>2
<1>2. ASSUME NEW k \in 1..MaxChunk, Emit(k) PROVE TimeInv'
  <2>1. k \in Nat
    BY <1>a, Constants
  <2>2. now' = now /\ (when' = when \/ Arrive(k, now)) /\ writer' # "writing"
    BY <1>2 DEF Emit
  <2> QED
    BY <1>1, <2>1, <2>2
<1>3. ASSUME RotateData \/ RotateIndex \/ Write \/ Restart PROVE TimeInv'
  BY <1>1, <1>3 DEF RotateData, RotateIndex, Write, Restart
<1>4. ASSUME RotateOpen PROVE TimeInv'
  <2>1. now' = now /\ (when' = when \/ Arrive(chunk, now)) /\ writer' # "writing"
    BY <1>4 DEF RotateOpen
  <2> QED
    BY <1>1, <1>a, <2>1
<1>5. ASSUME MarkIndex PROVE TimeInv'
  <2>1. PICK t \in now..MaxTime : now' = t /\ Arrive(chunk, t)
    BY <1>5 DEF MarkIndex
  <2>2. t \in Nat /\ now <= t
    BY <1>a, Constants
  <2>3. /\ \A b \in 1..Len(when') : when'[b] <= t
        /\ \A b \in (Len(when) + 1)..Len(when') : when'[b] = t
        /\ Len(when') = Len(when) + chunk
    BY <1>a, <1>c, <2>1, <2>2
  <2>4. Pending' = chunk
    BY <1>5 DEF MarkIndex, Pending
  <2>5. (Arrived \ Emitted)' \subseteq (Len(when) + 1)..Len(when')
    BY <1>a, <2>3, <2>4 DEF Arrived, Emitted
  <2> QED
    BY <2>1, <2>3, <2>5 DEF TimeInv, Arrived
<1>6. ASSUME ReaderOnly PROVE TimeInv'
  BY <1>6 DEF ReaderOnly, files, sink, TimeInv, Arrived, Emitted, Pending
<1>7. CASE UNCHANGED vars
  BY <1>7 DEF vars, files, sink, TimeInv, Arrived, Emitted, Pending
<1> QED
  BY <1>2, <1>3, <1>4, <1>5, <1>6, <1>7, ReadersOnly DEF Next

----------------------------------------------------------------------------
(* Indexes. *)

\* An index stays one while the bytes of its file have the times they had.
LEMMA IndexStays ==
    ASSUME NEW marks, NEW data, NEW old, NEW new, Index(marks, data, old),
           \A k \in DOMAIN data : new[data[k]] = old[data[k]]
    PROVE  Index(marks, data, new)
BY DEF Index

\* The index of any file is one of an empty file too.
LEMMA IndexOfNone ==
    ASSUME NEW marks, NEW data, NEW times, marks = <<>> \/ Index(marks, data, times)
    PROVE  Index(marks, <<>>, times)
<1>1. DOMAIN <<>> = {} /\ \A i \in DOMAIN <<>> : FALSE
  OBVIOUS
<1> QED
  BY <1>1 DEF Index

\* A mark made at the end of a file, at a time no earlier than any in it.
LEMMA IndexGrows ==
    ASSUME NEW marks \in Seq(Marks), NEW data \in Seq(Nat), NEW times, NEW t \in Nat,
           Index(marks, data, times),
           \A i \in DOMAIN marks : marks[i].at * Second <= t,
           \A k \in DOMAIN data : times[data[k]] \in Nat /\ times[data[k]] <= t
    PROVE  Index(Append(marks, [at |-> t \div Second, offset |-> Len(data)]), data, times)
<1> DEFINE m == [at |-> t \div Second, offset |-> Len(data)]
           more == Append(marks, m)
           L == Len(marks)
<1>1. /\ m \in Marks /\ m.at = t \div Second /\ m.offset = Len(data) /\ Len(data) \in Nat
      /\ t \div Second \in Nat
  BY SecondOf DEF Marks
<1>2. L \in Nat /\ DOMAIN marks = 1..L
  OBVIOUS
<1>3. /\ DOMAIN more = 1..(L + 1) /\ Len(more) = L + 1
      /\ \A i \in 1..L : more[i] = marks[i]
      /\ more[L + 1] = m
  <2> HIDE DEF m
  <2>1. more \in Seq(Marks) /\ Len(more) = L + 1
        /\ (\A i \in 1..L : more[i] = marks[i]) /\ more[L + 1] = m
    BY <1>1, AppendProperties
  <2> QED
    BY <2>1
<1> HIDE DEF m, more, L
<1>4. more # <<>>
  BY <1>2, <1>3
<1>5. more[1].offset = 0
  <2>1. CASE marks = <<>>
    <3>1. L = 0
      BY <2>1 DEF L
    <3>2. data = <<>>
      BY <2>1 DEF Index
    <3>3. Len(data) = 0
      BY <3>2
    <3> QED
      BY <1>1, <1>3, <3>1, <3>3
  <2>2. CASE marks # <<>>
    <3>1. 1 \in 1..L
      BY <1>2, <2>2 DEF L
    <3> QED
      BY <1>3, <2>2, <3>1 DEF Index
  <2> QED
    BY <2>1, <2>2
<1>6. ASSUME NEW i \in 1..L PROVE marks[i].at \in Nat /\ marks[i].at <= t \div Second
  <2>1. marks[i] \in Marks /\ marks[i].at * Second <= t
    BY <1>2
  <2>2. marks[i].at \in Nat
    BY <2>1 DEF Marks
  <2> QED
    BY <2>1, <2>2, SecondsUpTo
<1>7. ASSUME NEW i \in 1..(L + 1), NEW j \in 1..(L + 1), i < j PROVE more[i].at <= more[j].at
  <2>1. i \in 1..L
    BY <1>2, <1>7
  <2>2. CASE j \in 1..L
    BY <1>2, <1>3, <1>7, <2>1, <2>2 DEF Index
  <2>3. CASE j = L + 1
    BY <1>1, <1>3, <1>6, <2>1, <2>3
  <2> QED
    BY <1>2, <2>2, <2>3
<1>8. ASSUME NEW i \in 1..(L + 1), NEW k \in DOMAIN data
      PROVE  /\ k > more[i].offset => times[data[k]] >= more[i].at * Second
             /\ k <= more[i].offset => times[data[k]] < more[i].at * Second + Second
             /\ i = Len(more) \/ k <= more[i + 1].offset
                   => times[data[k]] < more[i].at * Second + Second + MarkEvery - 1
  <2>1. k \in Nat /\ k <= Len(data) /\ times[data[k]] \in Nat /\ times[data[k]] <= t
    OBVIOUS
  <2>2. CASE i = L + 1
    <3> DEFINE s == (t \div Second) * Second
    <3>1. s \in Nat /\ t < s + Second /\ Second \in Nat /\ MarkEvery \in Nat /\ MarkEvery > 0
      BY SecondOf, Constants
    <3>2. more[i].offset = Len(data) /\ more[i].at * Second = s
      BY <1>1, <1>3, <2>2
    <3> HIDE DEF s
    <3> DEFINE x == times[data[k]]
    <3>3. x \in Nat /\ x <= t
      BY <2>1
    <3> HIDE DEF x
    <3>4. ~(k > more[i].offset)
      BY <1>1, <2>1, <3>2
    <3>5. x < s + Second /\ x < s + Second + MarkEvery - 1
      BY <3>1, <3>3
    <3> QED
      BY <3>2, <3>4, <3>5 DEF x
  <2>3. CASE i \in 1..L
    <3>1. /\ k > marks[i].offset => times[data[k]] >= marks[i].at * Second
          /\ k <= marks[i].offset => times[data[k]] < marks[i].at * Second + Second
          /\ i = L \/ k <= marks[i + 1].offset
                => times[data[k]] < marks[i].at * Second + Second + MarkEvery - 1
      BY <1>2, <2>3 DEF Index, L
    <3>2. more[i] = marks[i] /\ i # Len(more)
      BY <1>2, <1>3, <2>3
    <3>3. i = L \/ more[i + 1] = marks[i + 1]
      BY <1>2, <1>3, <2>3
    <3> QED
      BY <3>1, <3>2, <3>3
  <2> QED
    BY <1>2, <2>2, <2>3
<1> QED
  BY <1>3, <1>4, <1>5, <1>7, <1>8 DEF Index, more, m

\* Bytes written to the end of a file whose last mark is recent enough.
LEMMA IndexReaches ==
    ASSUME NEW marks \in Seq(Marks), NEW old \in Seq(Nat), NEW new \in Seq(Nat),
           NEW times, NEW t \in Nat, Index(marks, old, times), marks # <<>>,
           \A i \in DOMAIN marks : marks[i].at * Second <= t /\ marks[i].offset <= Len(old),
           t < marks[Len(marks)].at * Second + Second + MarkEvery - 1,
           \A k \in DOMAIN old : new[k] = old[k],
           \A k \in DOMAIN new : k > Len(old) => times[new[k]] = t
    PROVE  Index(marks, new, times)
<1> DEFINE L == Len(marks)
           a == Len(old)
<1>1. /\ L \in Nat /\ DOMAIN marks = 1..L /\ a \in Nat /\ DOMAIN old = 1..a
      /\ DOMAIN new = 1..Len(new) /\ Len(new) \in Nat
  OBVIOUS
<1>2. \A i \in 1..L : marks[i].offset \in Nat
  <2>1. \A i \in 1..L : marks[i] \in Marks
    BY <1>1
  <2> QED
    BY <2>1 DEF Marks
<1>3. ASSUME NEW i \in 1..L, NEW k \in DOMAIN new
      PROVE  /\ k > marks[i].offset => times[new[k]] >= marks[i].at * Second
             /\ k <= marks[i].offset => times[new[k]] < marks[i].at * Second + Second
             /\ i = L \/ k <= marks[i + 1].offset
                   => times[new[k]] < marks[i].at * Second + Second + MarkEvery - 1
  <2>1. CASE k \in 1..a
    BY <1>1, <2>1 DEF Index
  <2>2. CASE k > a
    <3>1. times[new[k]] = t
      BY <2>2
    <3>2. k > marks[i].offset /\ marks[i].at * Second <= t
      <4>1. /\ marks[i].offset \in Nat /\ marks[i].offset <= a
            /\ marks[i].at * Second <= t
        BY <1>1, <1>2
      <4>2. k \in Nat /\ a \in Nat
        BY <1>1
      <4> HIDE DEF a, L
      <4> QED
        BY ONLY <2>2, <4>1, <4>2
    <3>3. i # L => ~(k <= marks[i + 1].offset)
      <4> SUFFICES ASSUME i # L PROVE ~(k <= marks[i + 1].offset)
        OBVIOUS
      <4>1. i + 1 \in 1..L
        <5> HIDE DEF L
        <5> QED
          BY <1>1
      <4>2. marks[i + 1].offset <= a /\ marks[i + 1].offset \in Nat
        BY <1>1, <1>2, <4>1
      <4>3. k \in Nat /\ a \in Nat
        <5> HIDE DEF a, L
        <5> QED
          BY <1>1
      <4> HIDE DEF a, L
      <4> QED
        BY <2>2, <4>2, <4>3
    <3>4. marks[i].at * Second \in Nat
      <4>1. marks[i] \in Marks
        BY <1>1
      <4> QED
        BY <4>1, Seconds DEF Marks
    <3> HIDE DEF a
    <3>5. ~(k <= marks[i].offset)
      BY <1>1, <1>2, <3>2
    <3> QED
      BY <3>1, <3>2, <3>3, <3>4, <3>5
  <2>3. k \in 1..a \/ k > a
    <3>1. k \in 1..Len(new)
      BY <1>1
    <3> HIDE DEF a
    <3> QED
      BY <1>1, <3>1
  <2> QED
    BY ONLY <2>1, <2>2, <2>3
<1> QED
  BY <1>1, <1>3 DEF Index

\* Every step keeps each index true of its file.
LEMMA IndexesKept == ASSUME IInv, [Next]_vars PROVE IndexInv'
<1>0. Types /\ ShapeInv /\ BytesInv /\ TimeInv /\ IndexInv
  BY DEF IInv
<1> USE <1>0
<1>a. /\ cur.data \in Seq(Nat) /\ prev.data \in Seq(Nat) /\ curIdx \in Seq(Marks)
      /\ Len(when) \in Nat /\ Len(cur.data) \in Nat /\ now \in Nat /\ chunk \in Nat
      /\ marked \in Nat \cup {-1} /\ n \in Nat
  BY DEF Types, FileTypes
<1>b. \A b \in Emitted : b \in 1..Len(when) /\ when[b] \in Nat /\ when[b] <= now
  <2>1. Pending \in Nat
    BY <1>a DEF Pending
  <2>2. Emitted \subseteq Arrived
    BY <1>a, <2>1 DEF Emitted, Arrived
  <2>3. \A b \in 1..Len(when) : when[b] \in Nat
    BY DEF Types
  <2> QED
    BY <2>2, <2>3 DEF TimeInv, Arrived
<1>c. /\ \A k \in DOMAIN cur.data : cur.data[k] \in Emitted
      /\ \A k \in DOMAIN prev.data : prev.data[k] \in Emitted
  BY DEF BytesInv
<1>d. ASSUME NEW m \in Seq(Marks), NEW i \in DOMAIN m
      PROVE  m[i].at \in Nat /\ m[i].at * Second \in Nat
  <2>1. m[i] \in Marks
    OBVIOUS
  <2>2. m[i].at \in Nat
    BY <2>1 DEF Marks
  <2> QED
    BY <2>2, Seconds
\* What a step adds to when is of no file yet.
<1>e. ASSUME NEW t \in Nat, NEW k \in Nat, Arrive(k, t) PROVE \A b \in Emitted : when'[b] = when[b]
  BY <1>b, <1>e, ArrivedMore
\* A step that leaves the files and the indexes as they are, and may forget the last mark.
<1>f. ASSUME UNCHANGED <<curIdx, prev, prevIdx, now>>, cur'.data = cur.data, Timed' => Timed,
             \A b \in Emitted : when'[b] = when[b],
             marked' \in {marked, -1}, writer' \notin {"indexing", "writing"}, writer # "indexing"
      PROVE  IndexInv'
  <2> SUFFICES ASSUME Timed' PROVE IndexInv'
    BY DEF IndexInv
  <2>1. Index(curIdx, cur.data, when) /\ Index(prevIdx, prev.data, when) /\ MarksInv
    BY <1>f DEF IndexInv
  <2>2. Index(curIdx, cur.data, when') /\ Index(prevIdx, prev.data, when')
    BY <1>c, <1>f, <2>1, IndexStays
  <2>3. MarksInv'
    BY <1>c, <1>f, <2>1 DEF MarksInv
  <2> QED
    BY <1>f, <2>2, <2>3 DEF IndexInv
\* An index that was not there needs no moving.
<1>g. ASSUME writer = "indexing", curIdx = <<>>, UNCHANGED <<curIdx, prev, prevIdx, when>>,
             cur'.data = cur.data, odd' = odd, marked' = -1, writer' \notin {"indexing", "writing"}
      PROVE  IndexInv'
  <2> SUFFICES ASSUME Timed' PROVE IndexInv'
    BY DEF IndexInv
  <2>1. Index(curIdx, prev.data, when) /\ Index(prevIdx, <<>>, when)
    BY <1>g DEF IndexInv, Timed
  <2>2. prev.data = <<>> /\ cur.data = <<>>
    BY <1>g, <2>1 DEF Index, ShapeInv
  <2>3. MarksInv'
    <3>1. \A i \in DOMAIN curIdx' : FALSE
      BY <1>g
    <3> QED
      BY <1>g, <3>1 DEF MarksInv
  <2> QED
    BY <1>g, <2>1, <2>2, <2>3 DEF IndexInv
<1>1. ASSUME NEW k \in 1..MaxChunk, Emit(k) PROVE IndexInv'
  <2>1. k \in Nat
    BY Constants
  <2>2. cur'.data = cur.data
    BY <1>1, OpenedFile DEF Emit
  <2>3. when' = when \/ Arrive(k, now)
    BY <1>1 DEF Emit
  <2>4. writer = "idle" /\ writer' \in {"idle", "rotating", "marking"}
    BY <1>1 DEF Emit
  <2>5. UNCHANGED <<now, prev, curIdx, prevIdx, marked, odd>>
    BY <1>1 DEF Emit
  <2>6. \A b \in Emitted : when'[b] = when[b]
    BY <1>a, <1>e, <2>1, <2>3
  <2> QED
    BY <1>f, <2>2, <2>4, <2>5, <2>6 DEF Timed
<1>2. ASSUME RotateData PROVE IndexInv'
  <2>1. writer = "rotating" /\ UNCHANGED <<now, when, curIdx, prevIdx, marked, odd>>
    BY <1>2 DEF RotateData
  <2>2. CASE writer' = "opening" /\ UNCHANGED <<cur, prev>>
    BY <1>f, <2>1, <2>2 DEF Timed
  <2>3. CASE writer' = "indexing" /\ prev' = cur
    <3> SUFFICES ASSUME Timed' PROVE IndexInv'
      BY DEF IndexInv
    <3>1. Index(curIdx, cur.data, when) /\ Index(prevIdx, prev.data, when) /\ MarksInv
      BY <2>1 DEF IndexInv, Timed
    <3>2. Index(prevIdx, <<>>, when)
      BY <3>1, IndexOfNone
    <3>3. MarksInv'
      BY <2>1, <2>3, <3>1 DEF MarksInv
    <3> QED
      BY <2>1, <2>3, <3>1, <3>2, <3>3 DEF IndexInv
  <2> QED
    BY <1>2, <2>2, <2>3 DEF RotateData
<1>3. ASSUME RotateIndex PROVE IndexInv'
  <2>1. /\ writer = "indexing" /\ writer' = "opening" /\ marked' = -1
        /\ UNCHANGED <<now, when, cur, prev>>
    BY <1>3 DEF RotateIndex
  <2>2. CASE curIdx # <<>> /\ prevIdx' = curIdx /\ curIdx' = <<>> /\ odd' = odd
    <3> SUFFICES ASSUME Timed' PROVE IndexInv'
      BY DEF IndexInv
    <3>1. Index(curIdx, prev.data, when)
      BY <2>1, <2>2 DEF IndexInv, Timed
    <3>2. cur.data = <<>>
      BY <2>1 DEF ShapeInv
    <3>3. Index(<<>>, <<>>, when)
      BY IndexOfNone
    <3>4. MarksInv'
      <4>1. \A i \in DOMAIN curIdx' : FALSE
        BY <2>2
      <4> QED
        BY <2>1, <2>2, <4>1 DEF MarksInv
    <3> QED
      BY <2>1, <2>2, <3>1, <3>2, <3>3, <3>4 DEF IndexInv
  <2>3. CASE curIdx = <<>> /\ UNCHANGED <<curIdx, prevIdx, odd>>
    BY <1>g, <2>1, <2>3
  <2>4. CASE odd' = odd \cup {"unindexed"}
    BY <2>4 DEF IndexInv, Timed
  <2> QED
    BY <1>3, <2>2, <2>3, <2>4 DEF RotateIndex
<1>4. ASSUME RotateOpen PROVE IndexInv'
  <2>1. writer = "opening" /\ writer' \in {"idle", "marking"}
    BY <1>4 DEF RotateOpen
  <2>2. cur'.data = cur.data
    BY <1>4, OpenedFile DEF RotateOpen
  <2>3. when' = when \/ Arrive(chunk, now)
    BY <1>4 DEF RotateOpen
  <2>4. UNCHANGED <<now, prev, curIdx, prevIdx, marked>> /\ (Timed' => Timed)
    BY <1>4 DEF RotateOpen, Timed
  <2>5. \A b \in Emitted : when'[b] = when[b]
    BY <1>a, <1>e, <2>3
  <2> QED
    BY <1>f, <2>1, <2>2, <2>4, <2>5
<1>5. ASSUME MarkIndex PROVE IndexInv'
  <2>0. writer = "marking" /\ writer' = "writing" /\ UNCHANGED <<cur, prev, prevIdx, n>>
    BY <1>5 DEF MarkIndex
  <2>1. PICK t \in now..MaxTime :
           /\ now' = t /\ Arrive(chunk, t)
           /\ \/ ~DueMark(t) /\ UNCHANGED <<curIdx, marked, odd>>
              \/ /\ curIdx' = Append(curIdx, [at |-> t \div Second, offset |-> n])
                 /\ marked' = t /\ UNCHANGED odd
              \/ odd' = odd \cup {"unindexed"}
    BY <1>5 DEF MarkIndex
  <2>2. t \in Nat /\ now <= t
    BY <1>a, Constants
  <2>3. \A b \in Emitted : when'[b] = when[b]
    BY <1>a, <1>e, <2>1, <2>2
  <2>4. CASE odd' = odd
    <3> SUFFICES ASSUME Timed' PROVE IndexInv'
      BY DEF IndexInv
    <3>1. Index(curIdx, cur.data, when) /\ Index(prevIdx, prev.data, when) /\ MarksInv
      BY <2>0, <2>4 DEF IndexInv, Timed
    <3>2. Index(curIdx, cur.data, when') /\ Index(prevIdx, prev.data, when')
      BY <1>c, <2>3, <3>1, IndexStays
    <3>3. \A i \in DOMAIN curIdx : curIdx[i].at * Second <= t /\ curIdx[i].offset <= Len(cur.data)
      <4> TAKE i \in DOMAIN curIdx
      <4>1. curIdx[i].at * Second <= now /\ curIdx[i].offset <= Len(cur.data)
        BY <2>0, <3>1 DEF MarksInv
      <4>2. curIdx[i].at * Second \in Nat
        BY <1>a, <1>d
      <4> QED
        BY <1>a, <2>2, <4>1, <4>2
    <3>4. CASE ~DueMark(t) /\ UNCHANGED <<curIdx, marked>>
      <4>1. MarksInv'
        <5>1. marked # -1 /\ t - marked < MarkEvery
          BY <1>a, <2>2, <3>4, Constants DEF DueMark
        <5>2. \A k \in DOMAIN prev.data : when'[prev.data[k]] = when[prev.data[k]]
          BY <1>c, <2>3
        <5>3. curIdx # <<>> /\ marked <= t /\ curIdx[Len(curIdx)].at = marked \div Second
          BY <1>a, <2>2, <3>1, <5>1 DEF MarksInv
        <5>4. \A k \in DOMAIN prev.data : when[prev.data[k]] < curIdx[1].at * Second + Second
          BY <2>0, <3>1, <5>3 DEF MarksInv
        <5> QED
          BY <2>0, <2>1, <3>3, <3>4, <5>1, <5>2, <5>3, <5>4 DEF MarksInv
      <4> QED
        BY <2>0, <3>2, <3>4, <4>1 DEF IndexInv
    <3>5. CASE curIdx' = Append(curIdx, [at |-> t \div Second, offset |-> n]) /\ marked' = t
      <4> DEFINE m == [at |-> t \div Second, offset |-> n]
                 L == Len(curIdx)
      <4>1. n = Len(cur.data)
        BY <2>0 DEF ShapeInv
      <4>2. m \in Marks /\ m.at = t \div Second /\ m.offset = n
        BY <1>a, <2>2, SecondOf DEF Marks
      <4>3. /\ L \in Nat /\ DOMAIN curIdx = 1..L /\ DOMAIN curIdx' = 1..(L + 1)
            /\ Len(curIdx') = L + 1
            /\ \A i \in 1..L : curIdx'[i] = curIdx[i]
            /\ curIdx'[L + 1] = m
        <5>1. curIdx' = Append(curIdx, m)
          BY <3>5
        <5> HIDE DEF m
        <5>2. curIdx' \in Seq(Marks) /\ Len(curIdx') = L + 1
              /\ (\A i \in 1..L : curIdx'[i] = curIdx[i]) /\ curIdx'[L + 1] = m
          BY <1>a, <4>2, <5>1, AppendProperties
        <5> QED
          BY <1>a, <5>2
      <4>4. \A k \in DOMAIN cur.data : when'[cur.data[k]] \in Nat /\ when'[cur.data[k]] <= t
        <5> TAKE k \in DOMAIN cur.data
        <5>1. cur.data[k] \in Emitted
          BY <1>c
        <5>2. /\ when'[cur.data[k]] = when[cur.data[k]]
              /\ when[cur.data[k]] \in Nat /\ when[cur.data[k]] <= now
          BY <1>b, <2>3, <5>1
        <5> HIDE DEF m, L
        <5> QED
          BY ONLY <1>a, <2>2, <5>2
      <4>5. Index(curIdx', cur.data, when')
        BY <1>a, <2>2, <3>2, <3>3, <3>5, <4>1, <4>4, IndexGrows
      <4>6. t \div Second \in Nat /\ (t \div Second) * Second <= t
            /\ (t \div Second) * Second \in Nat /\ t < (t \div Second) * Second + Second
        BY <2>2, SecondOf
      <4> HIDE DEF m, L
      <4>7. \A i \in 1..(L + 1) : curIdx'[i].at * Second <= t /\ curIdx'[i].offset <= Len(cur.data)
        <5> TAKE i \in 1..(L + 1)
        <5>1. CASE i \in 1..L
          BY <3>3, <4>3, <5>1
        <5>2. CASE i = L + 1
          BY <1>a, <4>1, <4>2, <4>3, <4>6, <5>2
        <5> QED
          BY <4>3, <5>1, <5>2
      <4>8. curIdx' # <<>>
        BY <4>3
      <4>9. \A k \in DOMAIN prev.data : when'[prev.data[k]] < curIdx'[1].at * Second + Second
        <5> TAKE k \in DOMAIN prev.data
        <5>1. when'[prev.data[k]] = when[prev.data[k]] /\ when[prev.data[k]] \in Nat
              /\ when[prev.data[k]] <= now
          BY <1>b, <1>c, <2>3
        <5>2. CASE L = 0
          <6>1. curIdx'[1] = m
            BY <4>3, <5>2
          <6>2. curIdx'[1].at * Second = (t \div Second) * Second
            BY <4>2, <6>1
          <6> DEFINE s == (t \div Second) * Second
          <6>3. s \in Nat /\ t < s + Second /\ Second \in Nat
            BY <4>6, Constants
          <6> HIDE DEF s
          <6>4. when[prev.data[k]] < s + Second
            BY <1>a, <2>2, <5>1, <6>3
          <6> QED
            BY <5>1, <6>2, <6>4 DEF s
        <5>3. CASE L # 0
          <6>1. curIdx # <<>> /\ curIdx'[1] = curIdx[1]
            BY <4>3, <5>3
          <6> QED
            BY <2>0, <3>1, <5>1, <6>1 DEF MarksInv
        <5> QED
          BY <5>2, <5>3
      <4>10. MarksInv'
        <5>1. curIdx'[Len(curIdx')].at = t \div Second
          BY <4>2, <4>3
        <5>2. now' - marked' < MarkEvery /\ marked' # -1 /\ marked' <= now'
          BY <2>1, <2>2, <3>5, Constants
        <5> QED
          BY <2>0, <2>1, <3>5, <4>3, <4>7, <4>8, <4>9, <5>1, <5>2 DEF MarksInv
      <4> QED
        BY <2>0, <3>2, <4>5, <4>10 DEF IndexInv
    <3> QED
      BY <2>1, <3>4, <3>5 DEF Timed
  <2>5. CASE odd' = odd \cup {"unindexed"}
    BY <2>5 DEF IndexInv, Timed
  <2> QED
    BY <2>1, <2>4, <2>5
<1>6. ASSUME Write PROVE IndexInv'
  <2> SUFFICES ASSUME Timed' PROVE IndexInv'
    BY DEF IndexInv
  <2>0. /\ writer = "writing" /\ writer' = "idle"
        /\ UNCHANGED <<now, when, prev, curIdx, prevIdx, marked, odd>>
    BY <1>6 DEF Write
  <2>1. PICK j \in 0..chunk :
             /\ cur'.data \in Seq(Nat) /\ Len(cur'.data) = Len(cur.data) + j
             /\ \A i \in 1..Len(cur.data) : cur'.data[i] = cur.data[i]
             /\ \A i \in (Len(cur.data) + 1)..(Len(cur.data) + j) :
                    cur'.data[i] = Len(when) - chunk + (i - Len(cur.data))
    BY <1>6, Written
  <2>2. Index(curIdx, cur.data, when) /\ Index(prevIdx, prev.data, when) /\ MarksInv
    BY <2>0 DEF IndexInv, Timed
  <2>3. /\ marked # -1 /\ now - marked < MarkEvery /\ curIdx # <<>> /\ marked <= now
        /\ curIdx[Len(curIdx)].at = marked \div Second
        /\ \A i \in DOMAIN curIdx :
              curIdx[i].at * Second <= now /\ curIdx[i].offset <= Len(cur.data)
    BY <2>0, <2>2 DEF MarksInv
  <2>4. now < curIdx[Len(curIdx)].at * Second + Second + MarkEvery - 1
    <3> DEFINE s == (marked \div Second) * Second
    <3>1. s \in Nat /\ marked < s + Second /\ marked \in Nat /\ Second \in Nat /\ MarkEvery \in Nat
      BY <1>a, <2>3, SecondOf, Constants
    <3> HIDE DEF s
    <3>2. now < s + Second + MarkEvery - 1
      BY <1>a, <2>3, <3>1
    <3> QED
      BY <2>3, <3>2 DEF s
  <2>5. \A k \in DOMAIN cur'.data : k > Len(cur.data) => when[cur'.data[k]] = now
    <3> DEFINE a == Len(cur.data)
               w == Len(when)
    <3>1. a \in Nat /\ w \in Nat /\ chunk \in Nat /\ chunk <= w /\ j \in 0..chunk
          /\ DOMAIN cur'.data = 1..(a + j)
      BY <1>a, <2>0, <2>1 DEF ShapeInv, Pending
    <3>2. \A b \in (w - chunk + 1)..w : when[b] = now
      <4>1. Arrived = 1..w /\ Emitted = 1..(w - chunk)
        BY <2>0 DEF Arrived, Emitted, Pending
      <4>2. ASSUME NEW b \in (w - chunk + 1)..w PROVE b \in Arrived /\ ~(b \in Emitted)
        <5> HIDE DEF w
        <5> QED
          BY <3>1, <4>1
      <4> QED
        BY <2>0, <4>2 DEF TimeInv
    <3>3. \A k \in (a + 1)..(a + j) : cur'.data[k] = w - chunk + (k - a)
      BY <2>1
    <3> SUFFICES ASSUME NEW k \in 1..(a + j), k > a PROVE when[cur'.data[k]] = now
      BY <3>1
    <3> HIDE DEF a, w
    <3>4. k \in (a + 1)..(a + j) /\ w - chunk + (k - a) \in (w - chunk + 1)..w
      BY <3>1
    <3> QED
      BY <3>2, <3>3, <3>4
  <2>6. Index(curIdx, cur'.data, when)
    <3>1. \A k \in DOMAIN cur.data : cur'.data[k] = cur.data[k]
      <4>1. DOMAIN cur.data = 1..Len(cur.data)
        BY <1>a
      <4> QED
        BY <2>1, <4>1
    <3> QED
      BY <1>a, <2>1, <2>2, <2>3, <2>4, <2>5, <3>1, IndexReaches
  <2>7. MarksInv'
    <3>1. \A i \in DOMAIN curIdx : curIdx[i].offset \in Nat /\ curIdx[i].offset <= Len(cur'.data)
      <4> TAKE i \in DOMAIN curIdx
      <4>1. curIdx[i] \in Marks
        BY <1>a
      <4>2. curIdx[i].offset \in Nat /\ j \in Nat
        BY <1>a, <4>1 DEF Marks
      <4> QED
        BY <1>a, <2>1, <2>3, <4>2
    <3> QED
      BY <2>0, <2>2, <2>3, <3>1 DEF MarksInv
  <2> QED
    BY <2>0, <2>2, <2>6, <2>7 DEF IndexInv
<1>7. ASSUME Restart PROVE IndexInv'
  <2>1. cur'.data = cur.data /\ UNCHANGED <<now, when, prev, curIdx, prevIdx>>
        /\ marked' = -1 /\ writer' = "idle"
    BY <1>7, OpenedFile DEF Restart
  <2>2. CASE writer = "indexing" /\ curIdx # <<>>
    <3>1. odd' = odd \cup {"unindexed"}
      BY <1>7, <2>2 DEF Restart
    <3> QED
      BY <3>1 DEF IndexInv, Timed
  <2>3. CASE writer = "indexing" /\ curIdx = <<>>
    <3>1. odd' = odd
      BY <1>7, <2>3 DEF Restart
    <3> QED
      BY <1>g, <2>1, <2>3, <3>1
  <2>4. CASE writer # "indexing"
    <3>1. odd' = odd
      BY <1>7, <2>4 DEF Restart
    <3> QED
      BY <1>f, <2>1, <2>4, <3>1 DEF Timed
  <2> QED
    BY <2>2, <2>3, <2>4
<1>8. ASSUME ReaderOnly PROVE IndexInv'
  BY <1>8 DEF ReaderOnly, files, sink, IndexInv, MarksInv, Timed
<1>9. CASE UNCHANGED vars
  BY <1>9 DEF vars, files, sink, IndexInv, MarksInv, Timed
<1> QED
  BY <1>1, <1>2, <1>3, <1>4, <1>5, <1>6, <1>7, <1>8, <1>9, ReadersOnly DEF Next

----------------------------------------------------------------------------
(* Answers. *)

\* The place an answer begins at, with the index of the file, or of more of it: nothing
\* before it is newer than the second named, and nothing after it is too old.
LEMMA RightPlace ==
    ASSUME NEW marks \in Seq(Marks), NEW data \in Seq(Nat), NEW times,
           Index(marks, data, times),
           \A k \in DOMAIN data : times[data[k]] \in Nat,
           NEW since \in Nat, NEW size \in 0..Len(data), NEW off \in 0..size,
           NEW i \in DOMAIN marks, BeginsAt(marks, since, size, off, i)
    PROVE  /\ \A k \in 1..off : times[data[k]] < since * Second + Second
           /\ \A k \in (off + 1)..size : times[data[k]] > since * Second - MarkEvery - Second
<1> DEFINE L == Len(marks)
           w == MarkEvery \div Second
           S == since * Second
           at == marks[i].at
           A == at * Second
<1>1. /\ L \in Nat /\ DOMAIN marks = 1..L /\ DOMAIN data = 1..Len(data) /\ Len(data) \in Nat
  OBVIOUS
<1>2. \A j \in 1..L : marks[j].at \in Nat /\ marks[j].offset \in Nat
  <2>1. \A j \in 1..L : marks[j] \in Marks
    BY <1>1
  <2> QED
    BY <2>1 DEF Marks
<1>3. /\ Second \in Nat /\ Second > 0 /\ MarkEvery \in Nat /\ MarkEvery > 0
      /\ w \in Nat /\ w * Second = MarkEvery
  BY Constants, Window
<1>4. at \in Nat /\ A \in Nat /\ S \in Nat
  BY <1>1, <1>2, Seconds
<1>12. /\ i \in 1..L
       /\ \/ since < at + w /\ (off = marks[i].offset \/ (size <= marks[i].offset /\ off = size))
          \/ /\ at + w <= since /\ i < L /\ since < marks[i + 1].at
             /\ off = marks[i + 1].offset \/ (size <= marks[i + 1].offset /\ off = size)
          \/ at + w <= since /\ i = L /\ off = size
  <2> USE <1>1 DEF BeginsAt
  <2> QED
    OBVIOUS
<1> HIDE DEF L, w, S, at, A
<1>13. ~(since < at + w /\ at + w <= since) /\ (since < at + w \/ at + w <= since)
  BY <1>3, <1>4
<1>5. A <= S
  <2>1. at <= since
    BY DEF BeginsAt, at
  <2> QED
    BY <1>4, <2>1, Seconds DEF A, S
<1>6. since < at + w => S < A + MarkEvery
  <2> SUFFICES ASSUME since < at + w PROVE S < A + MarkEvery
    OBVIOUS
  <2>1. S + Second <= (at + w) * Second
    BY <1>3, <1>4, Seconds DEF S
  <2>2. (at + w) * Second = A + MarkEvery
    BY <1>3, <1>4, Seconds DEF A
  <2> QED
    BY <1>3, <1>4, <2>1, <2>2
<1>7. at + w <= since => A + MarkEvery <= S
  <2> SUFFICES ASSUME at + w <= since PROVE A + MarkEvery <= S
    OBVIOUS
  <2>1. (at + w) * Second <= S
    BY <1>3, <1>4, Seconds DEF S
  <2>2. (at + w) * Second = A + MarkEvery
    BY <1>3, <1>4, Seconds DEF A
  <2> QED
    BY <2>1, <2>2
<1>8. ASSUME NEW k \in 1..size
      PROVE  /\ times[data[k]] \in Nat
             /\ k > marks[i].offset => times[data[k]] >= A
             /\ k <= marks[i].offset => times[data[k]] < A + Second
             /\ i = L \/ k <= marks[i + 1].offset => times[data[k]] < A + Second + MarkEvery - 1
  <2>1. k \in DOMAIN data
    BY <1>1
  <2> QED
    BY <1>1, <2>1 DEF Index, A, at, L
<1>9. ASSUME NEW k \in 1..size, i < L
      PROVE  k > marks[i + 1].offset => times[data[k]] >= marks[i + 1].at * Second
  <2>1. k \in DOMAIN data /\ i + 1 \in DOMAIN marks
    BY <1>1, <1>9
  <2> QED
    BY <2>1 DEF Index
<1>10. ASSUME NEW k \in 1..off PROVE times[data[k]] < S + Second
  <2> DEFINE x == times[data[k]]
  <2>1. k \in 1..size /\ k \in Nat
    OBVIOUS
  <2>2. x \in Nat
    BY <1>8, <2>1
  <2> HIDE DEF x
  <2>3. CASE since < at + w
    <3>1. k <= marks[i].offset
      <4>1. /\ marks[i].offset \in Nat
            /\ (off = marks[i].offset \/ (size <= marks[i].offset /\ off = size))
        BY <1>2, <1>12, <1>13, <2>3
      <4> QED
        BY <2>1, <4>1
    <3>2. x < A + Second
      BY <1>8, <2>1, <3>1 DEF x
    <3>3. x < S + Second
      BY <1>3, <1>4, <1>5, <2>2, <3>2
    <3> QED
      BY <3>3 DEF x
  <2>4. CASE at + w <= since
    <3>1. i = L \/ k <= marks[i + 1].offset
      <4> SUFFICES ASSUME i # L PROVE k <= marks[i + 1].offset
        OBVIOUS
      <4>1. i < L /\ (off = marks[i + 1].offset \/ (size <= marks[i + 1].offset /\ off = size))
        BY <1>12, <1>13, <2>4
      <4>2. marks[i + 1].offset \in Nat
        BY <1>1, <1>2, <1>12, <4>1
      <4> QED
        BY <2>1, <4>1, <4>2
    <3>2. x < A + Second + MarkEvery - 1
      BY <1>8, <2>1, <3>1 DEF x
    <3>3. A + MarkEvery <= S
      BY <1>7, <2>4
    <3>4. x < S + Second
      BY <1>3, <1>4, <2>2, <3>2, <3>3
    <3> QED
      BY <3>4 DEF x
  <2> QED
    BY <1>13, <2>3, <2>4
<1>11. ASSUME NEW k \in (off + 1)..size PROVE times[data[k]] > S - MarkEvery - Second
  <2> DEFINE x == times[data[k]]
  <2>1. k \in 1..size /\ k \in Nat /\ off # size /\ k > off
    OBVIOUS
  <2>2. x \in Nat
    BY <1>8, <2>1
  <2> HIDE DEF x
  <2>3. CASE since < at + w
    <3>1. k > marks[i].offset
      BY <1>12, <1>13, <2>1, <2>3
    <3>2. x >= A
      BY <1>8, <2>1, <3>1 DEF x
    <3>3. S < A + MarkEvery
      BY <1>6, <2>3
    <3>4. x > S - MarkEvery - Second
      BY <1>3, <1>4, <2>2, <3>2, <3>3
    <3> QED
      BY <3>4 DEF x
  <2>4. CASE at + w <= since
    <3>1. i < L /\ since < marks[i + 1].at /\ off = marks[i + 1].offset
      BY <1>12, <1>13, <2>1, <2>4
    <3>2. x >= marks[i + 1].at * Second
      BY <1>9, <2>1, <3>1 DEF x
    <3>3. i + 1 \in 1..L
      BY <1>1, <1>12, <3>1
    <3>4. S <= marks[i + 1].at * Second /\ marks[i + 1].at * Second \in Nat
      <4>1. marks[i + 1].at \in Nat /\ since <= marks[i + 1].at
        BY <1>2, <3>1, <3>3
      <4> QED
        BY <4>1, Seconds DEF S
    <3>5. x >= S
      BY <1>4, <2>2, <3>2, <3>4
    <3>6. x > S - MarkEvery - Second
      BY <1>3, <1>4, <2>2, <3>5
    <3> QED
      BY <3>6 DEF x
  <2> QED
    BY <1>13, <2>3, <2>4
<1> QED
  BY <1>10, <1>11 DEF S

\* Two stretches of the stream, one after the other.
LEMMA Joined ==
    ASSUME NEW s \in Seq(Nat), NEW r \in Seq(Nat), Rising(s), Rising(r),
           \A i \in DOMAIN s, j \in DOMAIN r : s[i] < r[j]
    PROVE  /\ s \o r \in Seq(Nat) /\ Rising(s \o r)
           /\ Range(s \o r) = Range(s) \cup Range(r)
           /\ \A i \in DOMAIN (s \o r) :
                 \/ i \in DOMAIN s /\ (s \o r)[i] = s[i]
                 \/ i - Len(s) \in DOMAIN r /\ (s \o r)[i] = r[i - Len(s)]
<1> DEFINE a == Len(s)
           b == Len(r)
           u == s \o r
<1>1. a \in Nat /\ b \in Nat /\ DOMAIN s = 1..a /\ DOMAIN r = 1..b
  OBVIOUS
<1>2. u \in Seq(Nat) /\ DOMAIN u = 1..(a + b)
      /\ \A i \in 1..(a + b) : u[i] = IF i <= a THEN s[i] ELSE r[i - a]
  <2>1. /\ u \in Seq(Nat) /\ Len(u) = a + b
        /\ \A i \in 1..(a + b) : u[i] = IF i <= a THEN s[i] ELSE r[i - a]
    BY ConcatProperties
  <2> HIDE DEF u
  <2> QED
    BY <2>1
<1> HIDE DEF a, b, u
<1>3. \A i \in 1..(a + b) : \/ i \in 1..a /\ u[i] = s[i]
                            \/ ~(i \in 1..a) /\ i - a \in 1..b /\ u[i] = r[i - a]
  <2> TAKE i \in 1..(a + b)
  <2>1. CASE i <= a
    BY <1>1, <1>2, <2>1
  <2>2. CASE ~(i <= a)
    <3>1. i - a \in 1..b /\ ~(i \in 1..a)
      BY <1>1, <2>2
    <3> QED
      BY <1>2, <2>2, <3>1
  <2> QED
    BY <2>1, <2>2
<1>4. \A i, j \in 1..(a + b) : i < j => u[i] < u[j]
  <2> SUFFICES ASSUME NEW i \in 1..(a + b), NEW j \in 1..(a + b), i < j PROVE u[i] < u[j]
    OBVIOUS
  <2>1. CASE j \in 1..a
    <3>1. i \in 1..a
      BY <1>1, <2>1
    <3> QED
      BY <1>1, <1>3, <2>1, <3>1 DEF Rising
  <2>2. CASE ~(j \in 1..a) /\ i \in 1..a
    BY <1>1, <1>3, <2>2
  <2>3. CASE ~(j \in 1..a) /\ ~(i \in 1..a)
    <3>1. i - a < j - a
      BY <1>1
    <3> QED
      BY <1>1, <1>3, <2>3, <3>1 DEF Rising
  <2> QED
    BY <2>1, <2>2, <2>3
<1>5. Range(u) = Range(s) \cup Range(r)
  <2>1. \A x \in Range(u) : x \in Range(s) \/ x \in Range(r)
    <3> TAKE x \in Range(u)
    <3>1. PICK i \in 1..(a + b) : x = u[i]
      BY <1>2 DEF Range
    <3> QED
      BY <1>1, <1>3, <3>1 DEF Range
  <2>2. \A i \in 1..a : i \in 1..(a + b) /\ u[i] = s[i]
    <3> TAKE i \in 1..a
    <3>1. i \in 1..(a + b) /\ i <= a
      BY <1>1
    <3> QED
      BY <1>2, <3>1
  <2>3. \A i \in 1..b : i + a \in 1..(a + b) /\ u[i + a] = r[i]
    <3> TAKE i \in 1..b
    <3>1. i + a \in 1..(a + b) /\ ~(i + a <= a) /\ (i + a) - a = i
      BY <1>1
    <3>2. u[i + a] = r[(i + a) - a]
      BY <1>2, <3>1
    <3> QED
      BY <3>1, <3>2
  <2>4. ASSUME NEW x \in Range(s) PROVE x \in Range(u)
    <3>1. PICK i \in 1..a : x = s[i]
      BY <1>1 DEF Range
    <3> QED
      BY <1>2, <2>2, <3>1 DEF Range
  <2>5. ASSUME NEW x \in Range(r) PROVE x \in Range(u)
    <3>1. PICK i \in 1..b : x = r[i]
      BY <1>1 DEF Range
    <3> QED
      BY <1>2, <2>3, <3>1 DEF Range
  <2> QED
    BY <2>1, <2>4, <2>5
<1> QED
  BY <1>1, <1>2, <1>3, <1>4, <1>5 DEF Rising, u, a

\* The stretch of it from some place on.
LEMMA RestRises ==
    ASSUME NEW s \in Seq(Nat), NEW k \in 0..Len(s), Rising(s)
    PROVE  /\ From(s, k) \in Seq(Nat) /\ Rising(From(s, k))
           /\ \A m \in (k + 1)..Len(s) : s[m] \in Range(From(s, k))
           /\ \A i \in DOMAIN From(s, k) :
                 i + k \in (k + 1)..Len(s) /\ From(s, k)[i] = s[i + k]
<1> DEFINE a == Len(s)
           u == From(s, k)
<1>1. a \in Nat /\ DOMAIN s = 1..a /\ k \in Nat /\ k <= a
  OBVIOUS
<1>2. u \in Seq(Nat) /\ DOMAIN u = 1..(a - k) /\ \A i \in 1..(a - k) : u[i] = s[i + k]
  <2>1. u \in Seq(Nat) /\ Len(u) = a - k /\ \A i \in 1..(a - k) : u[i] = s[i + k]
    BY RestOf
  <2> HIDE DEF u
  <2> QED
    BY <2>1
<1> HIDE DEF a, u
<1>3. \A i \in 1..(a - k) : i + k \in (k + 1)..a /\ i + k \in 1..a
  BY <1>1
<1>4. \A i, j \in 1..(a - k) : i < j => u[i] < u[j]
  <2> SUFFICES ASSUME NEW i \in 1..(a - k), NEW j \in 1..(a - k), i < j PROVE u[i] < u[j]
    OBVIOUS
  <2>1. i + k < j + k
    BY <1>1
  <2> QED
    BY <1>1, <1>2, <1>3, <2>1 DEF Rising
<1>5. \A m \in (k + 1)..a : s[m] \in Range(u)
  <2> TAKE m \in (k + 1)..a
  <2>1. m - k \in 1..(a - k) /\ (m - k) + k = m
    BY <1>1
  <2> QED
    BY <1>2, <2>1 DEF Range
<1> QED
  BY <1>2, <1>3, <1>4, <1>5 DEF Rising, u, a

----------------------------------------------------------------------------
(* Readers. *)

\* What a step of the writer leaves a reader with: the bytes that were there for it keep
\* their times, none of them comes back, and while the file is the one it was, it only
\* grows and what was kept of it before stays.
Grown ==
    /\ \A b \in Emitted : when'[b] = when[b]
    /\ Timed' => Timed
    /\ \A b \in Emitted : b \in Kept' => b \in Kept
    /\ prev' = prev \/ (prev' = cur /\ cur'.data = <<>>)
    /\ There(cur') /\ cur'.id = rd.before =>
          /\ Same /\ prev' = prev /\ prevIdx' = prevIdx
          /\ Len(cur.data) <= Len(cur'.data)
          /\ \A i \in DOMAIN cur.data : cur'.data[i] = cur.data[i]

\* No step of the writer touches what a reader has in hand, or adds to what was kept.
LEMMA WriterSteps ==
    ASSUME IInv, \/ \E k \in 1..MaxChunk : Emit(k)
                 \/ RotateData \/ RotateIndex \/ RotateOpen \/ MarkIndex \/ Write
    PROVE  rd' = rd /\ Grown
<1>0. Types /\ ShapeInv /\ BytesInv
  BY DEF IInv
<1> USE <1>0
<1>a. /\ cur.data \in Seq(Nat) /\ prev.data \in Seq(Nat) /\ Len(cur.data) \in Nat
      /\ Len(when) \in Nat /\ chunk \in Nat /\ now \in Nat
      /\ DOMAIN cur.data = 1..Len(cur.data)
  BY DEF Types, FileTypes
<1>b. \A b \in Emitted : b \in 1..Len(when)
  <2>1. Pending \in Nat
    BY <1>a DEF Pending
  <2> QED
    BY <1>a, <2>1 DEF Emitted
<1>c. ASSUME NEW t \in Nat, NEW k \in Nat, Arrive(k, t) PROVE \A b \in Emitted : when'[b] = when[b]
  BY <1>b, <1>c, ArrivedMore
\* The file is the one it was, or one that nobody has begun to read.
<1>d. ASSUME UNCHANGED <<prev, prevIdx>>, cur' \in {cur, Opened}, Timed' => Timed,
             \A b \in Emitted : when'[b] = when[b]
      PROVE  Grown
  <2>1. cur'.data = cur.data
    BY <1>d, OpenedFile
  <2>2. Kept' = Kept
    BY <1>d, <2>1 DEF Kept
  <2>3. There(cur') /\ cur'.id = rd.before => Same
    <3>1. CASE There(cur)
      BY <1>d, <3>1, OpenedFile DEF Same
    <3>2. CASE ~There(cur) /\ cur' = Opened
      <4>1. Opened.id > rd.before /\ Opened.id \in Nat /\ rd.before \in Nat
        BY <3>2, OpenedFile DEF FileTypes, ReaderTypes, Types
      <4> QED
        BY <3>2, <4>1
    <3> QED
      BY <1>d, <3>1, <3>2 DEF There
  <2> QED
    BY <1>a, <1>d, <2>1, <2>2, <2>3 DEF Grown
<1>1. ASSUME NEW k \in 1..MaxChunk, Emit(k) PROVE rd' = rd /\ Grown
  <2>1. k \in Nat
    BY Constants
  <2>2. /\ rd' = rd /\ UNCHANGED <<prev, prevIdx, odd>> /\ cur' \in {cur, Opened}
        /\ when' = when \/ Arrive(k, now)
    BY <1>1 DEF Emit
  <2> QED
    BY <1>a, <1>c, <1>d, <2>1, <2>2 DEF Timed
<1>2. ASSUME RotateData PROVE rd' = rd /\ Grown
  <2>1. rd' = rd /\ UNCHANGED <<when, prevIdx, odd>>
    BY <1>2 DEF RotateData
  <2>2. CASE prev' = cur /\ cur' = NoFile
    <3>1. ~There(cur') /\ cur'.data = <<>>
      BY <2>2 DEF There, NoFile
    <3>2. \A b : b \in Kept' => b \in Kept
      BY <2>2, <3>1 DEF Kept, Range
    <3> QED
      BY <2>1, <2>2, <3>1, <3>2 DEF Grown, Timed
  <2>3. CASE UNCHANGED <<cur, prev>>
    BY <1>d, <2>1, <2>3 DEF Timed
  <2> QED
    BY <1>2, <2>1, <2>2, <2>3 DEF RotateData
<1>3. ASSUME RotateIndex PROVE rd' = rd /\ Grown
  <2>1. rd' = rd /\ UNCHANGED <<when, cur, prev>> /\ (Timed' => Timed) /\ writer = "indexing"
    BY <1>3 DEF RotateIndex, Timed
  <2>2. ~There(cur)
    BY <2>1 DEF ShapeInv
  <2> QED
    BY <2>1, <2>2 DEF Grown, Kept
<1>4. ASSUME RotateOpen PROVE rd' = rd /\ Grown
  <2>1. /\ rd' = rd /\ UNCHANGED <<prev, prevIdx>> /\ cur' \in {cur, Opened}
        /\ when' = when \/ Arrive(chunk, now)
    BY <1>4 DEF RotateOpen
  <2>2. Timed' => Timed
    BY <1>4 DEF RotateOpen, Timed
  <2> QED
    BY <1>a, <1>c, <1>d, <2>1, <2>2
<1>5. ASSUME MarkIndex PROVE rd' = rd /\ Grown
  <2>1. PICK t \in now..MaxTime : Arrive(chunk, t)
    BY <1>5 DEF MarkIndex
  <2>2. t \in Nat
    BY <1>a, Constants
  <2>3. rd' = rd /\ UNCHANGED <<cur, prev, prevIdx>> /\ (Timed' => Timed)
    BY <1>5 DEF MarkIndex, Timed
  <2> QED
    BY <1>a, <1>c, <1>d, <2>1, <2>2, <2>3
<1>6. ASSUME Write PROVE rd' = rd /\ Grown
  <2>1. PICK j \in 0..chunk :
             /\ cur'.id = cur.id /\ Len(cur'.data) = Len(cur.data) + j /\ cur'.data \in Seq(Nat)
             /\ \A i \in 1..Len(cur.data) : cur'.data[i] = cur.data[i]
             /\ \A i \in (Len(cur.data) + 1)..(Len(cur.data) + j) :
                    cur'.data[i] = Len(when) - chunk + (i - Len(cur.data))
    BY <1>6, Written
  <2>2. rd' = rd /\ UNCHANGED <<when, prev, prevIdx, odd>> /\ writer = "writing"
    BY <1>6 DEF Write
  <2>3. ASSUME NEW b \in Emitted, b \in Range(cur'.data) PROVE b \in Range(cur.data)
    <3> DEFINE a == Len(cur.data)
               w == Len(when)
               c == chunk
               new == cur'.data
    <3>1. a \in Nat /\ w \in Nat /\ c \in Nat /\ j \in 0..c /\ DOMAIN new = 1..(a + j)
      BY <1>a, <2>1
    <3>2. PICK i \in 1..(a + j) : b = new[i]
      BY <2>3, <3>1 DEF Range
    <3>3. b \in 1..(w - c)
      BY <2>2 DEF Emitted, Pending
    <3>4. \A m \in (a + 1)..(a + j) : new[m] = w - c + (m - a)
      BY <2>1
    <3>5. i \in 1..a
      <4> HIDE DEF a, w, c, new
      <4>1. ASSUME i \in (a + 1)..(a + j) PROVE FALSE
        <5>1. b = w - c + (i - a)
          BY <3>2, <3>4, <4>1
        <5> QED
          BY <3>1, <3>3, <4>1, <5>1
      <4> QED
        BY <3>1, <4>1
    <3> QED
      BY <1>a, <2>1, <3>2, <3>5 DEF Range
  <2>4. \A b \in Emitted : b \in Kept' => b \in Kept
    BY <2>2, <2>3 DEF Kept
  <2>5. Len(cur.data) <= Len(cur'.data)
    BY <1>a, <2>1
  <2>6. There(cur') /\ cur'.id = rd.before => Same
    BY <2>1 DEF There, Same
  <2> QED
    BY <1>a, <2>1, <2>2, <2>4, <2>5, <2>6 DEF Grown, Timed
<1> QED
  BY <1>1, <1>2, <1>3, <1>4, <1>5, <1>6

\* A reader keeps what it has while the writer goes on.
LEMMA ReadKeptByWriter == ASSUME IInv, Types', rd' = rd, Grown PROVE ReadInv'
<1>0. Types /\ BytesInv /\ ReadInv
  BY DEF IInv
<1>a. /\ rd.first \subseteq Emitted /\ \A i \in DOMAIN rd.data : rd.data[i] \in Emitted
  BY <1>0 DEF BytesInv
<1>b. /\ rd.data \in Seq(Nat) /\ Len(rd.data) \in Nat /\ Len(cur.data) \in Nat
      /\ cur.data \in Seq(Nat) /\ Len(cur'.data) \in Nat
  <2>1. Len(cur'.data) \in Nat
    BY DEF Types, FileTypes
  <2>2. rd.data \in Seq(Nat) /\ cur.data \in Seq(Nat)
    BY <1>0 DEF Types, FileTypes, ReaderTypes
  <2> QED
    BY <2>1, <2>2
<1>c. rd.first \cap Kept' \subseteq rd.first \cap Kept
  BY <1>a DEF Grown
<1>d. Same' => Same /\ prev' = prev /\ prevIdx' = prevIdx
  BY DEF Grown, Same, There
<1>1. Complete => Complete'
  <2> SUFFICES ASSUME Complete, NEW b \in rd.first, b \in Kept', when'[b] >= Since' + Second
               PROVE  b \in Range(rd.data)
    BY DEF Complete
  <2>1. b \in Emitted /\ b \in Kept
    BY <1>a, <1>c
  <2>2. when'[b] = when[b] /\ Since' = Since
    BY <2>1 DEF Grown, Since
  <2> QED
    BY <2>1, <2>2 DEF Complete
<1>2. Accurate => Accurate'
  BY <1>a DEF Accurate, Grown, Since
<1>3. rd.at = "tailGeneration" => (Have(Range(rd.data) \cup Range(prev.data)))'
  <2> SUFFICES ASSUME rd.at = "tailGeneration", NEW b \in rd.first, b \in Kept'
               PROVE  b \in Range(rd.data) \/ b \in Range(prev'.data)
    BY DEF Have
  <2>1. CASE prev' = prev
    BY <1>0, <1>c, <2>1 DEF ReadInv, Have
  <2>2. CASE prev' = cur /\ cur'.data = <<>>
    <3>1. b \in Range(prev'.data)
      BY <2>2 DEF Kept, Range
    <3> QED
      BY <3>1
  <2> QED
    BY <2>1, <2>2 DEF Grown
<1>4. rd.at = "tail" => (Have(Range(rd.data)))'
  BY <1>0, <1>c DEF ReadInv, Have
<1>5. ASSUME rd.at \in {"prevIndex", "curIndex", "generation"}, Same'
      PROVE  (/\ Len(rd.data) <= Len(cur.data)
              /\ \A i \in DOMAIN rd.data : rd.data[i] = cur.data[i]
              /\ Have(Range(rd.data) \cup Range(prev.data)))'
  <2>1. /\ Len(rd.data) <= Len(cur.data)
        /\ \A i \in DOMAIN rd.data : rd.data[i] = cur.data[i]
        /\ Have(Range(rd.data) \cup Range(prev.data))
    BY <1>0, <1>5, <1>d DEF ReadInv
  <2>2. Len(cur.data) <= Len(cur'.data) /\ \A i \in DOMAIN cur.data : cur'.data[i] = cur.data[i]
    BY <1>5 DEF Grown, Same, There
  <2>3. DOMAIN rd.data \subseteq DOMAIN cur.data
    BY <1>b, <2>1
  <2>4. Len(rd.data) <= Len(cur'.data)
    BY <1>b, <2>1, <2>2
  <2> QED
    BY <1>5, <1>c, <1>d, <2>1, <2>2, <2>3, <2>4 DEF Have
<1>6. ASSUME rd.at = "generation", Same', Timed'
      PROVE  (/\ \A i \in DOMAIN rd.data : when[rd.data[i]] >= Since + Second
              /\ rd.curMarks # <<>> => rd.curMarks[1].offset = 0)'
  <2>1. Same /\ Timed
    BY <1>6, <1>d DEF Grown
  <2> QED
    BY <1>0, <1>6, <1>a, <2>1 DEF ReadInv, Grown, Since
<1>7. rd.at = "check" /\ Same' /\ Timed' => Complete' /\ Accurate'
  BY <1>0, <1>1, <1>2, <1>d DEF ReadInv, Grown
<1>8. rd.at = "since" /\ ~rd.turned /\ Timed' => Complete' /\ Accurate'
  BY <1>0, <1>1, <1>2 DEF ReadInv, Grown
<1>9. rd.at \in {"curIndex", "generation"} /\ Same' => (rd.prevMarks = prevIdx)'
  BY <1>0, <1>d DEF ReadInv
<1>10. /\ rd.at \in {"stat", "data", "prevIndex", "curIndex", "generation"} => rd.unknown = 0
       /\ rd.at = "generation" => rd.prevMarks # <<>> \/ rd.curMarks # <<>>
  BY <1>0 DEF ReadInv
<1> QED
  BY <1>3, <1>4, <1>5, <1>6, <1>7, <1>8, <1>9, <1>10 DEF ReadInv

\* What a reader gets and gives in its own steps.
LEMMA ReadKeptByReader ==
    ASSUME IInv, Types',
           \/ \E s \in 0..(MaxTime \div Second) : BeginSince(s)
           \/ Stat \/ ReadData \/ ReadPrevIndex \/ ReadCurIndex \/ ReadGeneration \/ Check
           \/ BeginTail \/ TailData \/ TailGeneration \/ Finish
    PROVE  ReadInv'
<1>0. Types /\ ShapeInv /\ BytesInv /\ TimeInv /\ IndexInv /\ ReadInv
  BY DEF IInv
<1> USE <1>0
<1>a. /\ rd.data \in Seq(Nat) /\ cur.data \in Seq(Nat) /\ prev.data \in Seq(Nat)
      /\ Len(rd.data) \in Nat /\ Len(cur.data) \in Nat /\ Len(prev.data) \in Nat
      /\ rd.since \in Nat /\ Since \in Nat /\ Second \in Nat /\ MarkEvery \in Nat /\ Second > 0
      /\ curIdx \in Seq(Marks) /\ prevIdx \in Seq(Marks)
      /\ DOMAIN cur.data = 1..Len(cur.data) /\ DOMAIN prev.data = 1..Len(prev.data)
      /\ DOMAIN rd.data = 1..Len(rd.data)
  <2>1. rd.since \in Nat
    BY DEF Types, ReaderTypes
  <2>2. Since \in Nat
    BY <2>1, Seconds DEF Since
  <2>3. /\ rd.data \in Seq(Nat) /\ cur.data \in Seq(Nat) /\ prev.data \in Seq(Nat)
        /\ curIdx \in Seq(Marks) /\ prevIdx \in Seq(Marks)
    BY DEF Types, FileTypes, ReaderTypes
  <2>4. Second \in Nat /\ MarkEvery \in Nat /\ Second > 0
    BY Constants
  <2> QED
    BY <2>1, <2>2, <2>3, <2>4
<1>k. Since \in Nat /\ Second \in Nat /\ MarkEvery \in Nat /\ Second > 0 /\ rd.since \in Nat
  BY <1>a
<1>b. ~rd.turned \/ rd.at = "since"
  BY DEF ShapeInv
<1>c. /\ UNCHANGED <<when, cur, prev, curIdx, prevIdx, odd>> /\ Kept' = Kept /\ (Timed' => Timed)
  BY ReadersOnly DEF ReaderOnly, files, Kept, Timed
<1>d. /\ Rising(cur.data) /\ Rising(prev.data)
      /\ \A i \in DOMAIN prev.data, j \in DOMAIN cur.data : prev.data[i] < cur.data[j]
  BY DEF BytesInv
<1>e. \A b \in Emitted : when[b] \in Nat
  <2>1. Len(when) \in Nat /\ Pending \in Nat /\ \A b \in 1..Len(when) : when[b] \in Nat
    BY DEF Types, Pending
  <2> QED
    BY <2>1 DEF Emitted
<1>f. /\ \A k \in DOMAIN cur.data : when[cur.data[k]] \in Nat
      /\ \A k \in DOMAIN prev.data : when[prev.data[k]] \in Nat
      /\ \A k \in DOMAIN rd.data : when[rd.data[k]] \in Nat
  BY <1>e DEF BytesInv
<1>g. ASSUME Same, Timed
      PROVE  /\ Index(curIdx, cur.data, when) /\ Index(prevIdx, prev.data, when)
             /\ curIdx # <<>> =>
                   \A k \in DOMAIN prev.data : when[prev.data[k]] < curIdx[1].at * Second + Second
  <2>1. writer # "indexing"
    BY <1>g DEF Same, ShapeInv
  <2> QED
    BY <1>g, <2>1 DEF IndexInv, MarksInv
<1>h. rd.at \in {"prevIndex", "curIndex", "generation"} /\ Same =>
          /\ Len(rd.data) <= Len(cur.data)
          /\ \A i \in DOMAIN rd.data : rd.data[i] = cur.data[i] /\ i \in DOMAIN cur.data
          /\ Have(Range(rd.data) \cup Range(prev.data))
  <2> SUFFICES ASSUME rd.at \in {"prevIndex", "curIndex", "generation"}, Same
               PROVE  /\ Len(rd.data) <= Len(cur.data)
                      /\ \A i \in DOMAIN rd.data : rd.data[i] = cur.data[i] /\ i \in DOMAIN cur.data
                      /\ Have(Range(rd.data) \cup Range(prev.data))
    OBVIOUS
  <2>1. Len(rd.data) <= Len(cur.data)
    BY DEF ReadInv
  <2>2. DOMAIN rd.data \subseteq DOMAIN cur.data
    BY <1>a, <2>1
  <2> QED
    BY <2>1, <2>2 DEF ReadInv
\* A reader that goes no further, or that has only begun.
<1>1. ASSUME rd'.at \in {"idle", "none", "tailData"} PROVE ReadInv'
  BY <1>1 DEF ReadInv
<1>2. ASSUME rd'.at \in {"stat", "data"}, rd'.unknown = 0 PROVE ReadInv'
  BY <1>2 DEF ReadInv
<1>3. ASSUME \E s \in 0..(MaxTime \div Second) : BeginSince(s) PROVE ReadInv'
  BY <1>2, <1>3, <1>b, ReaderSteps DEF Begun
<1>4. ASSUME BeginTail \/ Finish PROVE ReadInv'
  BY <1>1, <1>4, <1>b, ReaderSteps DEF Begun, Ended
<1>5. ASSUME Stat PROVE ReadInv'
  <2>1. rd.unknown = 0
    BY <1>5 DEF Stat, ReadInv
  <2> QED
    BY <1>1, <1>2, <1>5, <1>b, <2>1, ReaderSteps DEF Goes, Ended
<1>6. ASSUME ReadData PROVE ReadInv'
  <2>1. CASE Ended
    BY <1>1, <2>1 DEF Ended
  <2>2. CASE Goes("prevIndex") /\ rd'.data = cur.data /\ rd'.unknown = rd.unknown
    <3>1. rd.unknown = 0
      BY <1>6 DEF ReadData, ReadInv
    <3>2. (Have(Range(rd.data) \cup Range(prev.data)))'
      BY <1>c, <2>2 DEF Have, Kept
    <3>3. (Len(rd.data) <= Len(cur.data) /\ \A i \in DOMAIN rd.data : rd.data[i] = cur.data[i])'
      BY <1>a, <1>c, <2>2
    <3> QED
      BY <2>2, <3>1, <3>2, <3>3 DEF ReadInv, Goes
  <2> QED
    BY <1>6, <1>b, <2>1, <2>2, ReaderSteps
<1>7. ASSUME ReadPrevIndex PROVE ReadInv'
  <2>1. Goes("curIndex") /\ rd'.before = rd.before /\ rd'.data = rd.data
        /\ rd'.unknown = rd.unknown /\ rd'.prevMarks = prevIdx
    BY <1>7, <1>b, ReaderSteps
  <2>2. rd.at = "prevIndex" /\ rd.unknown = 0
    BY <1>7 DEF ReadPrevIndex, ReadInv
  <2>3. Same' => Same
    BY <1>c, <2>1 DEF Same, There
  <2>4. Same' => (/\ Len(rd.data) <= Len(cur.data)
                  /\ \A i \in DOMAIN rd.data : rd.data[i] = cur.data[i]
                  /\ Have(Range(rd.data) \cup Range(prev.data)))'
    BY <1>c, <1>h, <2>1, <2>2, <2>3 DEF Have, Goes
  <2> QED
    BY <1>c, <2>1, <2>2, <2>4 DEF ReadInv, Goes
<1>8. ASSUME ReadCurIndex PROVE ReadInv'
  <2> DEFINE off == SinceStart(curIdx, rd.since, Len(rd.data))
  <2>0. rd.at = "curIndex" /\ rd.unknown = 0
    BY <1>8 DEF ReadCurIndex, ReadInv
  <2>1. \/ off = -1 /\ (curIdx # <<>> => rd.since < curIdx[1].at)
        \/ /\ off \in 0..Len(rd.data)
           /\ \E i \in DOMAIN curIdx : BeginsAt(curIdx, rd.since, Len(rd.data), off, i)
    BY <1>a, SinceFound
  <2>2. CASE Ended
    BY <1>1, <2>2 DEF Ended
  <2>3. CASE /\ off # -1 /\ Goes("check") /\ rd'.before = rd.before
             /\ rd'.data = From(rd.data, off) /\ rd'.unknown = rd.unknown
    <3> SUFFICES ASSUME Same', Timed' PROVE Complete' /\ Accurate'
      BY <2>3 DEF ReadInv, Goes
    <3>1. Same /\ Timed
      BY <1>c, <2>3 DEF Same, There
    <3>2. PICK i \in DOMAIN curIdx : BeginsAt(curIdx, rd.since, Len(rd.data), off, i)
      BY <2>1, <2>3
    <3>3. off \in 0..Len(rd.data)
      BY <2>1, <2>3
    <3> HIDE DEF off
    <3>4. /\ Len(rd.data) \in 0..Len(cur.data)
          /\ \A m \in DOMAIN rd.data : rd.data[m] = cur.data[m] /\ m \in DOMAIN cur.data
      BY <1>a, <1>h, <2>0, <3>1
    <3>5. /\ \A k \in 1..off : when[cur.data[k]] < Since + Second
          /\ \A k \in (off + 1)..Len(rd.data) : when[cur.data[k]] > Since - MarkEvery - Second
      BY <1>a, <1>f, <1>g, <3>1, <3>2, <3>3, <3>4, RightPlace DEF Since
    <3>6. Rising(rd.data)
      BY <1>d, <3>4 DEF Rising
    <3>7. /\ From(rd.data, off) \in Seq(Nat) /\ Rising(From(rd.data, off))
          /\ \A m \in (off + 1)..Len(rd.data) : rd.data[m] \in Range(From(rd.data, off))
          /\ \A m \in DOMAIN From(rd.data, off) :
                m + off \in (off + 1)..Len(rd.data) /\ From(rd.data, off)[m] = rd.data[m + off]
      BY <1>a, <3>3, <3>6, RestRises
    <3>8. Complete'
      <4> SUFFICES ASSUME NEW b \in rd.first, b \in Kept, when[b] >= Since + Second
                   PROVE  b \in Range(From(rd.data, off))
        BY <1>c, <2>3 DEF Complete, Since, Goes
      <4>1. b \in Range(rd.data) \cup Range(prev.data)
        BY <1>h, <2>0, <3>1 DEF Have
      <4>2. CASE b \in Range(rd.data)
        <5>1. PICK k \in DOMAIN rd.data : b = rd.data[k]
          BY <4>2 DEF Range
        <5>2. ~(k \in 1..off)
          <6>1. when[b] \in Nat
            BY <1>f, <5>1
          <6>2. b = cur.data[k]
            BY <3>4, <5>1
          <6> QED
            BY <1>a, <3>5, <6>1, <6>2
        <5>3. k \in (off + 1)..Len(rd.data)
          BY <1>a, <3>3, <5>2
        <5> QED
          BY <3>7, <5>1, <5>3
      <4>3. CASE b \in Range(prev.data)
        <5>1. PICK k \in DOMAIN prev.data : b = prev.data[k]
          BY <4>3 DEF Range
        <5>2. when[b] < curIdx[1].at * Second + Second /\ when[b] \in Nat
          BY <1>f, <1>g, <3>1, <3>2, <5>1
        <5>3. curIdx[1].at <= curIdx[i].at /\ curIdx[i].at <= rd.since
              /\ curIdx[1].at \in Nat /\ curIdx[i].at \in Nat
          <6>1. DOMAIN curIdx = 1..Len(curIdx) /\ Len(curIdx) \in Nat
            BY <1>a
          <6>2. 1 \in DOMAIN curIdx /\ i \in Nat /\ (i = 1 \/ 1 < i)
            BY <3>2, <6>1
          <6>3. curIdx[1] \in Marks /\ curIdx[i] \in Marks
            BY <1>a, <6>2
          <6>4. curIdx[1].at \in Nat /\ curIdx[i].at \in Nat
            BY <6>3 DEF Marks
          <6>5. curIdx[1].at <= curIdx[i].at
            BY <1>g, <3>1, <6>2, <6>4 DEF Index
          <6> QED
            BY <3>2, <6>4, <6>5 DEF BeginsAt
        <5>4. curIdx[1].at * Second <= Since /\ curIdx[1].at * Second \in Nat
          <6>1. curIdx[1].at <= rd.since
            BY ONLY <1>a, <5>3
          <6> QED
            BY <1>a, <5>3, <6>1, Seconds DEF Since
        <5> QED
          BY <1>a, <5>2, <5>4
      <4> QED
        BY <4>1, <4>2, <4>3
    <3>9. Accurate'
      <4> DEFINE d == From(rd.data, off)
      <4>1. \A m \in DOMAIN d : m > 1 => d[m - 1] < d[m]
        <5>1. DOMAIN d = 1..Len(d) /\ Len(d) \in Nat /\ Rising(d)
          BY <3>7
        <5> HIDE DEF d
        <5> SUFFICES ASSUME NEW m \in DOMAIN d, m > 1 PROVE d[m - 1] < d[m]
          OBVIOUS
        <5>2. m - 1 \in DOMAIN d /\ m - 1 < m
          BY <5>1
        <5> QED
          BY <5>1, <5>2 DEF Rising
      <4>2. \A m \in DOMAIN d : when[d[m]] > Since - MarkEvery - Second
        <5> TAKE m \in DOMAIN d
        <5>1. m + off \in (off + 1)..Len(rd.data) /\ d[m] = rd.data[m + off]
          BY <3>7
        <5>2. m + off \in DOMAIN rd.data
          BY <1>a, <3>3, <5>1
        <5> QED
          BY <3>4, <3>5, <5>1, <5>2
      <4> QED
        BY <1>c, <2>3, <4>1, <4>2 DEF Accurate, Since, Goes
    <3> QED
      BY <3>8, <3>9
  <2>4. CASE /\ off = -1 /\ Goes("generation") /\ rd'.before = rd.before
             /\ rd'.data = rd.data /\ rd'.unknown = rd.unknown
             /\ rd'.prevMarks = rd.prevMarks /\ rd'.curMarks = curIdx
             /\ rd.prevMarks # <<>> \/ curIdx # <<>>
    <3>1. curIdx # <<>> => rd.since < curIdx[1].at
      BY <2>1, <2>4
    <3>2. Same' => Same
      BY <1>c, <2>4 DEF Same, There
    <3>3. Same' => (/\ Len(rd.data) <= Len(cur.data)
                    /\ \A i \in DOMAIN rd.data : rd.data[i] = cur.data[i]
                    /\ Have(Range(rd.data) \cup Range(prev.data)))'
      BY <1>c, <1>h, <2>0, <2>4, <3>2 DEF Have, Goes
    <3>4. Same' => rd'.prevMarks = prevIdx'
      BY <1>c, <2>0, <2>4, <3>2 DEF ReadInv
    <3>5. ASSUME Same', Timed'
          PROVE  /\ \A i \in DOMAIN rd.data : when[rd.data[i]] >= Since + Second
                 /\ curIdx # <<>> => curIdx[1].offset = 0
      <4>1. Index(curIdx, cur.data, when)
        BY <1>c, <1>g, <3>2, <3>5
      <4>2. curIdx # <<>> => curIdx[1].offset = 0
        BY <4>1 DEF Index
      <4>3. ASSUME NEW i \in DOMAIN rd.data PROVE when[rd.data[i]] >= Since + Second
        <5>1. i \in DOMAIN cur.data /\ rd.data[i] = cur.data[i] /\ i \in Nat /\ i > 0
          <6>1. Len(rd.data) <= Len(cur.data) /\ rd.data[i] = cur.data[i]
            BY <1>h, <2>0, <3>2, <3>5
          <6> QED
            BY ONLY <1>a, <6>1, i \in DOMAIN rd.data
        <5>2. curIdx # <<>>
          <6>1. cur.data # <<>>
            BY <5>1
          <6> QED
            BY <4>1, <6>1 DEF Index
        <5>3. 1 \in DOMAIN curIdx
          BY <1>a, <5>2
        <5>4. curIdx[1].at \in Nat
          <6>1. curIdx[1] \in Marks
            BY <1>a, <5>3
          <6> QED
            BY <6>1 DEF Marks
        <5>5. when[cur.data[i]] >= curIdx[1].at * Second
          BY <4>1, <4>2, <5>1, <5>2, <5>3 DEF Index
        <5>6. Since + Second <= curIdx[1].at * Second /\ curIdx[1].at * Second \in Nat
          BY <1>a, <3>1, <5>2, <5>4, Seconds DEF Since
        <5>7. when[cur.data[i]] \in Nat
          BY <1>f, <5>1
        <5>8. ASSUME NEW x \in Nat, NEW y \in Nat, x >= y, Since + Second <= y
              PROVE  x >= Since + Second
          BY <1>k, <5>8
        <5> QED
          BY <5>1, <5>5, <5>6, <5>7, <5>8
      <4> QED
        BY <4>2, <4>3
    <3>6. Since' = Since
      BY <2>4 DEF Since, Goes
    <3>7. Same' /\ Timed' => (/\ \A i \in DOMAIN rd.data : when[rd.data[i]] >= Since + Second
                              /\ rd.curMarks # <<>> => rd.curMarks[1].offset = 0)'
      BY <1>c, <2>4, <3>5, <3>6
    <3> QED
      BY <2>0, <2>4, <3>3, <3>4, <3>7 DEF ReadInv, Goes
  <2> QED
    BY <1>8, <1>b, <2>2, <2>3, <2>4, ReaderSteps
<1>9. ASSUME ReadGeneration PROVE ReadInv'
  <2> DEFINE off == SinceStart(rd.prevMarks, rd.since, Len(prev.data))
             begins == IF off # -1 THEN From(prev.data, off) ELSE prev.data
             r == rd.data
  <2>0. rd.at = "generation" /\ (rd.prevMarks # <<>> \/ rd.curMarks # <<>>)
    BY <1>9 DEF ReadGeneration, ReadInv
  <2>1. /\ Goes("check") /\ rd'.before = rd.before
        /\ rd'.data = begins \o r
        /\ off # -1 => rd'.unknown = 0
        /\ off = -1 => rd'.unknown =
                          IF rd.prevMarks # <<>> THEN rd.prevMarks[1].offset
                          ELSE IF prev.data # <<>> THEN Len(prev.data)
                          ELSE rd.curMarks[1].offset
    BY <1>9, <1>b, ReaderSteps
  <2> SUFFICES ASSUME Same', Timed' PROVE Complete' /\ Accurate'
    BY <2>1 DEF ReadInv, Goes
  <2>2. Same /\ Timed
    BY <1>c, <2>1 DEF Same, There
  <2>3. /\ rd.prevMarks = prevIdx
        /\ \A i \in DOMAIN r : when[r[i]] >= Since + Second
        /\ rd.curMarks # <<>> => rd.curMarks[1].offset = 0
    BY <2>0, <2>2 DEF ReadInv
  <2>4. Index(prevIdx, prev.data, when)
    BY <1>g, <2>2
  <2>5. Rising(r) /\ \A i \in DOMAIN prev.data, j \in DOMAIN r : prev.data[i] < r[j]
    BY <1>d, <1>h, <2>0, <2>2 DEF Rising
  <2>6. \/ off = -1 /\ (prevIdx # <<>> => rd.since < prevIdx[1].at)
        \/ /\ off \in 0..Len(prev.data)
           /\ \E i \in DOMAIN prevIdx : BeginsAt(prevIdx, rd.since, Len(prev.data), off, i)
    BY <1>a, <2>3, SinceFound
  <2> HIDE DEF off
  <2>7. /\ begins \in Seq(Nat) /\ Rising(begins)
        /\ \A i \in DOMAIN begins : begins[i] \in Range(prev.data)
        /\ \A b \in Range(prev.data) : when[b] >= Since + Second => b \in Range(begins)
        /\ \A i \in DOMAIN begins : when[begins[i]] > Since - MarkEvery - Second
        /\ rd'.unknown = 0
    <3>1. CASE off = -1
      <4>1. begins = prev.data
        BY <3>1
      <4>2. rd'.unknown = 0
        <5>1. CASE rd.prevMarks # <<>>
          BY <2>1, <2>3, <2>4, <3>1, <5>1 DEF Index
        <5>2. CASE rd.prevMarks = <<>>
          <6>1. prev.data = <<>>
            BY <2>3, <2>4, <5>2 DEF Index
          <6> QED
            BY <2>0, <2>1, <2>3, <3>1, <5>2, <6>1
        <5> QED
          BY <5>1, <5>2
      <4>3. ASSUME NEW k \in DOMAIN prev.data PROVE when[prev.data[k]] > Since - MarkEvery - Second
        <5>1. prevIdx # <<>>
          <6>1. prev.data # <<>>
            OBVIOUS
          <6> QED
            BY <2>4, <6>1 DEF Index
        <5>2. 1 \in DOMAIN prevIdx /\ k \in Nat /\ k > 0
          BY <1>a, <5>1
        <5>3. prevIdx[1].at \in Nat
          <6>1. prevIdx[1] \in Marks
            BY <1>a, <5>2
          <6> QED
            BY <6>1 DEF Marks
        <5>4. when[prev.data[k]] >= prevIdx[1].at * Second
          BY <2>4, <5>1, <5>2 DEF Index
        <5>5. Since + Second <= prevIdx[1].at * Second /\ prevIdx[1].at * Second \in Nat
          <6>1. rd.since < prevIdx[1].at
            BY <2>6, <3>1, <5>1
          <6> QED
            BY <1>k, <5>3, <6>1, Seconds DEF Since
        <5>6. when[prev.data[k]] \in Nat
          BY <1>f
        <5>8. ASSUME NEW x \in Nat, NEW y \in Nat, x >= y, Since + Second <= y
              PROVE  x > Since - MarkEvery - Second
          BY <1>k, <5>8
        <5> QED
          BY <5>4, <5>5, <5>6, <5>8
      <4> QED
        BY <1>a, <1>d, <4>1, <4>2, <4>3 DEF Range
    <3>2. CASE off # -1
      <4>1. begins = From(prev.data, off) /\ off \in 0..Len(prev.data)
        BY <2>6, <3>2
      <4>2. PICK i \in DOMAIN prevIdx : BeginsAt(prevIdx, rd.since, Len(prev.data), off, i)
        BY <2>6, <3>2
      <4>3. /\ \A k \in 1..off : when[prev.data[k]] < Since + Second
            /\ \A k \in (off + 1)..Len(prev.data) :
                  when[prev.data[k]] > Since - MarkEvery - Second
        <5>1. Len(prev.data) \in 0..Len(prev.data)
          BY <1>a
        <5> QED
          BY <1>a, <1>f, <2>4, <4>1, <4>2, <5>1, RightPlace DEF Since
      <4>4. /\ begins \in Seq(Nat) /\ Rising(begins)
            /\ \A m \in (off + 1)..Len(prev.data) : prev.data[m] \in Range(begins)
            /\ \A m \in DOMAIN begins :
                  m + off \in (off + 1)..Len(prev.data) /\ begins[m] = prev.data[m + off]
        <5>1. prev.data \in Seq(Nat) /\ Rising(prev.data)
          BY <1>a, <1>d
        <5> HIDE DEF begins
        <5> QED
          BY <4>1, <5>1, RestRises
      <4> HIDE DEF begins
      <4>5. ASSUME NEW b \in Range(prev.data), when[b] >= Since + Second PROVE b \in Range(begins)
        <5>1. PICK k \in DOMAIN prev.data : b = prev.data[k]
          BY DEF Range
        <5>2. ~(k \in 1..off)
          BY <1>a, <1>f, <4>3, <4>5, <5>1
        <5>3. k \in (off + 1)..Len(prev.data)
          BY <1>a, <4>1, <5>2
        <5> QED
          BY <4>4, <5>1, <5>3
      <4>6. \A m \in DOMAIN begins : begins[m] \in Range(prev.data)
                                     /\ when[begins[m]] > Since - MarkEvery - Second
        <5> TAKE m \in DOMAIN begins
        <5>1. m + off \in DOMAIN prev.data
          BY <1>a, <4>1, <4>4
        <5> QED
          BY <4>3, <4>4, <5>1 DEF Range
      <4>7. rd'.unknown = 0
        BY <2>1, <3>2
      <4> QED
        BY <4>4, <4>5, <4>6, <4>7
    <3> QED
      BY <3>1, <3>2
  <2> HIDE DEF begins
  <2>8. \A i \in DOMAIN begins, j \in DOMAIN r : begins[i] < r[j]
    BY <2>5, <2>7 DEF Range
  <2> DEFINE d == begins \o r
  <2>9. /\ d \in Seq(Nat) /\ Rising(d) /\ Range(d) = Range(begins) \cup Range(r)
        /\ \A i \in DOMAIN d : \/ i \in DOMAIN begins /\ d[i] = begins[i]
                               \/ i - Len(begins) \in DOMAIN r /\ d[i] = r[i - Len(begins)]
    BY <1>a, <2>5, <2>7, <2>8, Joined
  <2>10. rd'.data = d /\ Since' = Since /\ rd'.first = rd.first
    BY <2>1 DEF Since, Goes
  <2> HIDE DEF d
  <2>11. Complete'
    <3> SUFFICES ASSUME NEW b \in rd.first, b \in Kept, when[b] >= Since + Second
                 PROVE  b \in Range(d)
      BY <1>c, <2>10 DEF Complete
    <3>1. b \in Range(r) \cup Range(prev.data)
      BY <1>h, <2>0, <2>2 DEF Have
    <3> QED
      BY <2>7, <2>9, <3>1
  <2>12. Accurate'
    <3>1. \A m \in DOMAIN d : m > 1 => d[m - 1] < d[m]
      <4>1. DOMAIN d = 1..Len(d) /\ Len(d) \in Nat /\ Rising(d)
        BY <2>9
      <4> SUFFICES ASSUME NEW m \in DOMAIN d, m > 1 PROVE d[m - 1] < d[m]
        OBVIOUS
      <4>2. m - 1 \in DOMAIN d /\ m - 1 < m
        BY <4>1
      <4> QED
        BY <4>1, <4>2 DEF Rising
    <3>2. \A m \in DOMAIN d : when[d[m]] > Since - MarkEvery - Second
      <4> TAKE m \in DOMAIN d
      <4>1. CASE m \in DOMAIN begins /\ d[m] = begins[m]
        BY <2>7, <4>1
      <4>2. CASE m - Len(begins) \in DOMAIN r /\ d[m] = r[m - Len(begins)]
        <5>1. when[d[m]] \in Nat /\ when[d[m]] >= Since + Second
          BY <1>f, <2>3, <4>2
        <5> QED
          BY <1>a, <5>1
      <4> QED
        BY <2>9, <4>1, <4>2
    <3> QED
      BY <1>c, <2>10, <3>1, <3>2 DEF Accurate
  <2> QED
    BY <2>11, <2>12
<1>10. ASSUME Check PROVE ReadInv'
  <2>1. CASE Goes("stat") /\ rd'.unknown = 0
    BY <1>2, <2>1 DEF Goes
  <2>2. CASE /\ rd'.at = "since" /\ rd'.since = rd.since /\ rd'.first = rd.first
             /\ rd'.data = rd.data /\ rd'.unknown = rd.unknown /\ rd'.turned = ~Same
    <3>1. Complete' = Complete /\ Accurate' = Accurate
      BY <1>c, <2>2 DEF Complete, Accurate, Since
    <3>2. rd.at = "check"
      BY <1>10 DEF Check
    <3>3. ~rd'.turned /\ Timed' => Complete' /\ Accurate'
      BY <1>c, <2>2, <3>1, <3>2 DEF ReadInv
    <3> QED
      BY <2>2, <3>3 DEF ReadInv
  <2> QED
    BY <1>10, <1>b, <2>1, <2>2, ReaderSteps
<1>11. ASSUME TailData PROVE ReadInv'
  <2>1. CASE Ended
    BY <1>1, <2>1 DEF Ended
  <2>2. CASE Goes("tailGeneration") /\ rd'.data = cur.data
    BY <1>c, <2>2 DEF ReadInv, Have, Kept, Goes
  <2> QED
    BY <1>11, <1>b, <2>1, <2>2, ReaderSteps
<1>12. ASSUME TailGeneration PROVE ReadInv'
  <2>1. Goes("tail") /\ rd'.data = prev.data \o rd.data
    BY <1>12, <1>b, ReaderSteps
  <2>2. Have(Range(rd.data) \cup Range(prev.data))
    BY <1>12 DEF TailGeneration, ReadInv
  <2>3. Range(rd'.data) = Range(prev.data) \cup Range(rd.data)
    <3>1. Rising(prev.data) /\ prev.data \in Seq(Nat) /\ rd.data \in Seq(Nat)
      BY <1>a, <1>d
    <3> QED
      BY <2>1, <3>1, RangeConcatenation
  <2> QED
    BY <1>c, <2>1, <2>2, <2>3 DEF ReadInv, Have, Goes
<1> QED
  BY <1>3, <1>4, <1>5, <1>6, <1>7, <1>8, <1>9, <1>10, <1>11, <1>12

----------------------------------------------------------------------------
(* What follows from them. *)

\* So every step keeps the invariant,
LEMMA Inductive == ASSUME IInv, [Next]_vars PROVE IInv'
<1>1. Types'
  BY TypesKept
<1>2. ShapeInv' /\ BytesInv' /\ TimeInv' /\ IndexInv' /\ LimitInv'
  BY ShapeKept, BytesKept, TimesKept, IndexesKept, LimitKept
<1>3. ReadInv'
  <2>1. CASE \/ \E k \in 1..MaxChunk : Emit(k)
             \/ RotateData \/ RotateIndex \/ RotateOpen \/ MarkIndex \/ Write
    BY <1>1, <2>1, WriterSteps, ReadKeptByWriter
  <2>2. CASE Restart
    BY <2>2 DEF Restart, ReadInv, NoReader
  <2>3. CASE \/ \E s \in 0..(MaxTime \div Second) : BeginSince(s)
             \/ Stat \/ ReadData \/ ReadPrevIndex \/ ReadCurIndex \/ ReadGeneration \/ Check
             \/ BeginTail \/ TailData \/ TailGeneration \/ Finish
    BY <1>1, <2>3, ReadKeptByReader
  <2>4. CASE UNCHANGED vars
    BY <2>4 DEF IInv, vars, files, sink, ReadInv, Have, Kept, Same, Timed, Complete, Accurate, Since
  <2> QED
    BY <2>1, <2>2, <2>3, <2>4 DEF Next
<1> QED
  BY <1>1, <1>2, <1>3 DEF IInv

\* and it holds throughout.
LEMMA Always == Spec => []IInv
<1>1. Init => IInv
  BY InitIInv
<1>2. IInv /\ [Next]_vars => IInv'
  BY Inductive
<1> QED
  BY <1>1, <1>2, PTL DEF Spec

\* Whatever the writer does to the files under them, both readers give all that was kept
\* when they began and still is when they end; logs, and logs -since past the second named.
THEOREM AnswerCompleteAlways == Spec => []AnswerComplete
<1>1. IInv => AnswerComplete
  BY DEF IInv, ReadInv, Have, Complete, Timed, AnswerComplete
<1> QED
  BY <1>1, Always, PTL

\* What logs -since shows is in the order of the stream, each byte once, and past those it
\* says it has no time for none is older than a mark's interval and a second before the
\* time named.
THEOREM SinceAccurateAlways == Spec => []SinceAccurate
<1>1. IInv => SinceAccurate
  BY DEF IInv, ReadInv, Accurate, Timed, SinceAccurate
<1> QED
  BY <1>1, Always, PTL

\* A log past its limit grows only while its rotation is failing, and its status says so.
THEOREM PastLimitSaidAlways == Spec => PastLimitSaid
<1>1. ASSUME IInv, Next,
             Len(cur'.data) > Len(cur.data), Len(cur'.data) > MaxSize, MaxChunk <= MaxSize
      PROVE  "rotate" \in errs' \/ "stale limit" \in odd'
  <2>0. Types /\ ShapeInv /\ LimitInv
    BY <1>1 DEF IInv
  <2>1. Len(cur.data) \in Nat /\ chunk \in Nat /\ MaxSize \in Nat /\ n \in Nat
    BY <2>0, Constants DEF Types, FileTypes
  <2>2. Write
    <3>1. CASE cur' \in {cur, Opened, NoFile}
      <4>1. Opened.data = cur.data /\ Len(NoFile.data) = 0
        BY <2>0, OpenedFile DEF NoFile
      <4> QED
        BY <1>1, <2>1, <3>1, <4>1
    <3>2. CASE Write
      BY <3>2
    <3>3. ReaderOnly => cur' = cur
      BY DEF ReaderOnly, files
    <3> QED
      BY <1>1, <3>1, <3>2, <3>3, ReadersOnly
         DEF Next, Emit, RotateData, RotateIndex, RotateOpen, MarkIndex, Restart
  <2>3. PICK j \in 0..chunk : Len(cur'.data) = Len(cur.data) + j
    BY <2>0, <2>2, Written
  <2>4. writer = "writing" /\ n = Len(cur.data)
    BY <2>0, <2>2 DEF Write, ShapeInv
  <2>5. n + chunk > MaxSize
    BY <1>1, <2>1, <2>3, <2>4
  <2>6. Said
    BY <1>1, <2>0, <2>4, <2>5 DEF LimitInv
  <2>7. odd' = odd /\ (errs' = errs \ {"write"} \/ errs' = errs \cup {"write"})
    BY <2>2 DEF Write
  <2> QED
    BY <2>6, <2>7 DEF Said
<1>2. IInv /\ [Next]_vars =>
        [Len(cur'.data) > Len(cur.data) /\ Len(cur'.data) > MaxSize /\ MaxChunk <= MaxSize =>
           "rotate" \in errs' \/ "stale limit" \in odd']_vars
  BY <1>1
<1> QED
  BY <1>2, Always, PTL DEF Spec, PastLimitSaid
=============================================================================
