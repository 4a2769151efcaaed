------------------------------ MODULE LogFile ------------------------------
(***************************************************************************)
(* The files of one log (internal/fabric/logfile.go): the current one, the  *)
(* one generation kept of it, and the time index beside each, as they are   *)
(* written, rotated, and read by `logs` and `logs -since` at the same time. *)
(*                                                                         *)
(* A byte is its number in the stream.  Time advances in ticks, several of  *)
(* them to a second, because an index holds whole seconds.  What reaches    *)
(* the writer, and when, is LogSink's subject.                              *)
(***************************************************************************)
EXTENDS Integers, Sequences, Functions, FiniteSets

CONSTANTS MaxSize,    \* LogSink.max
          Second,     \* ticks in a second
          MarkEvery,  \* ticks between index marks, at the least
          Attempts,   \* readings -since gives up after (4 in the code)
          MaxChunk,   \* bound: bytes of one write
          MaxBytes,   \* bound: bytes in a behaviour
          MaxTime,    \* bound: ticks in a behaviour
          MaxFaults   \* bound: file operations that fail, and restarts

ASSUME LogFileAssumption ==
    /\ {MaxSize, Second, MarkEvery, Attempts, MaxChunk} \subseteq Nat \ {0}
    /\ {MaxBytes, MaxTime, MaxFaults} \subseteq Nat

\* As a minute is; the window sinceStart adds to a mark is in whole seconds.
ASSUME WholeSeconds == MarkEvery % Second = 0

VARIABLES now,       \* the clock, as last read
          when,      \* when each byte reached the log
          cur,       \* the log file
          prev,      \* its rotated generation
          curIdx,    \* the index of the first
          prevIdx,   \* and of the second
          writer,    \* pc of LogSink.emit and rotate
          chunk,     \* length of what it is emitting
          open,      \* LogSink.f # nil
          n,         \* LogSink.n
          marked,    \* LogSink.marked, -1 when zero
          notBefore, \* LogSink.noRotateBefore
          errs,      \* which of LogSink.lastErr and rotateErr are set
          rd,        \* the reader
          faults,    \* history: operations that failed, and restarts
          odd        \* history: how the comments' promises came to be void

files == <<cur, prev, curIdx, prevIdx>>
sink == <<writer, chunk, open, n, marked, notBefore, errs>>
vars == <<now, when, files, sink, rd, faults, odd>>

\* id tells one file from the next of the same path; 0 for none.
File == [id : Nat, data : Seq(1..MaxBytes)]
NoFile == [id |-> 0, data |-> <<>>]
There(f) == f.id # 0

Mark == [at : 0..MaxTime, offset : 0..MaxBytes]

\* before, data, prevMarks, curMarks: what was read so far; first: the bytes
\* that were kept when reading began; unknown: LogSince.Unknown; turned: the
\* file changed during every attempt.
Reader == [at : {"idle", "stat", "data", "prevIndex", "curIndex", "generation", "check",
                 "tailData", "tailGeneration", "since", "tail", "none"},
           since : 0..MaxTime, before : Nat,
           data : Seq(1..MaxBytes), prevMarks : Seq(Mark), curMarks : Seq(Mark),
           unknown : 0..MaxBytes, attempt : 1..Attempts, first : SUBSET (1..MaxBytes),
           turned : BOOLEAN]

NoReader == [at |-> "idle", since |-> 0, before |-> 0, data |-> <<>>, prevMarks |-> <<>>,
             curMarks |-> <<>>, unknown |-> 0, attempt |-> 1, first |-> {}, turned |-> FALSE]

TypeOK ==
    /\ now \in 0..MaxTime
    /\ when \in Seq(0..MaxTime) /\ Len(when) <= MaxBytes
    /\ cur \in File /\ prev \in File
    /\ curIdx \in Seq(Mark) /\ prevIdx \in Seq(Mark)
    /\ writer \in {"idle", "rotating", "indexing", "opening", "marking", "writing"}
    /\ chunk \in 0..MaxChunk
    /\ open \in BOOLEAN /\ errs \subseteq {"write", "rotate"}
    /\ n \in 0..MaxBytes
    /\ marked \in -1..MaxTime
    /\ notBefore \in 0..(MaxBytes + MaxSize)
    /\ rd \in Reader
    /\ faults \in 0..MaxFaults
    /\ odd \subseteq {"unindexed", "stale limit"}

\* A log just made.
Init ==
    /\ now = 0 /\ when = <<>>
    /\ cur = [id |-> 1, data |-> <<>>] /\ prev = NoFile
    /\ curIdx = <<>> /\ prevIdx = <<>>
    /\ writer = "idle" /\ chunk = 0 /\ open = TRUE
    /\ n = 0 /\ marked = -1 /\ notBefore = 0 /\ errs = {}
    /\ rd = NoReader /\ faults = 0 /\ odd = {}

Fault == faults < MaxFaults /\ faults' = faults + 1
Works == UNCHANGED faults

Kept == Range(cur.data) \cup Range(prev.data)

----------------------------------------------------------------------------
(* The writer. *)

\* The file as open(O_CREATE) finds or makes it; the last one made was moved aside.
Opened == IF There(cur) THEN cur ELSE [id |-> prev.id + 1, data |-> <<>>]

\* k bytes are done with at time t, whether or not they are kept.
Arrive(k, t) == when' = when \o [i \in 1..k |-> t]

Full(size, k) == size + k > MaxSize /\ size >= notBefore

\* emit: a file that is not open is opened, where it ends.
Emit(k) ==
    /\ writer = "idle" /\ Len(when) + k <= MaxBytes
    /\ \/ /\ open /\ Works
          /\ UNCHANGED <<when, cur, open, n, errs>>
          /\ chunk' = k
          /\ writer' = IF Full(n, k) THEN "rotating" ELSE "marking"
       \/ /\ ~open /\ Works
          /\ open' = TRUE
          /\ cur' = Opened
          /\ n' = Len(cur'.data)
          /\ chunk' = k
          /\ writer' = IF Full(n', k) THEN "rotating" ELSE "marking"
          /\ UNCHANGED <<when, errs>>
       \/ /\ ~open /\ Fault
          /\ Arrive(k, now)
          /\ errs' = errs \cup {"write"}
          /\ UNCHANGED <<writer, chunk, cur, open, n>>
    /\ UNCHANGED <<now, prev, curIdx, prevIdx, marked, notBefore, rd, odd>>

\* rotate closes the file and moves it aside; if it cannot be moved that is said.
RotateData ==
    /\ writer = "rotating"
    /\ open' = FALSE
    /\ \/ /\ Works
          /\ prev' = cur /\ cur' = NoFile
          /\ errs' = errs \ {"rotate"}
          /\ writer' = "indexing"
       \/ /\ Fault
          /\ errs' = errs \cup {"rotate"}
          /\ writer' = "opening"
          /\ UNCHANGED <<cur, prev>>
    /\ UNCHANGED <<now, when, curIdx, prevIdx, chunk, n, marked, notBefore, rd, odd>>

\* The index goes with it, if there is one.
RotateIndex ==
    /\ writer = "indexing"
    /\ \/ /\ Works /\ curIdx # <<>>
          /\ prevIdx' = curIdx /\ curIdx' = <<>>
          /\ UNCHANGED odd
       \/ /\ Works /\ curIdx = <<>>
          /\ UNCHANGED <<curIdx, prevIdx, odd>>
       \/ /\ Fault /\ curIdx # <<>>
          /\ odd' = odd \cup {"unindexed"}
          /\ UNCHANGED <<curIdx, prevIdx>>
    /\ marked' = -1
    /\ writer' = "opening"
    /\ UNCHANGED <<now, when, cur, prev, chunk, open, n, notBefore, errs, rd>>

\* A new file, or the old one again, from where it ends.  When that fails the
\* bytes are dropped, and the limit a failed rotation raised stays raised.
RotateOpen ==
    /\ writer = "opening"
    /\ \/ /\ Works
          /\ open' = TRUE
          /\ cur' = Opened
          /\ n' = Len(cur'.data)
          /\ notBefore' = IF There(cur) THEN n' + MaxSize ELSE 0
          /\ writer' = "marking"
          /\ UNCHANGED <<when, chunk, errs, odd>>
       \/ /\ Fault
          /\ Arrive(chunk, now)
          /\ errs' = errs \cup {"write"}
          /\ odd' = IF There(cur) \/ notBefore = 0 THEN odd ELSE odd \cup {"stale limit"}
          /\ writer' = "idle" /\ chunk' = 0
          /\ UNCHANGED <<cur, open, n, notBefore>>
    /\ UNCHANGED <<now, prev, curIdx, prevIdx, marked, rd>>

\* mark: where the output from this moment on begins.  Nothing else reads the
\* clock, so this is where time passes.
DueMark(t) == marked = -1 \/ t - marked >= MarkEvery

MarkIndex ==
    /\ writer = "marking"
    /\ \E t \in now..MaxTime :
          /\ now' = t
          /\ Arrive(chunk, t)
          /\ \/ /\ ~DueMark(t) /\ Works
                /\ UNCHANGED <<curIdx, marked, odd>>
             \/ /\ DueMark(t) /\ Works
                /\ curIdx' = Append(curIdx, [at |-> t \div Second, offset |-> n])
                /\ marked' = t
                /\ UNCHANGED odd
             \/ /\ DueMark(t) /\ Fault
                /\ odd' = odd \cup {"unindexed"}
                /\ UNCHANGED <<curIdx, marked>>
    /\ writer' = "writing"
    /\ UNCHANGED <<cur, prev, prevIdx, chunk, open, n, notBefore, errs, rd>>

\* Mutant: a write that succeeds forgets that the rotation failed.
WriteClearsAll ==
    /\ writer = "writing"
    /\ cur' = [cur EXCEPT !.data = @ \o [i \in 1..chunk |-> Len(when) - chunk + i]]
    /\ n' = n + chunk
    /\ errs' = {}
    /\ writer' = "idle" /\ chunk' = 0
    /\ UNCHANGED <<now, when, prev, curIdx, prevIdx, open, marked, notBefore, rd, faults, odd>>

\* The bytes that arrived last, and how many of them the file took.
Write ==
    /\ writer = "writing"
    /\ \E j \in 0..chunk :
          /\ cur' = [cur EXCEPT !.data = @ \o [i \in 1..j |-> Len(when) - chunk + i]]
          /\ n' = n + j
          /\ \/ j = chunk /\ Works /\ errs' = errs \ {"write"}
             \/ j < chunk /\ Fault /\ errs' = errs \cup {"write"}
    /\ writer' = "idle" /\ chunk' = 0
    /\ UNCHANGED <<now, when, prev, curIdx, prevIdx, open, marked, notBefore, rd, odd>>

\* The daemon ends where it stands, and the next one opens the log (openLogSink).
Restart ==
    /\ Fault
    /\ cur' = Opened
    /\ writer' = "idle" /\ chunk' = 0 /\ open' = TRUE
    /\ n' = Len(cur'.data) /\ marked' = -1 /\ notBefore' = 0 /\ errs' = {}
    /\ rd' = NoReader
    /\ odd' = IF writer = "indexing" /\ curIdx # <<>> THEN odd \cup {"unindexed"} ELSE odd
    /\ UNCHANGED <<now, when, prev, curIdx, prevIdx>>

----------------------------------------------------------------------------
(* The readers. *)

\* Mutant: a mark that is past is passed over, however far its interval reaches.
SinceStartNoWindow(marks, since, size) ==
    LET later == {i \in DOMAIN marks : marks[i].at >= since}
    IN IF marks = <<>> \/ marks[1].at > since THEN -1
       ELSE IF later = {} THEN size
       ELSE marks[CHOOSE i \in later : \A j \in later : i <= j].offset

\* sinceStart: where in a file of that size the output from since on begins,
\* or -1 when since is older than every mark.  Marks and since are in seconds.
SinceStart(marks, since, size) ==
    LET older == {i \in DOMAIN marks : \A j \in 1..i : marks[j].at <= since}
        last  == Cardinality(older)
        from  == IF since < marks[last].at + (MarkEvery \div Second) \/ MarkEvery < Second
                   THEN marks[last].offset
                   ELSE IF last < Len(marks) THEN marks[last + 1].offset ELSE size
    IN IF older = {} THEN -1 ELSE IF from > size THEN size ELSE from

From(data, off) == SubSeq(data, off + 1, Len(data))

ReaderOnly == UNCHANGED <<now, when, files, sink, faults, odd>>

\* LogsSince refuses a log whose writer is in trouble; the request carries
\* whole seconds.
BeginSince(s) ==
    /\ rd = NoReader /\ errs = {}
    /\ rd' = [NoReader EXCEPT !.at = "stat", !.since = s, !.first = Kept]
    /\ ReaderOnly

Stat ==
    /\ rd.at = "stat"
    /\ rd' = IF There(cur) THEN [rd EXCEPT !.at = "data", !.before = cur.id]
                           ELSE [NoReader EXCEPT !.at = "none"]
    /\ ReaderOnly

ReadData ==
    /\ rd.at = "data"
    /\ rd' = IF There(cur) THEN [rd EXCEPT !.at = "prevIndex", !.data = cur.data]
                           ELSE [NoReader EXCEPT !.at = "none"]
    /\ ReaderOnly

ReadPrevIndex ==
    /\ rd.at = "prevIndex"
    /\ rd' = [rd EXCEPT !.at = "curIndex", !.prevMarks = prevIdx]
    /\ ReaderOnly

\* With no mark at all there is no answer; with one before since in the current
\* file the answer is all in that file.
ReadCurIndex ==
    /\ rd.at = "curIndex"
    /\ LET off == SinceStart(curIdx, rd.since, Len(rd.data))
       IN rd' = IF rd.prevMarks = <<>> /\ curIdx = <<>> THEN [NoReader EXCEPT !.at = "none"]
                ELSE IF off # -1 THEN [rd EXCEPT !.at = "check", !.data = From(@, off)]
                ELSE [rd EXCEPT !.at = "generation", !.curMarks = curIdx]
    /\ ReaderOnly

\* The answer begins in the rotated generation, or before anything kept.
ReadGeneration ==
    /\ rd.at = "generation"
    /\ LET off == SinceStart(rd.prevMarks, rd.since, Len(prev.data))
           untimed == IF rd.prevMarks # <<>> THEN rd.prevMarks[1].offset
                      ELSE IF prev.data # <<>> THEN Len(prev.data) ELSE rd.curMarks[1].offset
       IN rd' = [rd EXCEPT !.at = "check",
                           !.data = (IF off # -1 THEN From(prev.data, off) ELSE prev.data) \o @,
                           !.unknown = IF off # -1 THEN 0 ELSE untimed]
    /\ ReaderOnly

\* Mutant: the file is taken to be the one it was.
CheckNothing ==
    /\ rd.at = "check"
    /\ rd' = [rd EXCEPT !.at = "since"]
    /\ ReaderOnly

\* The answer stands if the file is still the one it was taken from, or if it
\* has been tried often enough.
Check ==
    /\ rd.at = "check"
    /\ LET same == There(cur) /\ cur.id = rd.before
           forget == [rd EXCEPT !.before = 0, !.prevMarks = <<>>, !.curMarks = <<>>]
       IN rd' = IF same \/ rd.attempt = Attempts
                  THEN [forget EXCEPT !.at = "since", !.turned = ~same]
                  ELSE [forget EXCEPT !.at = "stat", !.data = <<>>, !.unknown = 0,
                                      !.attempt = @ + 1]
    /\ ReaderOnly

\* logs: the current file and then the one before it (ReadLogTail).
BeginTail ==
    /\ rd = NoReader /\ errs = {}
    /\ rd' = [NoReader EXCEPT !.at = "tailData", !.first = Kept]
    /\ ReaderOnly

TailData ==
    /\ rd.at = "tailData"
    /\ rd' = IF There(cur) THEN [rd EXCEPT !.at = "tailGeneration", !.data = cur.data]
                           ELSE [NoReader EXCEPT !.at = "none"]
    /\ ReaderOnly

TailGeneration ==
    /\ rd.at = "tailGeneration"
    /\ rd' = [rd EXCEPT !.at = "tail", !.data = prev.data \o @]
    /\ ReaderOnly

Finish ==
    /\ rd.at \in {"since", "tail", "none"}
    /\ rd' = NoReader
    /\ ReaderOnly

----------------------------------------------------------------------------
Next ==
    \/ \E k \in 1..MaxChunk : Emit(k)
    \/ RotateData \/ RotateIndex \/ RotateOpen \/ MarkIndex \/ Write \/ Restart
    \/ \E s \in 0..(MaxTime \div Second) : BeginSince(s)
    \/ Stat \/ ReadData \/ ReadPrevIndex \/ ReadCurIndex \/ ReadGeneration \/ Check
    \/ BeginTail \/ TailData \/ TailGeneration \/ Finish

Spec == Init /\ [][Next]_vars

----------------------------------------------------------------------------
(* Properties. *)

\* When a byte reached the log, and the time a request names, in ticks.
Since == rd.since * Second

\* Both readers go over files the writer is turning under them, and still miss
\* nothing: what was kept when reading began and is kept when it ends is in the
\* answer, all of it for logs, and for -since all that is newer by a second, the
\* grain of the index.  Void once a mark or an index was not written or moved,
\* and when the file was rotated during every attempt.
AnswerComplete ==
    /\ rd.at = "tail" => rd.first \cap Kept \subseteq Range(rd.data)
    /\ rd.at = "since" /\ ~rd.turned /\ "unindexed" \notin odd =>
         {b \in rd.first \cap Kept : when[b] >= Since + Second} \subseteq Range(rd.data)

\* And -since shows little more than was asked for: each byte once and in the
\* order written, and, past the ones it admits having no time for, none from
\* earlier than a mark's interval and the index's grain before the time named.
SinceAccurate ==
    rd.at = "since" /\ ~rd.turned /\ "unindexed" \notin odd =>
        \A i \in DOMAIN rd.data :
            /\ i > 1 => rd.data[i - 1] < rd.data[i]
            /\ i > rd.unknown => when[rd.data[i]] > Since - MarkEvery - Second

\* A log grows past its limit only while its rotation is failing, and its status
\* says so all that time, whatever is written in between.  Void when the file
\* could not be opened either, just after it was at last moved: the raised limit
\* then outlives its reason.
PastLimitSaid ==
    [][Len(cur'.data) > Len(cur.data) /\ Len(cur'.data) > MaxSize /\ MaxChunk <= MaxSize =>
         "rotate" \in errs' \/ "stale limit" \in odd']_vars

=============================================================================
