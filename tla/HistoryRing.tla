---------------------------- MODULE HistoryRing ----------------------------
(***************************************************************************)
(* The scrollback of a terminal: the newest lines that scrolled off, in an  *)
(* array that grows to the limit and is then written around.  Indices count *)
(* from 0, as in the code; `all` is the history the ring stands for.        *)
(***************************************************************************)
EXTENDS Integers, Sequences

NewRing(limit) == [lines |-> <<>>, start |-> 0, n |-> 0, limit |-> limit, all |-> <<>>]

Newest(lines, n) == IF Len(lines) <= n THEN lines ELSE SubSeq(lines, Len(lines) - n + 1, Len(lines))

\* The line of age i, the oldest first.
LineAt(h, i) == h.lines[((h.start + i) % Len(h.lines)) + 1]
RingLines(h) == [i \in 1..h.n |-> LineAt(h, i - 1)]

Push(h, line) ==
    IF h.limit = 0 THEN h
    ELSE IF Len(h.lines) < h.limit
    THEN [h EXCEPT !.lines = Append(@, line), !.n = Len(h.lines) + 1, !.all = Append(@, line)]
    ELSE [h EXCEPT !.lines[h.start + 1] = line, !.start = (@ + 1) % h.limit, !.n = h.limit,
                   !.all = Newest(Append(@, line), h.limit)]

\* Mutant: the array is kept, and only the counters start over.
ResetCounters(h) == [h EXCEPT !.start = 0, !.n = 0, !.all = <<>>]

Reset(h) == [h EXCEPT !.lines = <<>>, !.start = 0, !.n = 0, !.all = <<>>]

\* The newest of what is there is kept, unrolled into a new array.
SetLimit(h, limit) ==
    IF limit = h.limit THEN h
    ELSE LET kept == Newest(RingLines(h), limit)
         IN  [lines |-> kept, start |-> 0, n |-> Len(kept), limit |-> limit,
              all |-> Newest(h.all, limit)]
=============================================================================
