---------------------------- MODULE OutputBuffer ----------------------------
(***************************************************************************)
(* The output of one service (internal/fabric/output.go): a ring holding    *)
(* the newest bytes, and the subscribers every write is offered to.         *)
(*                                                                         *)
(* A byte is its stream offset: the k-th byte the service ever wrote is the *)
(* number k, counted from 0, so a sequence of bytes shows by itself whether *)
(* any is missing, repeated or out of place.  A chunk is the half-open      *)
(* interval [lo, hi) of offsets one Write covered.                          *)
(*                                                                         *)
(* The operators below are the buffer's methods; each holds o.mu for its    *)
(* whole body, so each is one step of the modules that compose the buffer   *)
(* with what reads it.                                                      *)
(***************************************************************************)
EXTENDS Integers, Sequences, FiniteSets

CONSTANTS Capacity,          \* bytes the ring holds
          QueueBytes,        \* how far a subscriber may fall behind
          SubscriberChunks,  \* depth of a subscriber's channel
          Subs,              \* identities of subscribers
          MaxChunk,          \* bound: bytes in one Write
          MaxWritten         \* bound: bytes written in a behaviour

ASSUME BufferAssumption ==
    /\ Capacity \in Nat \ {0}
    /\ QueueBytes \in Nat \ {0}
    /\ SubscriberChunks \in Nat \ {0}
    /\ MaxChunk \in Nat \ {0}
    /\ MaxWritten \in Nat

VARIABLES ring,     \* OutputBuffer.buf
          start,    \* index of the oldest byte
          size,     \* bytes held
          written,  \* bytes ever written
          closed,
          subs,     \* the subscribers in the map o.subs
          sub       \* the Subscriber of every identity

ringVars   == <<ring, start, size, written>>
bufferVars == <<ring, start, size, written, closed, subs, sub>>

Unwritten == -1

Chunk == {c \in [lo : Nat, hi : Nat] : c.lo <= c.hi}
Nothing == [lo |-> 0, hi |-> 0]

Subscriber ==
    [from   : Nat,         \* offset the subscription began at
     queued : Nat,         \* bytes offered and not yet consumed
     lagged : BOOLEAN,
     open   : BOOLEAN,     \* the channel has not been closed
     ch     : Seq(Chunk),  \* the channel's contents
     upTo   : Nat]         \* history: offset at which the channel was closed

BufferTypeOK ==
    /\ ring \in [0..Capacity-1 -> Nat \cup {Unwritten}]
    /\ start \in 0..Capacity-1
    /\ size \in 0..Capacity
    /\ written \in 0..MaxWritten
    /\ closed \in BOOLEAN
    /\ subs \subseteq Subs
    /\ sub \in [Subs -> Subscriber]

\* A subscription beginning at offset `at`.
Fresh(at) == [from |-> at, queued |-> 0, lagged |-> FALSE, open |-> TRUE,
              ch |-> <<>>, upTo |-> at]

\* NewOutputBuffer, with the subscribers S attached before anything is written.
BufferInit(S) ==
    /\ ring = [i \in 0..Capacity-1 |-> Unwritten]
    /\ start = 0
    /\ size = 0
    /\ written = 0
    /\ closed = FALSE
    /\ subs = S
    /\ sub = [i \in Subs |-> IF i \in S THEN Fresh(0) ELSE [Fresh(0) EXCEPT !.open = FALSE]]

----------------------------------------------------------------------------
(* The ring. *)

\* append of a write smaller than the ring: up to its end, the rest from index 0.
Overwritten(n) ==
    LET end == (start + size) % Capacity
        fit == Capacity - end
    IN  [i \in 0..Capacity-1 |->
            IF i >= end /\ i < end + n THEN written + (i - end)
            ELSE IF i < n - fit THEN written + fit + i
            ELSE ring[i]]

\* The old bytes a write of n loses, when positive.
Lost(n) == size + n - Capacity

\* append: n new bytes, the oldest dropped when they do not fit.
AppendRing(n) ==
    IF n >= Capacity
    THEN /\ ring' = [i \in 0..Capacity-1 |-> written + n - Capacity + i]
         /\ start' = 0
         /\ size' = Capacity
    ELSE /\ ring' = Overwritten(n)
         /\ size' = IF Lost(n) <= 0 THEN size + n ELSE Capacity
         /\ start' = IF Lost(n) <= 0 THEN start ELSE (start + Lost(n)) % Capacity

\* snapshotLocked: the bytes held, oldest first.
Snapshot ==
    LET first == IF start + size <= Capacity THEN size ELSE Capacity - start
    IN  [i \in 1..size |-> IF i <= first THEN ring[start + i - 1]
                                         ELSE ring[i - first - 1]]

----------------------------------------------------------------------------
(* Subscribers. *)

\* closeCh, with the offset the stream was cut at.
Close(s) == [s EXCEPT !.open = FALSE, !.upTo = written]

\* Mutant: a chunk that does not fit the budget is dropped, and nothing is said.
OfferDrop(s, lo, hi) ==
    IF s.queued + (hi - lo) > QueueBytes \/ Len(s.ch) >= SubscriberChunks
    THEN s
    ELSE [s EXCEPT !.queued = @ + (hi - lo),
                   !.ch = Append(@, [lo |-> lo, hi |-> hi])]

\* offer: queue a chunk, or end the stream of a reader that fell behind.
Offer(s, lo, hi) ==
    IF s.lagged THEN s
    ELSE IF \/ s.queued + (hi - lo) > QueueBytes
            \/ Len(s.ch) >= SubscriberChunks
         THEN [Close(s) EXCEPT !.lagged = TRUE]
         ELSE [s EXCEPT !.queued = @ + (hi - lo),
                        !.ch = Append(@, [lo |-> lo, hi |-> hi])]

\* OutputBuffer.Write of n bytes, with pruneLaggedLocked.
Write(n) ==
    /\ ~closed
    /\ written + n <= MaxWritten
    /\ AppendRing(n)
    /\ written' = written + n
    /\ sub' = [i \in Subs |-> IF i \in subs
                              THEN Offer(sub[i], written, written + n)
                              ELSE sub[i]]
    /\ subs' = {i \in subs : ~sub'[i].lagged}
    /\ UNCHANGED closed

\* Mutant: the snapshot is taken before, and the subscription after, a write.
AttachLate(i) ==
    /\ ~closed
    /\ i \notin subs
    /\ sub' = [sub EXCEPT ![i] = [Fresh(written) EXCEPT !.from = IF @ > 0 THEN @ - 1 ELSE 0]]
    /\ subs' = subs \cup {i}
    /\ UNCHANGED <<ringVars, closed>>

\* OutputBuffer.Attach, the half that registers: the caller reads Snapshot in
\* the same step, under the same lock.
Attach(i) ==
    /\ ~closed
    /\ i \notin subs
    /\ sub' = [sub EXCEPT ![i] = Fresh(written)]
    /\ subs' = subs \cup {i}
    /\ UNCHANGED <<ringVars, closed>>

\* Subscriber.Detach: a no-op for one already pruned or closed.
Detach(i) ==
    /\ sub' = IF i \in subs THEN [sub EXCEPT ![i] = Close(@)] ELSE sub
    /\ subs' = subs \ {i}
    /\ UNCHANGED <<ringVars, closed>>

\* Receiving the next chunk from the channel, and processing it.
Take(i) ==
    /\ sub[i].ch # <<>>
    /\ sub' = [sub EXCEPT ![i].ch = Tail(@)]
    /\ UNCHANGED <<ringVars, closed, subs>>

\* Subscriber.Consumed.
Consumed(i, n) ==
    /\ sub' = [sub EXCEPT ![i].queued = IF @ >= n THEN @ - n ELSE 0]
    /\ UNCHANGED <<ringVars, closed, subs>>

\* The receive that finds the channel closed and empty.
StreamEnded(i) == sub[i].ch = <<>> /\ ~sub[i].open

\* OutputBuffer.Close, up to waiting for the disk writer.
CloseBuffer ==
    /\ closed' = TRUE
    /\ sub' = [i \in Subs |-> IF i \in subs THEN Close(sub[i]) ELSE sub[i]]
    /\ subs' = {}
    /\ UNCHANGED ringVars

----------------------------------------------------------------------------
(* What the buffer promises its readers. *)

\* The bytes lo, lo+1, ..., hi-1.
Bytes(lo, hi) == [k \in 1..(hi - lo) |-> lo + k - 1]

\* The ring holds the newest bytes and nothing else (append's wrapping).
RingIsTail == Snapshot = Bytes(written - size, written)

\* A subscriber a write will be offered to has an open channel: a send on a
\* closed one would panic the goroutine that drains the terminal.
SendsOnOpenChannel == \A i \in subs : sub[i].open /\ ~sub[i].lagged

\* Chunks follow on from each other with no byte between them, and the last one
\* ends where the stream was cut, or at the newest byte while it is not cut.
Chained(s, end) ==
    /\ \A k \in 1..Len(s.ch) : s.ch[k].lo < s.ch[k].hi
    /\ \A k \in 1..(Len(s.ch) - 1) : s.ch[k].hi = s.ch[k+1].lo
    /\ s.ch # <<>> => s.ch[Len(s.ch)].hi = end

\* Where a subscriber's stream ends so far.
StreamEnd(i) == IF sub[i].open THEN written ELSE sub[i].upTo

=============================================================================
