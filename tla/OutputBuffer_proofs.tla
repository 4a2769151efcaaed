------------------------- MODULE OutputBuffer_proofs -------------------------
(***************************************************************************)
(* The output of a service and what becomes of it, for every capacity of    *)
(* the ring, of a subscriber's queue and of its channel.  First what the    *)
(* operations of the OutputBuffer do; then that what a client is sent is    *)
(* the service's stream, for any number of sessions (AttachSession); then   *)
(* that a service's log keeps a transcript, however often its writer falls  *)
(* behind and whatever is renamed or removed meanwhile (LogSink).           *)
(*                                                                         *)
(* The invariant of the writer says, for each place of its loop, that what  *)
(* it has accounted for ends where what it still gets begins: in its queue, *)
(* in the chunk it has, in a snapshot of the ring and the queue of the      *)
(* subscription that goes with it.                                          *)
(***************************************************************************)
EXTENDS AttachSession, LogSink, SequenceTheorems, WellFoundedInduction, TLAPS

\* An index that may have gone past the end of the ring once.
Wrapped(i) == IF i < Capacity THEN i ELSE i - Capacity

\* For an index less than twice the capacity, the remainder is one subtraction.
LEMMA WrapOnce ==
    \A i \in Nat : i < Capacity + Capacity =>
        i % Capacity = Wrapped(i) /\ Wrapped(i) \in 0..Capacity-1
BY BufferAssumption DEF Wrapped

\* The k-th oldest byte held is where it belongs.
RingInv ==
    /\ ring \in [0..Capacity-1 -> Nat \cup {Unwritten}]
    /\ start \in 0..Capacity-1
    /\ size \in 0..Capacity
    /\ written \in Nat
    /\ size <= written
    /\ \A k \in 0..size-1 : ring[Wrapped(start + k)] = written - size + k

\* Read out oldest first, that is the newest `size` bytes of the stream.
LEMMA RingInvMeans == RingInv => RingIsTail
<1> SUFFICES ASSUME RingInv PROVE RingIsTail
  OBVIOUS
<1> DEFINE first == IF start + size <= Capacity THEN size ELSE Capacity - start
<1>1. size \in Nat /\ written - (written - size) = size
  BY BufferAssumption DEF RingInv
<1>2. \A i \in 1..size : (IF i <= first THEN ring[start + i - 1] ELSE ring[i - first - 1])
                              = written - size + i - 1
  <2> TAKE i \in 1..size
  <2>1. ring[Wrapped(start + (i - 1))] = written - size + (i - 1)
    <3>1. i - 1 \in 0..size-1
      BY <1>1
    <3> QED
      BY <3>1 DEF RingInv
  <2>2. CASE i <= first
    <3>1. Wrapped(start + (i - 1)) = start + i - 1
      BY <2>2, BufferAssumption DEF RingInv, Wrapped
    <3> QED
      BY <2>1, <2>2, <3>1 DEF RingInv
  <2>3. CASE ~(i <= first)
    <3>1. Wrapped(start + (i - 1)) = i - first - 1
      BY <2>3, BufferAssumption DEF RingInv, Wrapped
    <3> QED
      BY <2>1, <2>3, <3>1 DEF RingInv
  <2> QED
    BY <2>2, <2>3
<1> QED
  BY <1>1, <1>2 DEF RingIsTail, Snapshot, Bytes

\* Where things are after n bytes were written to a ring of z bytes from s on: the
\* indices are in range ...
LEMMA InRange ==
    \A s, k \in Nat : s < Capacity /\ k < Capacity => Wrapped(s + k) \in 0..Capacity-1
BY BufferAssumption DEF Wrapped

NewSize(z, n) == IF z + n - Capacity <= 0 THEN z + n ELSE Capacity

NewStart(s, z, n) == IF z + n - Capacity <= 0 THEN s ELSE Wrapped(s + (z + n - Capacity))

\* ... the k-th byte, if it is an old one, is where it was, out of the way of the write ...
LEMMA OldByte ==
    ASSUME NEW s \in Nat, s < Capacity, NEW z \in Nat, z <= Capacity,
           NEW n \in Nat, 0 < n, n < Capacity, NEW k \in Nat, k < NewSize(z, n) - n
    PROVE  LET e == Wrapped(s + z)
               m == k + z - (NewSize(z, n) - n)
               j == Wrapped(NewStart(s, z, n) + k)
           IN  m \in 0..z-1 /\ j = Wrapped(s + m) /\ ~(j >= e /\ j < e + n)
               /\ ~(j < n - (Capacity - e))
BY BufferAssumption DEF Wrapped, NewSize, NewStart

\* ... and if it is a new one, is where the write put it.
LEMMA NewByte ==
    ASSUME NEW s \in Nat, s < Capacity, NEW z \in Nat, z <= Capacity,
           NEW n \in Nat, 0 < n, n < Capacity, NEW k \in Nat, k < NewSize(z, n),
           k >= NewSize(z, n) - n
    PROVE  LET e == Wrapped(s + z)
               j == Wrapped(NewStart(s, z, n) + k)
           IN  \/ j >= e /\ j < e + n /\ j - e = k - (NewSize(z, n) - n)
               \/ /\ ~(j >= e /\ j < e + n)
                  /\ j < n - (Capacity - e)
                  /\ (Capacity - e) + j = k - (NewSize(z, n) - n)
BY BufferAssumption DEF Wrapped, NewSize, NewStart

\* The byte at index i once a write smaller than the ring is in.
ByteAt(s, z, n, i) ==
    LET e == Wrapped(s + z)
    IN  IF i >= e /\ i < e + n THEN written + (i - e)
        ELSE IF i < n - (Capacity - e) THEN written + (Capacity - e) + i
        ELSE ring[i]

\* So every index holds the byte that belongs there, if it did before.
LEMMA ByteThere ==
    ASSUME RingInv, NEW n \in Nat, 0 < n, n < Capacity,
           NEW z \in Nat, z = NewSize(size, n),
           NEW s \in Nat, s = NewStart(start, size, n),
           NEW k \in Nat, k < z
    PROVE  ByteAt(start, size, n, Wrapped(s + k)) = written + n - z + k
<1> DEFINE e == Wrapped(start + size)
           j == Wrapped(s + k)
<1>1. /\ start \in Nat /\ start < Capacity
      /\ size \in Nat /\ size <= Capacity
      /\ written \in Nat /\ Capacity \in Nat
  BY BufferAssumption DEF RingInv
<1>3. CASE k < z - n
  <2>1. /\ k + size - (z - n) \in 0..size-1
        /\ j = Wrapped(start + (k + size - (z - n)))
        /\ ~(j >= e /\ j < e + n)
        /\ ~(j < n - (Capacity - e))
    BY <1>1, <1>3, OldByte
  <2>2. ring[j] = written - size + (k + size - (z - n))
    BY <2>1 DEF RingInv
  <2>3. written - size + (k + size - (z - n)) = written + n - z + k
    BY <1>1
  <2> HIDE DEF e, j
  <2>4. ByteAt(start, size, n, j) = ring[j]
    BY <2>1 DEF ByteAt, e
  <2> QED
    BY <2>2, <2>3, <2>4 DEF j
<1>4. CASE k >= z - n
  <2>1. \/ j >= e /\ j < e + n /\ j - e = k - (z - n)
        \/ /\ ~(j >= e /\ j < e + n)
           /\ j < n - (Capacity - e)
           /\ (Capacity - e) + j = k - (z - n)
    BY <1>1, <1>4, NewByte
  <2>2. e \in Nat /\ j \in Nat
    BY <1>1 DEF Wrapped, NewStart, NewSize
  <2> HIDE DEF e, j
  <2>3. ByteAt(start, size, n, j) = written + (k - (z - n))
    <3>1. CASE j >= e /\ j < e + n /\ j - e = k - (z - n)
      BY <3>1 DEF ByteAt, e
    <3>2. CASE ~(j >= e /\ j < e + n) /\ j < n - (Capacity - e)
               /\ (Capacity - e) + j = k - (z - n)
      <4>1. ByteAt(start, size, n, j) = written + (Capacity - e) + j
        BY <3>2 DEF ByteAt, e
      <4> QED
        BY <1>1, <2>2, <3>2, <4>1
    <3> QED
      BY <2>1, <3>1, <3>2
  <2> QED
    BY <1>1, <2>3 DEF j
<1> QED
  BY <1>1, <1>3, <1>4

\* append keeps it, for a write of any size (the wrap, the overwrite and the write
\* larger than the ring).
LEMMA AppendKeepsRing ==
    ASSUME RingInv, NEW n \in Nat \ {0}, AppendRing(n), written' = written + n
    PROVE  RingInv'
<1> USE BufferAssumption
<1>1. /\ start \in Nat /\ start < Capacity
      /\ size \in Nat /\ size <= Capacity
      /\ written \in Nat /\ size <= written
      /\ ring \in [0..Capacity-1 -> Nat \cup {Unwritten}]
  BY DEF RingInv
<1>2. (start + size) % Capacity = Wrapped(start + size) /\ Wrapped(start + size) \in 0..Capacity-1
  <2>1. start + size \in Nat /\ start + size < Capacity + Capacity
    BY <1>1
  <2> QED
    BY <2>1, WrapOnce
<1>3. CASE n >= Capacity
  BY <1>1, <1>3 DEF AppendRing, Wrapped, RingInv
<1>4. CASE n < Capacity
  <2>1. /\ ring' = Overwritten(n)
        /\ size' = NewSize(size, n)
        /\ start' = IF Lost(n) <= 0 THEN start ELSE (start + Lost(n)) % Capacity
    BY <1>1, <1>4 DEF AppendRing, NewSize, Lost
  <2>2. start' = NewStart(start, size, n)
    <3>1. Lost(n) > 0 => (start + Lost(n)) % Capacity = Wrapped(start + Lost(n))
      <4>1. Lost(n) > 0 => start + Lost(n) \in Nat /\ start + Lost(n) < Capacity + Capacity
        BY <1>1, <1>4 DEF Lost
      <4> QED
        BY <4>1, WrapOnce
    <3>2. Lost(n) \in Int /\ Lost(n) = size + n - Capacity
      BY <1>1 DEF Lost
    <3>3. CASE Lost(n) <= 0
      BY <2>1, <3>2, <3>3 DEF NewStart
    <3>4. CASE ~(Lost(n) <= 0)
      <4>1. Lost(n) > 0
        BY <3>2, <3>4
      <4>2. start' = Wrapped(start + Lost(n))
        BY <2>1, <3>1, <3>4, <4>1
      <4> QED
        BY <3>2, <3>4, <4>2 DEF NewStart
    <3> QED
      BY <3>3, <3>4
  <2>3. \A i \in 0..Capacity-1 : ring'[i] = ByteAt(start, size, n, i)
    BY <1>2, <2>1 DEF Overwritten, ByteAt
  <2>4. ring' \in [0..Capacity-1 -> Nat \cup {Unwritten}]
    <3>1. ASSUME NEW i \in 0..Capacity-1 PROVE ByteAt(start, size, n, i) \in Nat \cup {Unwritten}
      <4> DEFINE e == Wrapped(start + size)
      <4>1. i \in Int /\ e \in Int /\ n \in Int /\ Capacity \in Int
        BY <1>1, <1>2
      <4>2. i >= 0 /\ e < Capacity /\ ring[i] \in Nat \cup {Unwritten}
        BY <1>1, <1>2
      <4> HIDE DEF e
      <4>3. /\ i >= e => written + (i - e) \in Nat
            /\ written + (Capacity - e) + i \in Nat
        BY <1>1, <4>1, <4>2
      <4> QED
        BY <4>1, <4>2, <4>3 DEF ByteAt, e
    <3>2. ring' = [i \in 0..Capacity-1 |-> ring'[i]]
      BY <2>1 DEF Overwritten
    <3>3. \A i \in 0..Capacity-1 : ring'[i] \in Nat \cup {Unwritten}
      BY <2>3, <3>1
    <3> QED
      BY <3>2, <3>3
  <2>5. \A k \in 0..size'-1 : ring'[Wrapped(start' + k)] = written' - size' + k
    <3> TAKE k \in 0..size'-1
    <3>1. k \in Nat /\ size' \in Nat /\ k < size' /\ size' <= Capacity
      BY <1>1, <1>4, <2>1 DEF NewSize
    <3>2. start' \in Nat /\ start' < Capacity
      BY <1>1, <1>4, <2>2 DEF NewStart, Wrapped
    <3>3. Wrapped(start' + k) \in 0..Capacity-1
      BY <3>1, <3>2, InRange
    <3>4. ByteAt(start, size, n, Wrapped(start' + k)) = written + n - size' + k
      <4>1. 0 < n /\ start' = NewStart(start, size, n) /\ size' = NewSize(size, n)
        BY <2>1, <2>2
      <4>2. \A z \in Nat, s \in Nat : z = NewSize(size, n) /\ s = NewStart(start, size, n) /\ k < z
              => ByteAt(start, size, n, Wrapped(s + k)) = written + n - z + k
        BY <1>4, <3>1, <4>1, ByteThere
      <4> QED
        BY <3>1, <3>2, <4>1, <4>2
    <3>5. ring'[Wrapped(start' + k)] = written + n - size' + k
      BY <2>3, <3>3, <3>4
    <3> QED
      <4>1. written + n - size' + k = written' - size' + k
        BY <1>1, <3>1
      <4> QED
        BY <3>5, <4>1
  <2>6. size' \in 0..Capacity /\ start' \in 0..Capacity-1 /\ size' <= written'
    BY <1>1, <1>4, <2>1, <2>2 DEF NewSize, NewStart, Wrapped
  <2>7. written' \in Nat
    BY <1>1
  <2> QED
    BY <2>4, <2>5, <2>6, <2>7 DEF RingInv
<1> QED
  BY <1>3, <1>4

----------------------------------------------------------------------------
(* The subscribers. *)

\* The queue of a subscriber, as far as offering it a chunk needs to know.
QueueInv == sub \in [Subs -> Subscriber] /\ subs \subseteq Subs

\* Nobody in the map has a closed channel or has lagged; it is what keeps a write
\* from sending on a closed channel, and needs the map and the channels typed.
SubsInv == QueueInv /\ SendsOnOpenChannel

\* Closing a channel, offering it a chunk, taking one from it and beginning anew all
\* leave a subscriber of the right shape.
LEMMA SubscriberShapes ==
    ASSUME NEW s \in Subscriber, written \in Nat
    PROVE  /\ Close(s) \in Subscriber /\ Fresh(written) \in Subscriber
           /\ \A lo, hi \in Nat : lo <= hi => Offer(s, lo, hi) \in Subscriber
           /\ s.ch # <<>> => [s EXCEPT !.ch = Tail(@)] \in Subscriber
           /\ \A n \in Nat : [s EXCEPT !.queued = IF @ >= n THEN @ - n ELSE 0] \in Subscriber
<1>1. Close(s) \in Subscriber /\ Fresh(written) \in Subscriber
  <2>1. Close(s) \in Subscriber
    BY DEF Close, Subscriber
  <2>2. <<>> \in Seq(Chunk)
    OBVIOUS
  <2>3. Fresh(written) \in Subscriber
    BY <2>2 DEF Fresh, Subscriber
  <2> QED
    BY <2>1, <2>3
<1>2. ASSUME NEW lo \in Nat, NEW hi \in Nat, lo <= hi PROVE Offer(s, lo, hi) \in Subscriber
  <2>1. [lo |-> lo, hi |-> hi] \in Chunk /\ s.ch \in Seq(Chunk) /\ s.queued + (hi - lo) \in Nat
    BY <1>2 DEF Chunk, Subscriber
  <2>2. Append(s.ch, [lo |-> lo, hi |-> hi]) \in Seq(Chunk)
    BY <2>1
  <2>3. [Close(s) EXCEPT !.lagged = TRUE] \in Subscriber
    BY <1>1 DEF Subscriber
  <2>4. [s EXCEPT !.queued = s.queued + (hi - lo), !.ch = Append(s.ch, [lo |-> lo, hi |-> hi])]
            \in Subscriber
    BY <2>1, <2>2 DEF Subscriber
  <2> QED
    BY <2>3, <2>4, Zenon DEF Offer
<1>3. ASSUME s.ch # <<>> PROVE [s EXCEPT !.ch = Tail(@)] \in Subscriber
  <2>1. s.ch \in Seq(Chunk)
    BY DEF Subscriber
  <2>2. Tail(s.ch) \in Seq(Chunk)
    BY <1>3, <2>1
  <2> QED
    BY <2>2 DEF Subscriber
<1>4. \A n \in Nat : [s EXCEPT !.queued = IF @ >= n THEN @ - n ELSE 0] \in Subscriber
  BY DEF Subscriber
<1> QED
  BY <1>1, <1>2, <1>3, <1>4

\* What the operations of the buffer leave as it was, they keep.
LEMMA QuietQueues == ASSUME SubsInv, UNCHANGED <<sub, subs>> PROVE SubsInv'
BY DEF SubsInv, QueueInv, SendsOnOpenChannel

\* A write drops from the map whoever it made lag, and closes nobody else's channel.
LEMMA WriteKeepsSubs ==
    ASSUME SubsInv, written \in Nat, NEW n \in Nat, Write(n)
    PROVE  SubsInv'
<1>1. \A i \in Subs : Offer(sub[i], written, written + n) \in Subscriber
  <2>1. written + n \in Nat /\ written <= written + n
    OBVIOUS
  <2>2. \A i \in Subs : sub[i] \in Subscriber
    BY DEF SubsInv, QueueInv
  <2> QED
    BY <2>1, <2>2, SubscriberShapes
<1>2. sub' \in [Subs -> Subscriber] /\ subs' \subseteq Subs
  BY <1>1 DEF SubsInv, QueueInv, Write
<1>3. ASSUME NEW i \in subs' PROVE sub'[i].open /\ ~sub'[i].lagged
  <2>1. i \in subs /\ i \in Subs /\ ~sub'[i].lagged
    BY <1>3 DEF Write, SubsInv, QueueInv
  <2>2. sub'[i] = Offer(sub[i], written, written + n)
    BY <2>1 DEF Write
  <2>3. sub[i] \in Subscriber /\ sub[i].open
    BY <2>1 DEF SubsInv, QueueInv, SendsOnOpenChannel
  <2>4. ASSUME NEW s \in Subscriber, s.open, NEW lo, NEW hi, ~Offer(s, lo, hi).lagged
        PROVE  Offer(s, lo, hi).open
    BY <2>4 DEF Offer, Subscriber, Close
  <2> QED
    BY <2>1, <2>2, <2>3, <2>4
<1> QED
  BY <1>2, <1>3 DEF SubsInv, QueueInv, SendsOnOpenChannel

\* A subscription begins with an open channel.
LEMMA AttachKeepsSubs ==
    ASSUME SubsInv, written \in Nat, NEW i \in Subs, Attach(i)
    PROVE  SubsInv'
<1>1. Fresh(written) \in Subscriber /\ Fresh(written).open /\ ~Fresh(written).lagged
  <2>1. <<>> \in Seq(Chunk)
    OBVIOUS
  <2> QED
    BY <2>1 DEF Fresh, Subscriber
<1> QED
  BY <1>1 DEF SubsInv, QueueInv, SendsOnOpenChannel, Attach

\* Detaching closes a channel and takes it out of the map in one step.
LEMMA DetachKeepsSubs ==
    ASSUME SubsInv, written \in Nat, NEW i \in Subs, Detach(i)
    PROVE  SubsInv'
<1>1. Close(sub[i]) \in Subscriber
  BY SubscriberShapes DEF SubsInv, QueueInv
<1> QED
  BY <1>1 DEF SubsInv, QueueInv, SendsOnOpenChannel, Detach

\* Receiving a chunk leaves the channel open.
LEMMA TakeKeepsSubs ==
    ASSUME SubsInv, written \in Nat, NEW i \in Subs, Take(i)
    PROVE  SubsInv'
<1>1. sub[i] \in Subscriber /\ [sub[i] EXCEPT !.ch = Tail(@)] \in Subscriber
  BY SubscriberShapes DEF SubsInv, QueueInv, Take
<1>2. sub' = [sub EXCEPT ![i] = [sub[i] EXCEPT !.ch = Tail(@)]]
  BY DEF Take, SubsInv, QueueInv
<1>3. [sub[i] EXCEPT !.ch = Tail(@)].open = sub[i].open
      /\ [sub[i] EXCEPT !.ch = Tail(@)].lagged = sub[i].lagged
  BY <1>1 DEF Subscriber
<1> QED
  BY <1>1, <1>2, <1>3 DEF SubsInv, QueueInv, SendsOnOpenChannel, Take

\* Accounting for a chunk changes the count of queued bytes only.
LEMMA ConsumedKeepsSubs ==
    ASSUME SubsInv, written \in Nat, NEW i \in Subs, NEW n \in Nat, Consumed(i, n)
    PROVE  SubsInv'
<1> DEFINE q(s) == [s EXCEPT !.queued = IF @ >= n THEN @ - n ELSE 0]
<1>1. sub[i] \in Subscriber /\ q(sub[i]) \in Subscriber
  BY SubscriberShapes DEF SubsInv, QueueInv
<1>2. sub' = [sub EXCEPT ![i] = q(sub[i])]
  BY DEF Consumed, SubsInv, QueueInv
<1>3. q(sub[i]).open = sub[i].open /\ q(sub[i]).lagged = sub[i].lagged
  BY <1>1 DEF Subscriber
<1> HIDE DEF q
<1> QED
  BY <1>1, <1>2, <1>3 DEF SubsInv, QueueInv, SendsOnOpenChannel, Consumed

\* Closing the buffer closes every channel and empties the map.
LEMMA CloseKeepsSubs ==
    ASSUME SubsInv, written \in Nat, CloseBuffer
    PROVE  SubsInv'
<1>1. \A i \in Subs : Close(sub[i]) \in Subscriber
  BY SubscriberShapes DEF SubsInv, QueueInv
<1> QED
  BY <1>1 DEF SubsInv, QueueInv, SendsOnOpenChannel, CloseBuffer

\* The buffer as the sessions find it.
BufferInv == RingInv /\ SubsInv /\ closed \in BOOLEAN /\ written \in 0..MaxWritten

\* NewOutputBuffer makes one, whoever is attached before anything is written.
LEMMA BufferBegins ==
    ASSUME NEW S \in SUBSET Subs, BufferInit(S)
    PROVE  BufferInv /\ \A i \in Subs : sub[i].open <=> i \in subs
<1>1. RingInv /\ closed \in BOOLEAN /\ written \in 0..MaxWritten
  <2>1. /\ ring = [i \in 0..Capacity-1 |-> Unwritten]
        /\ start = 0 /\ size = 0 /\ written = 0 /\ closed = FALSE
    BY DEF BufferInit
  <2>2. ring \in [0..Capacity-1 -> Nat \cup {Unwritten}]
    BY <2>1
  <2>3. start \in 0..Capacity-1 /\ size \in 0..Capacity /\ written \in 0..MaxWritten
    BY <2>1, BufferAssumption
  <2>4. 0..size-1 = {}
    BY <2>1
  <2>5. written \in Nat /\ size <= written
    BY <2>1
  <2>6. \A k \in 0..size-1 : ring[Wrapped(start + k)] = written - size + k
    BY ONLY <2>4, Zenon
  <2>7. closed \in BOOLEAN
    BY <2>1
  <2> QED
    BY <2>2, <2>3, <2>5, <2>6, <2>7 DEF RingInv
<1>2. SubsInv /\ \A i \in Subs : sub[i].open <=> i \in subs
  <2>1. Fresh(0) \in Subscriber /\ Fresh(0).open /\ ~Fresh(0).lagged
    <3>1. <<>> \in Seq(Chunk)
      OBVIOUS
    <3> QED
      BY <3>1 DEF Fresh, Subscriber
  <2>2. [Fresh(0) EXCEPT !.open = FALSE] \in Subscriber /\ ~[Fresh(0) EXCEPT !.open = FALSE].open
    BY <2>1 DEF Subscriber
  <2>3. /\ \A i \in Subs : sub[i] = IF i \in S THEN Fresh(0) ELSE [Fresh(0) EXCEPT !.open = FALSE]
        /\ subs = S
    BY DEF BufferInit
  <2>4. sub \in [Subs -> Subscriber]
    BY <2>1, <2>2, <2>3 DEF BufferInit
  <2> QED
    BY <2>1, <2>2, <2>3, <2>4 DEF SubsInv, QueueInv, SendsOnOpenChannel
<1> QED
  BY <1>1, <1>2 DEF BufferInv

\* A step that leaves the ring alone keeps the invariant of the buffer ...
LEMMA RingKept ==
    ASSUME BufferInv, UNCHANGED <<ringVars, closed>>, SubsInv'
    PROVE  BufferInv'
BY DEF BufferInv, RingInv, ringVars, Wrapped, Unwritten

\* ... and one that leaves the whole buffer alone.
LEMMA BufferKept == ASSUME BufferInv, UNCHANGED bufferVars PROVE BufferInv'
BY QuietQueues, RingKept DEF BufferInv, bufferVars, ringVars

\* Every operation of the buffer keeps its invariant.
LEMMA OperationsKeepBuffer ==
    ASSUME BufferInv
    PROVE  /\ \A n \in 1..MaxChunk : Write(n) => BufferInv'
           /\ \A i \in Subs : Attach(i) \/ Detach(i) \/ Take(i) => BufferInv'
           /\ \A i \in Subs, n \in Nat : Consumed(i, n) => BufferInv'
           /\ CloseBuffer => BufferInv'
<1>0. written \in Nat /\ SubsInv /\ RingInv
  BY DEF BufferInv, RingInv
<1>1. ASSUME NEW n \in 1..MaxChunk, Write(n) PROVE BufferInv'
  <2>1. n \in Nat \ {0} /\ n \in Nat
    BY BufferAssumption
  <2>2. RingInv'
    BY <1>0, <1>1, <2>1, AppendKeepsRing DEF Write
  <2>3. SubsInv'
    BY <1>0, <1>1, <2>1, WriteKeepsSubs
  <2>4. closed' \in BOOLEAN /\ written' \in 0..MaxWritten
    BY <1>0, <1>1, <2>1, BufferAssumption DEF Write, BufferInv
  <2> QED
    BY <2>2, <2>3, <2>4 DEF BufferInv
<1>2. ASSUME NEW i \in Subs, Attach(i) \/ Detach(i) \/ Take(i) PROVE BufferInv'
  <2>1. SubsInv'
    BY <1>0, <1>2, AttachKeepsSubs, DetachKeepsSubs, TakeKeepsSubs
  <2>2. UNCHANGED <<ringVars, closed>>
    BY <1>2 DEF Attach, Detach, Take
  <2> QED
    BY <2>1, <2>2, RingKept
<1>3. ASSUME NEW i \in Subs, NEW n \in Nat, Consumed(i, n) PROVE BufferInv'
  <2>1. SubsInv'
    BY <1>0, <1>3, ConsumedKeepsSubs
  <2>2. UNCHANGED <<ringVars, closed>>
    BY <1>3 DEF Consumed
  <2> QED
    BY <2>1, <2>2, RingKept
<1>4. ASSUME CloseBuffer PROVE BufferInv'
  <2>1. SubsInv'
    BY <1>0, <1>4, CloseKeepsSubs
  <2>2. UNCHANGED ringVars /\ closed' = TRUE
    BY <1>4 DEF CloseBuffer
  <2> QED
    BY <2>1, <2>2 DEF BufferInv, RingInv, ringVars, Wrapped, Unwritten
<1> QED
  BY <1>1, <1>2, <1>3, <1>4

\* What a client is sent is made of bytes.
LEMMA BytesTyped == \A c \in Chunk : Bytes(c.lo, c.hi) \in Seq(Nat)
<1> TAKE c \in Chunk
<1>1. c.hi - c.lo \in Nat /\ \A k \in 1..(c.hi - c.lo) : c.lo + k - 1 \in Nat
  BY DEF Chunk
<1> QED
  BY <1>1 DEF Bytes

----------------------------------------------------------------------------
(* The stream a subscriber carries. *)

\* Who is in the map and whose channel is open are the same.
OpenInv == \A v \in Subs : sub[v].open <=> v \in subs

\* A queue that carries the stream on from offset `at` to its end.
Carries(s, at, end) ==
    Chained(s, end) /\ at = IF s.ch = <<>> THEN end ELSE s.ch[1].lo

\* A subscription begins where it is made.
LEMMA FreshCarries == \A at \in Nat : Carries(Fresh(at), at, at)
<1> TAKE at \in Nat
<1>1. Fresh(at).ch = <<>> /\ Len(<<>>) = 0
  BY DEF Fresh
<1> QED
  BY <1>1 DEF Carries, Chained

\* A write of at least one byte carries a queue's stream on ...
LEMMA AppendCarries ==
    ASSUME NEW s \in Subscriber, NEW at \in Nat, NEW w \in Nat, NEW n \in Nat \ {0},
           Carries(s, at, w), NEW t, t.ch = Append(s.ch, [lo |-> w, hi |-> w + n])
    PROVE  Carries(t, at, w + n)
<1> DEFINE c == [lo |-> w, hi |-> w + n]
<1>1. s.ch \in Seq(Chunk) /\ c \in Chunk /\ c.lo = w /\ c.hi = w + n /\ c.lo < c.hi
  BY DEF Subscriber, Chunk
<1>2. /\ Len(t.ch) = Len(s.ch) + 1 /\ t.ch[Len(s.ch) + 1] = c /\ t.ch # <<>>
      /\ \A k \in 1..Len(s.ch) : t.ch[k] = s.ch[k]
  BY <1>1
<1>3. Len(s.ch) \in Nat /\ (s.ch # <<>> => Len(s.ch) > 0) /\ (s.ch = <<>> => Len(s.ch) = 0)
  BY <1>1
<1> HIDE DEF c
<1>4. Chained(t, w + n)
  <2>1. \A k \in 1..Len(t.ch) : t.ch[k].lo < t.ch[k].hi
    BY <1>1, <1>2, <1>3 DEF Carries, Chained
  <2>2. \A k \in 1..(Len(t.ch) - 1) : t.ch[k].hi = t.ch[k+1].lo
    <3> TAKE k \in 1..(Len(t.ch) - 1)
    <3>1. CASE k < Len(s.ch)
      <4>1. k \in 1..(Len(s.ch) - 1) /\ k \in 1..Len(s.ch) /\ k+1 \in 1..Len(s.ch)
        BY <1>2, <1>3, <3>1
      <4> QED
        BY <1>2, <4>1 DEF Carries, Chained
    <3>2. CASE k = Len(s.ch)
      <4>1. s.ch # <<>> /\ k \in 1..Len(s.ch)
        BY <1>3, <3>2
      <4> QED
        BY <1>1, <1>2, <3>2, <4>1 DEF Carries, Chained
    <3> QED
      BY <1>2, <1>3, <3>1, <3>2
  <2> QED
    BY <1>1, <1>2, <2>1, <2>2 DEF Chained
<1>5. at = t.ch[1].lo
  BY <1>1, <1>2, <1>3 DEF Carries
<1> QED
  BY <1>2, <1>4, <1>5 DEF Carries

\* ... and a chunk received begins where the reader was, and leaves it where the
\* rest begins.
LEMMA TakeCarries ==
    ASSUME NEW s \in Subscriber, s.ch # <<>>, NEW at, NEW end, Carries(s, at, end),
           NEW t, t.ch = Tail(s.ch)
    PROVE  /\ Head(s.ch).lo = at /\ Head(s.ch).lo < Head(s.ch).hi
           /\ Carries(t, Head(s.ch).hi, end)
<1>1. PICK q \in Seq(Chunk) : q = s.ch /\ q # <<>>
  BY DEF Subscriber
<1>2. PICK n \in Nat : Len(q) = n + 1
  <2>1. Len(q) \in Nat \ {0}
    BY <1>1, EmptySeq
  <2>2. Len(q) - 1 \in Nat /\ Len(q) = (Len(q) - 1) + 1
    BY <2>1
  <2> QED
    BY <2>2
<1>3. /\ Tail(q) \in Seq(Chunk) /\ Len(Tail(q)) = n
      /\ \A k \in 1..n : Tail(q)[k] = q[k+1]
      /\ Head(q) = q[1]
  <2>1. Len(Tail(q)) = Len(q) - 1 /\ Tail(q) \in Seq(Chunk)
        /\ \A k \in 1..Len(Tail(q)) : Tail(q)[k] = q[k+1]
    BY <1>1, HeadTailProperties
  <2>2. Len(q) - 1 = n
    BY <1>2
  <2>3. Len(Tail(q)) = n
    BY <2>1, <2>2
  <2>4. \A k \in 1..n : Tail(q)[k] = q[k+1]
    BY <2>1, <2>3
  <2>5. Head(q) = q[1]
    BY <1>1
  <2> QED
    BY <2>1, <2>3, <2>4, <2>5
<1>4. PICK p \in Seq(Chunk) : p = Tail(q) /\ p = t.ch
  BY <1>1, <1>3
<1>5. /\ Len(p) = n /\ (p = <<>> <=> n = 0)
      /\ \A k \in 1..n : p[k] = q[k+1]
  BY <1>3, <1>4, EmptySeq
<1>6. /\ \A k \in 1..(n+1) : q[k].lo < q[k].hi
      /\ \A k \in 1..n : q[k].hi = q[k+1].lo
      /\ q[n+1].hi = end /\ at = q[1].lo
  <2>1. n + 1 - 1 = n
    OBVIOUS
  <2> QED
    BY <1>1, <1>2, <2>1 DEF Carries, Chained
<1>7. Chained(t, end)
  <2>1. \A k \in 1..n : p[k].lo < p[k].hi
    BY <1>5, <1>6
  <2>2. \A k \in 1..(n - 1) : p[k].hi = p[k+1].lo
    <3> TAKE k \in 1..(n - 1)
    <3>1. k \in 1..n /\ k+1 \in 1..n
      OBVIOUS
    <3> QED
      BY <1>5, <1>6, <3>1
  <2>3. p # <<>> => p[n].hi = end
    <3>1. n > 0 => n \in 1..n
      OBVIOUS
    <3>2. p # <<>> => n > 0
      BY <1>5
    <3> QED
      BY <1>5, <1>6, <3>1, <3>2
  <2>4. Len(t.ch) = n /\ t.ch = p
    BY <1>4, <1>5
  <2> QED
    BY <2>1, <2>2, <2>3, <2>4, Zenon DEF Chained
<1>8. q[1].hi = IF p = <<>> THEN end ELSE p[1].lo
  <2>1. CASE n = 0
    BY <1>5, <1>6, <2>1
  <2>2. CASE n > 0
    <3>1. 1 \in 1..n
      BY <2>2
    <3> QED
      BY <1>5, <1>6, <2>2, <3>1
  <2> QED
    BY <2>1, <2>2
<1>9. 1 \in 1..(n+1)
  OBVIOUS
<1> QED
  BY <1>1, <1>3, <1>4, <1>6, <1>7, <1>8, <1>9 DEF Carries

\* A step of the buffer that leaves the stream of v as far as it was, or takes it on.
Steady(v) ==
    /\ sub'[v].from = sub[v].from
    /\ ~sub[v].open => ~sub'[v].open /\ sub'[v].upTo = sub[v].upTo
    /\ \A at \in Nat : Carries(sub[v], at, StreamEnd(v)) => Carries(sub'[v], at, StreamEnd(v)')

\* The same subscriber, and no more written, is the same stream.
LEMMA SameSteady ==
    ASSUME NEW v \in Subs, sub'[v].from = sub[v].from, sub'[v].open = sub[v].open,
           sub'[v].upTo = sub[v].upTo, sub'[v].ch = sub[v].ch, written' = written
    PROVE  Steady(v)
BY DEF Steady, StreamEnd, Carries, Chained

\* Closing a channel cuts the stream where it had got to.
LEMMA ClosedSteady ==
    ASSUME NEW v \in Subs, sub[v] \in Subscriber, written \in Nat, sub[v].open,
           sub'[v].from = sub[v].from, sub'[v].ch = sub[v].ch, ~sub'[v].open,
           sub'[v].upTo = written
    PROVE  Steady(v)
BY DEF Steady, StreamEnd, Carries, Chained

\* The queue has no room for the bytes lo to hi.
Full(s, lo, hi) ==
    s.queued + (hi - lo) > QueueBytes \/ Len(s.ch) >= SubscriberChunks

LEMMA OfferCuts ==
    ASSUME NEW s \in Subscriber, s.lagged = FALSE, NEW lo, NEW hi, Full(s, lo, hi)
    PROVE  LET t == Offer(s, lo, hi)
           IN  t.from = s.from /\ t.ch = s.ch /\ t.open = FALSE /\ t.upTo = written
               /\ t.lagged = TRUE
<1>1. Offer(s, lo, hi) = [Close(s) EXCEPT !.lagged = TRUE]
  BY Zenon DEF Offer, Full
<1> QED
  BY <1>1 DEF Close, Subscriber

LEMMA OfferFits ==
    ASSUME NEW s \in Subscriber, s.lagged = FALSE, NEW lo, NEW hi, ~Full(s, lo, hi)
    PROVE  LET t == Offer(s, lo, hi)
           IN  t.from = s.from /\ t.open = s.open /\ t.lagged = s.lagged
               /\ t.upTo = s.upTo /\ t.ch = Append(s.ch, [lo |-> lo, hi |-> hi])
<1> DEFINE q == s.queued + (hi - lo)
           ch == Append(s.ch, [lo |-> lo, hi |-> hi])
<1>1. Offer(s, lo, hi) = [s EXCEPT !.queued = q, !.ch = ch]
  BY Zenon DEF Offer, Full
<1> HIDE DEF q, ch
<1>2. [s EXCEPT !.queued = q, !.ch = ch].ch = ch
  BY DEF Subscriber
<1>3. LET t == [s EXCEPT !.queued = q, !.ch = ch]
      IN  /\ t.from = s.from /\ t.open = s.open /\ t.lagged = s.lagged
          /\ t.upTo = s.upTo
  BY DEF Subscriber
<1> QED
  BY <1>1, <1>2, <1>3 DEF ch

\* A write takes every stream on, or cuts it.
LEMMA WriteSteady ==
    ASSUME SubsInv, OpenInv, written \in Nat, NEW n \in Nat \ {0}, Write(n)
    PROVE  OpenInv' /\ \A v \in Subs : Steady(v)
<1>1. ASSUME NEW v \in Subs
      PROVE  /\ Steady(v)
             /\ sub'[v].open <=> v \in subs'
  <2>1. sub[v] \in Subscriber /\ v \in Subs /\ written' = written + n
        /\ (sub[v].open <=> v \in subs) /\ (v \in subs => ~sub[v].lagged)
    BY DEF SubsInv, QueueInv, SendsOnOpenChannel, OpenInv, Write
  <2>2. CASE v \notin subs
    <3>1. sub'[v] = sub[v] /\ v \notin subs'
      BY <2>1, <2>2 DEF Write
    <3> QED
      BY <2>1, <2>2, <3>1 DEF Steady, StreamEnd
  <2>3. CASE v \in subs /\ Full(sub[v], written, written + n)
    <3>1. sub'[v] = Offer(sub[v], written, written + n)
      BY <2>1, <2>3 DEF Write
    <3>2. /\ sub'[v].from = sub[v].from /\ sub'[v].ch = sub[v].ch
          /\ sub'[v].open = FALSE /\ sub'[v].upTo = written /\ sub'[v].lagged = TRUE
      <4>1. sub[v] \in Subscriber /\ sub[v].lagged = FALSE
        BY <2>1, <2>3
      <4>2. LET t == Offer(sub[v], written, written + n)
            IN  t.from = sub[v].from /\ t.ch = sub[v].ch /\ t.open = FALSE
                  /\ t.upTo = written /\ t.lagged = TRUE
        BY <2>3, <4>1, OfferCuts
      <4> QED
        BY <3>1, <4>2
    <3>3. v \notin subs'
      BY <3>2 DEF Write
    <3> QED
      BY <2>1, <2>3, <3>2, <3>3, ClosedSteady
  <2>4. CASE v \in subs /\ ~Full(sub[v], written, written + n)
    <3>1. sub'[v] = Offer(sub[v], written, written + n)
      BY <2>1, <2>4 DEF Write
    <3>2. /\ sub'[v].from = sub[v].from /\ sub'[v].open = sub[v].open
          /\ sub'[v].lagged = sub[v].lagged
          /\ sub'[v].ch = Append(sub[v].ch, [lo |-> written, hi |-> written + n])
      <4>1. sub[v] \in Subscriber /\ sub[v].lagged = FALSE
        BY <2>1, <2>4
      <4>2. LET t == Offer(sub[v], written, written + n)
            IN  t.from = sub[v].from /\ t.open = sub[v].open /\ t.lagged = sub[v].lagged
                  /\ t.upTo = sub[v].upTo
                  /\ t.ch = Append(sub[v].ch, [lo |-> written, hi |-> written + n])
        BY ZenonT(60), <2>4, <4>1, OfferFits
      <4> QED
        BY <3>1, <4>2
    <3>3. \A at \in Nat : Carries(sub[v], at, written) => Carries(sub'[v], at, written + n)
      BY <2>1, <3>2, AppendCarries
    <3>4. v \in subs'
      BY <2>1, <2>4, <3>2 DEF Write
    <3> QED
      BY <2>1, <2>4, <3>2, <3>3, <3>4 DEF Steady, StreamEnd
  <2> QED
    BY <2>2, <2>3, <2>4
<1> QED
  BY <1>1 DEF OpenInv

\* So does closing one channel, or all of them.
LEMMA DetachSteady ==
    ASSUME SubsInv, OpenInv, written \in Nat, NEW i \in Subs, Detach(i)
    PROVE  OpenInv' /\ \A v \in Subs : Steady(v)
<1>1. ASSUME NEW v \in Subs PROVE Steady(v) /\ (sub'[v].open <=> v \in subs')
  <2>1. sub[v] \in Subscriber /\ v \in Subs /\ written' = written
        /\ (sub[v].open <=> v \in subs)
    BY DEF SubsInv, QueueInv, OpenInv, Detach, ringVars
  <2>2. CASE v = i /\ i \in subs
    <3>1. sub'[v] = Close(sub[v]) /\ v \notin subs'
      BY <2>1, <2>2 DEF Detach, SubsInv, QueueInv
    <3>2. sub'[v].from = sub[v].from /\ sub'[v].ch = sub[v].ch /\ sub'[v].open = FALSE
          /\ sub'[v].upTo = written
      BY <2>1, <3>1 DEF Close, Subscriber
    <3> QED
      BY <2>1, <2>2, <3>1, <3>2, ClosedSteady
  <2>3. CASE v # i \/ i \notin subs
    <3>1. sub'[v] = sub[v] /\ (v \in subs <=> v \in subs')
      BY <2>1, <2>3 DEF Detach, SubsInv, QueueInv
    <3> QED
      BY <2>1, <3>1, SameSteady
  <2> QED
    BY <2>2, <2>3
<1> QED
  BY <1>1 DEF OpenInv

LEMMA CloseSteady ==
    ASSUME SubsInv, OpenInv, written \in Nat, CloseBuffer
    PROVE  OpenInv' /\ \A v \in Subs : Steady(v)
<1>1. ASSUME NEW v \in Subs PROVE Steady(v) /\ ~sub'[v].open
  <2>1. sub[v] \in Subscriber /\ v \in Subs /\ written' = written
        /\ (sub[v].open <=> v \in subs)
    BY DEF SubsInv, QueueInv, OpenInv, CloseBuffer, ringVars
  <2>2. CASE v \in subs
    <3>1. sub'[v] = Close(sub[v])
      BY <2>1, <2>2 DEF CloseBuffer
    <3>2. sub'[v].from = sub[v].from /\ sub'[v].ch = sub[v].ch /\ sub'[v].open = FALSE
          /\ sub'[v].upTo = written
      BY <2>1, <3>1 DEF Close, Subscriber
    <3> QED
      BY <2>1, <2>2, <3>2, ClosedSteady
  <2>3. CASE v \notin subs
    <3>1. sub'[v] = sub[v]
      BY <2>1, <2>3 DEF CloseBuffer
    <3> QED
      BY <2>1, <2>3, <3>1, SameSteady
  <2> QED
    BY <2>2, <2>3
<1> QED
  BY <1>1 DEF OpenInv, CloseBuffer

\* Accounting changes no stream, and what one reader does only its own.
LEMMA ConsumedSteady ==
    ASSUME SubsInv, OpenInv, NEW i \in Subs, NEW n \in Nat, Consumed(i, n)
    PROVE  OpenInv' /\ \A v \in Subs : Steady(v)
<1>1. ASSUME NEW v \in Subs PROVE Steady(v) /\ sub'[v].open = sub[v].open
  <2>1. sub[v] \in Subscriber /\ v \in Subs /\ written' = written
    BY DEF SubsInv, QueueInv, Consumed, ringVars
  <2>2. sub'[v].from = sub[v].from /\ sub'[v].ch = sub[v].ch /\ sub'[v].open = sub[v].open
        /\ sub'[v].upTo = sub[v].upTo
    BY <2>1 DEF Consumed, Subscriber, SubsInv, QueueInv
  <2> QED
    BY <2>1, <2>2, SameSteady
<1> QED
  BY <1>1 DEF OpenInv, Consumed

LEMMA TakeSteady ==
    ASSUME SubsInv, OpenInv, NEW i \in Subs, Take(i)
    PROVE  /\ OpenInv' /\ \A v \in Subs \ {i} : Steady(v)
           /\ sub'[i].from = sub[i].from /\ sub'[i].open = sub[i].open
           /\ sub'[i].upTo = sub[i].upTo /\ sub'[i].ch = Tail(sub[i].ch)
<1>1. written' = written /\ subs' = subs
  BY DEF Take, ringVars
<1>2. sub[i] \in Subscriber /\ i \in Subs
  BY DEF SubsInv, QueueInv
<1>3. /\ sub'[i].from = sub[i].from /\ sub'[i].open = sub[i].open
      /\ sub'[i].upTo = sub[i].upTo /\ sub'[i].ch = Tail(sub[i].ch)
  BY <1>2 DEF Take, Subscriber, SubsInv, QueueInv
<1>4. \A v \in Subs \ {i} : sub'[v] = sub[v]
  BY DEF Take, SubsInv, QueueInv
<1>5. \A v \in Subs \ {i} : Steady(v)
  BY <1>1, <1>4, SameSteady
<1> QED
  BY <1>1, <1>3, <1>4, <1>5 DEF OpenInv

LEMMA AttachSteady ==
    ASSUME SubsInv, OpenInv, NEW i \in Subs, Attach(i)
    PROVE  /\ OpenInv' /\ \A v \in Subs \ {i} : Steady(v)
           /\ sub'[i] = Fresh(written) /\ written' = written
<1>1. written' = written /\ subs' = subs \cup {i}
  BY DEF Attach, ringVars
<1>2. sub'[i] = Fresh(written) /\ sub'[i].open
  BY DEF Attach, SubsInv, QueueInv, Fresh
<1>3. \A v \in Subs \ {i} : sub'[v] = sub[v]
  BY DEF Attach, SubsInv, QueueInv
<1>4. \A v \in Subs \ {i} : Steady(v)
  BY <1>1, <1>3, SameSteady
<1> QED
  BY <1>1, <1>2, <1>3, <1>4 DEF OpenInv

----------------------------------------------------------------------------
(* Sessions (AttachSession). *)

USE DEF Viewers

\* The inductive invariant: the ring holds the tail of the stream, the map holds open
\* channels, and the sessions are typed.
IInv == BufferInv /\ SessionTypeOK

\* The ring is full of bytes that were written only where it says so, so the
\* invariant gives the type of the buffer.
LEMMA IInvMeans == IInv => TypeOK /\ RingIsTail /\ SendsOnOpenChannel
BY RingInvMeans DEF IInv, BufferInv, TypeOK, BufferTypeOK, SubsInv, QueueInv, RingInv

\* A buffer nothing was written to and sessions that have not begun satisfy it.
LEMMA InitIInv == Init => IInv
<1> SUFFICES ASSUME Init PROVE IInv
  OBVIOUS
<1>1. BufferInv
  BY BufferBegins DEF Init
<1>2. SessionTypeOK
  <2>1. Nothing \in Chunk /\ <<>> \in Seq(Nat)
    BY DEF Nothing, Chunk
  <2> QED
    BY <2>1 DEF Init, SessionTypeOK, Viewers
<1> QED
  BY <1>1, <1>2 DEF IInv

----------------------------------------------------------------------------
(* The sessions. *)

\* A step of the service: a write, a rename, an end or a removal.
LEMMA ServiceKeepsIInv == ASSUME IInv, Service PROVE IInv'
<1> USE DEF IInv
<1>1. ASSUME NEW n \in 1..MaxChunk, Output(n) PROVE IInv'
  BY <1>1, OperationsKeepBuffer DEF Output, SessionTypeOK, serviceVars, sessionVars
<1>2. ASSUME NEW to \in Names, Rename(to) PROVE IInv'
  <2>1. wake' \in [Viewers -> {"none", "empty", "token", "closed"}]
    BY <1>2 DEF Rename, Notified, SessionTypeOK
  <2> QED
    BY <1>2, <2>1, BufferKept DEF Rename, SessionTypeOK
<1>3. ASSUME NEW b \in BOOLEAN, End(b) PROVE IInv'
  <2>1. wake' \in [Viewers -> {"none", "empty", "token", "closed"}]
    BY <1>3 DEF End, Notified, SessionTypeOK
  <2> QED
    BY <1>3, <2>1, BufferKept DEF End, SessionTypeOK
<1>4. ASSUME RemoveCloses PROVE IInv'
  BY <1>4, OperationsKeepBuffer DEF RemoveCloses, SessionTypeOK, serviceVars, sessionVars
<1>5. ASSUME RemoveForgets PROVE IInv'
  BY <1>5, BufferKept DEF RemoveForgets, SessionTypeOK, sessionVars
<1> QED
  BY <1>1, <1>2, <1>3, <1>4, <1>5 DEF Service

\* A set of naturals that has an element has a least.
LEMMA LeastOf ==
    ASSUME NEW S \in SUBSET Nat, S # {}
    PROVE  (CHOOSE k \in S : \A j \in S : k <= j) \in S
<1>1. \E k \in S : \A j \in S : ~(<<j, k>> \in OpToRel(<, Nat))
  BY ONLY S # {}, S \subseteq Nat, WFMin, NatLessThanWellFounded
<1>2. \E k \in S : \A j \in S : k <= j
  <2>1. \A j, k \in Nat : j < k => <<j, k>> \in OpToRel(<, Nat)
    BY DEF OpToRel
  <2>2. \A j, k \in Nat : ~(j < k) => k <= j
    OBVIOUS
  <2> QED
    BY <1>1, <2>1, <2>2
<1> QED
  BY <1>2

\* The replay is cut out of the ring.
LEMMA ReplayTyped == IInv => Replay \in Seq(Nat)
<1> SUFFICES ASSUME IInv PROVE Replay \in Seq(Nat)
  OBVIOUS
<1>1. Snapshot = Bytes(written - size, written) /\ size \in Nat /\ written - size \in Nat
      /\ written \in Nat
  BY IInvMeans DEF RingIsTail, IInv, BufferInv, RingInv
<1>2. Snapshot \in Seq(Nat)
  <2>1. [lo |-> written - size, hi |-> written] \in Chunk
    BY <1>1 DEF Chunk
  <2> QED
    BY <1>1, <2>1, BytesTyped
<1>3. ASSUME NEW b \in Seq(Nat) PROVE ReplayStart(b) \in Seq(Nat)
  <2> DEFINE ends == {k \in 1..Len(b) : b[k] \in Newlines}
             first == CHOOSE k \in ends : \A j \in ends : k <= j
  <2>1. CASE ends = {}
    BY <2>1 DEF ReplayStart
  <2>2. CASE ends # {}
    <3>1. ends \in SUBSET Nat
      OBVIOUS
    <3>4. first \in ends
      <4> HIDE DEF ends
      <4> QED
        BY <2>2, <3>1, LeastOf
    <3> HIDE DEF first
    <3>5. SubSeq(b, first + 1, Len(b)) \in Seq(Nat)
      BY <3>4
    <3> QED
      BY <2>2, <3>5 DEF ReplayStart, first
  <2> QED
    BY <2>1, <2>2
<1> QED
  BY <1>2, <1>3 DEF Replay

\* A step of a session's main goroutine.
LEMMA SessionKeepsIInv ==
    ASSUME IInv, NEW v \in Viewers,
           Lookup(v) \/ HangUp(v) \/ InputRefused(v) \/ Session(v)
    PROVE  IInv'
<1> USE DEF IInv
<1>0. BufferInv /\ SessionTypeOK /\ v \in Subs
  BY DEF Viewers
<1>1. CASE Lookup(v)
  <2>1. <<>> \in Seq(Nat)
    OBVIOUS
  <2> QED
    BY <1>0, <1>1, <2>1, BufferKept DEF Lookup, SessionTypeOK, serviceVars
<1>2. CASE HangUp(v)
  BY <1>0, <1>2, BufferKept DEF HangUp, SessionTypeOK, serviceVars
<1>3. ASSUME NEW how \in {"gone", "closed", "refused"}, EndInput(v, how) PROVE IInv'
  BY <1>0, <1>3, OperationsKeepBuffer DEF EndInput, SessionTypeOK, serviceVars
<1>4. CASE InputRefused(v)
  BY <1>3, <1>4 DEF InputRefused
<1>5. CASE InputEnds(v)
  <2>1. conn[v] \in {"gone", "closed", "refused"}
    BY <1>0, <1>5 DEF InputEnds, SessionTypeOK
  <2> QED
    BY <1>3, <1>5, <2>1 DEF InputEnds
<1>6. CASE Count(v)
  BY <1>0, <1>6, BufferKept DEF Count, SessionTypeOK, serviceVars, Viewers
<1>7. CASE Subscribe(v)
  <2>1. BufferInv'
    BY <1>0, <1>7, BufferKept, OperationsKeepBuffer DEF Subscribe
  <2>2. seen' \in [Viewers -> Seq(Nat)]
    <3>1. <<>> \in Seq(Nat) /\ Replay \in Seq(Nat)
      BY ReplayTyped
    <3>2. seen' = seen \/ \E r \in {<<>>, Replay} : seen' = [seen EXCEPT ![v] = r]
      BY <1>7, Zenon DEF Subscribe
    <3>3. seen' = seen \/ \E r \in Seq(Nat) : seen' = [seen EXCEPT ![v] = r]
      BY <3>1, <3>2, Zenon
    <3>4. seen \in [Viewers -> Seq(Nat)]
      BY <1>0 DEF SessionTypeOK
    <3> QED
      BY ONLY <3>3, <3>4, v \in Viewers
  <2>3. main' \in [Viewers -> {"idle", "found", "counted", "subscribed", "reading", "joining",
                               "stopping", "leaving"}]
    <3>1. \E p \in {"leaving", "subscribed"} : main' = [main EXCEPT ![v] = p]
      BY <1>7, Zenon DEF Subscribe
    <3> QED
      BY <1>0, <3>1 DEF SessionTypeOK
  <2> QED
    BY <1>0, <1>7, <2>1, <2>2, <2>3 DEF Subscribe, SessionTypeOK, serviceVars
<1>8. CASE Serve(v)
  BY <1>0, <1>8, BufferKept DEF Serve, SessionTypeOK, serviceVars
<1>9. CASE ServeFails(v)
  BY <1>0, <1>9, OperationsKeepBuffer DEF ServeFails, SessionTypeOK, serviceVars
<1>10. CASE PumpJoined(v)
  BY <1>0, <1>10, BufferKept DEF PumpJoined, SessionTypeOK, serviceVars
<1>11. CASE WatcherJoined(v)
  BY <1>0, <1>11, BufferKept DEF WatcherJoined, SessionTypeOK, serviceVars
<1>12. CASE Leave(v)
  BY <1>0, <1>12, BufferKept DEF Leave, SessionTypeOK, serviceVars
<1> QED
  BY <1>1, <1>2, <1>4, <1>5, <1>6, <1>7, <1>8, <1>9, <1>10, <1>11, <1>12 DEF Session

\* A step of its pump.
LEMMA PumpKeepsIInv == ASSUME IInv, NEW v \in Viewers, Pump(v) PROVE IInv'
<1> USE DEF IInv
<1>0. /\ BufferInv /\ SessionTypeOK /\ v \in Subs
      /\ Hung(v) \in [Viewers -> {"up", "gone", "closed", "refused"}]
      /\ hand[v] \in Chunk /\ Nothing \in Chunk
  BY DEF Viewers, Hung, SessionTypeOK, Nothing, Chunk
<1>1. CASE Receive(v)
  <2>1. sub[v].ch \in Seq(Chunk) /\ sub[v].ch # <<>>
    BY <1>0, <1>1 DEF BufferInv, SubsInv, QueueInv, Subscriber, Receive, Take
  <2>2. Head(sub[v].ch) \in Chunk
    BY <2>1
  <2> QED
    BY <1>0, <1>1, <2>2, OperationsKeepBuffer DEF Receive, SessionTypeOK, serviceVars
<1>2. CASE Deliver(v)
  <2>1. hand[v].hi - hand[v].lo \in Nat
    BY <1>0 DEF Chunk
  <2>2. BufferInv'
    BY <1>0, <1>2, <2>1, OperationsKeepBuffer DEF Deliver
  <2>3. seen' \in [Viewers -> Seq(Nat)]
    <3>1. seen[v] \in Seq(Nat) /\ Bytes(hand[v].lo, hand[v].hi) \in Seq(Nat)
      BY <1>0, BytesTyped DEF SessionTypeOK
    <3>2. seen[v] \o Bytes(hand[v].lo, hand[v].hi) \in Seq(Nat)
      BY <3>1
    <3> QED
      BY <1>0, <1>2, <3>2 DEF Deliver, SessionTypeOK
  <2>4. /\ lagTold' \in [Viewers -> BOOLEAN]
        /\ pump' \in [Viewers -> {"off", "ranging", "holding", "done"}]
        /\ conn' \in [Viewers -> {"up", "gone", "closed", "refused"}]
        /\ hand' \in [Viewers -> Chunk]
    BY ZenonT(60), <1>0, <1>2 DEF Deliver, SessionTypeOK
  <2> QED
    BY <1>0, <1>2, <2>2, <2>3, <2>4 DEF Deliver, SessionTypeOK, serviceVars
<1>3. CASE DeliverFails(v)
  BY <1>0, <1>3, BufferKept DEF DeliverFails, SessionTypeOK, serviceVars
<1>4. CASE PumpEnds(v)
  <2>1. lagTold' \in [Viewers -> BOOLEAN]
    BY <1>0, <1>4, Zenon DEF PumpEnds, SessionTypeOK
  <2> QED
    BY <1>0, <1>4, <2>1, BufferKept DEF PumpEnds, SessionTypeOK, serviceVars
<1> QED
  BY <1>1, <1>2, <1>3, <1>4 DEF Pump

\* A step of its watcher.
LEMMA WatcherKeepsIInv == ASSUME IInv, NEW v \in Viewers, Watcher(v) PROVE IInv'
<1> USE DEF IInv
<1>0. BufferInv /\ SessionTypeOK /\ v \in Subs /\ NameNow(v) \subseteq Names
  BY DEF Viewers, NameNow, SessionTypeOK
<1>1. CASE TellRenamed(v)
  BY <1>0, <1>1, BufferKept DEF TellRenamed, SessionTypeOK, serviceVars
<1>2. CASE CheckFinished(v)
  BY <1>0, <1>2, BufferKept DEF CheckFinished, SessionTypeOK, serviceVars
<1>3. CASE Woken(v)
  BY <1>0, <1>3, BufferKept DEF Woken, SessionTypeOK, serviceVars
<1>4. CASE TellFinished(v)
  <2>1. endTold' \in [Viewers -> BOOLEAN]
    BY <1>0, <1>4, Zenon DEF TellFinished, SessionTypeOK
  <2> QED
    BY <1>0, <1>4, <2>1, BufferKept DEF TellFinished, SessionTypeOK, serviceVars
<1>5. CASE DetachFinished(v)
  BY <1>0, <1>5, OperationsKeepBuffer DEF DetachFinished, SessionTypeOK, serviceVars
<1> QED
  BY <1>1, <1>2, <1>3, <1>4, <1>5 DEF Watcher

----------------------------------------------------------------------------
(* The stream a session carries. *)

\* Where a session's goroutines are goes together, and only its pump ends the
\* connection.
Phase(v) ==
    /\ main[v] \in {"found", "counted", "subscribed"} => pump[v] = "off"
    /\ pump[v] \in {"ranging", "holding"} => main[v] \in {"reading", "joining"}
    /\ conn[v] = "closed" => pump[v] = "done"

\* A sequence of bytes with none missing.
Unbroken(b) == \A k \in 1..(Len(b) - 1) : b[k+1] = b[k] + 1

\* Where the queue of a session has to take over.
Reached(v) == IF pump[v] = "holding" THEN hand[v].hi ELSE Position(v)

\* What was sent, what the pump holds and what is queued follow on.
Flow(v) ==
    /\ Unbroken(seen[v])
    /\ pump[v] = "holding" => hand[v].lo = Position(v) /\ hand[v].lo < hand[v].hi
    /\ Carries(sub[v], Reached(v), StreamEnd(v))

Streaming(v) == main[v] \in {"subscribed", "reading", "joining"} /\ pump[v] # "done"

\* A session whose stream the daemon cut, and that was not told of a drop, has it all.
Whole(v) ==
    Serving(v) /\ pump[v] = "done" /\ conn[v] = "closed" /\ ~lagTold[v] =>
        Position(v) = sub[v].upTo /\ ~sub[v].open

Sound(v) == Phase(v) /\ (Streaming(v) => Flow(v)) /\ Whole(v)

StreamInv == OpenInv /\ \A v \in Viewers : Sound(v)

\* Sending a chunk that follows on leaves no gap.
LEMMA SentUnbroken ==
    ASSUME NEW b \in Seq(Nat), Unbroken(b), NEW lo \in Nat, NEW hi \in Nat, lo < hi,
           b # <<>> => lo = b[Len(b)] + 1
    PROVE  LET r == b \o Bytes(lo, hi)
           IN  r \in Seq(Nat) /\ Unbroken(r) /\ r # <<>> /\ r[Len(r)] + 1 = hi
<1> DEFINE c == Bytes(lo, hi)
           r == b \o c
<1>1. c \in Seq(Nat) /\ Len(c) = hi - lo /\ \A k \in 1..(hi - lo) : c[k] = lo + k - 1
  <2>1. \A k \in 1..(hi - lo) : lo + k - 1 \in Nat
    OBVIOUS
  <2>2. hi - lo \in Nat
    OBVIOUS
  <2> QED
    BY <2>1, <2>2 DEF Bytes
<1>2. PICK n \in Nat, m \in Nat \ {0} : n = Len(b) /\ m = Len(c) /\ m = hi - lo
  BY <1>1
<1>3. /\ r \in Seq(Nat) /\ Len(r) = n + m
      /\ \A k \in 1..(n + m) : r[k] = IF k <= n THEN b[k] ELSE c[k - n]
  <2>1. b \o c \in Seq(Nat) /\ Len(b \o c) = Len(b) + Len(c)
        /\ \A k \in 1..Len(b) + Len(c) :
              (b \o c)[k] = IF k <= Len(b) THEN b[k] ELSE c[k - Len(b)]
    <3> HIDE DEF c
    <3> QED
      BY <1>1, ConcatProperties
  <2> HIDE DEF c
  <2> QED
    BY <1>2, <2>1
<1> HIDE DEF c, r
<1>4. n > 0 => b[n] + 1 = lo
  BY <1>2
<1>5. \A k \in 1..(n + m - 1) : r[k+1] = r[k] + 1
  <2> TAKE k \in 1..(n + m - 1)
  <2>0. r[k] = (IF k <= n THEN b[k] ELSE c[k - n])
        /\ r[k+1] = (IF k+1 <= n THEN b[k+1] ELSE c[k+1 - n])
    <3>1. k \in 1..(n + m) /\ k+1 \in 1..(n + m)
      BY <1>2
    <3> QED
      BY <1>3, <3>1
  <2>1. CASE k < n
    <3>1. k \in 1..(n - 1) /\ k <= n /\ k+1 <= n
      BY <1>2, <2>1
    <3>2. b[k+1] = b[k] + 1
      BY <1>2, <3>1 DEF Unbroken
    <3> QED
      BY <2>0, <3>1, <3>2
  <2>2. CASE k = n
    <3>1. k <= n /\ ~(k+1 <= n) /\ k+1 - n = 1 /\ n > 0 /\ 1 \in 1..(hi - lo)
      BY <1>2, <2>2
    <3>2. c[1] = lo
      BY <1>1, <3>1
    <3> QED
      BY <1>4, <2>0, <2>2, <3>1, <3>2
  <2>3. CASE k > n
    <3>1. ~(k <= n) /\ ~(k+1 <= n) /\ k - n \in 1..(hi - lo) /\ k+1 - n \in 1..(hi - lo)
      BY <1>2, <2>3
    <3>2. c[k+1 - n] = lo + (k+1 - n) - 1 /\ c[k - n] = lo + (k - n) - 1
      BY <1>1, <3>1
    <3>3. lo + (k+1 - n) - 1 = (lo + (k - n) - 1) + 1
      BY <1>2
    <3> QED
      BY <2>0, <3>1, <3>2, <3>3
  <2> QED
    BY <1>2, <2>1, <2>2, <2>3
<1>6. r # <<>> /\ r[Len(r)] + 1 = hi
  <2>1. n + m \in 1..(n + m) /\ ~(n + m <= n) /\ n + m - n = hi - lo /\ hi - lo \in 1..(hi - lo)
    BY <1>2
  <2>2. r[n + m] = c[hi - lo] /\ c[hi - lo] = lo + (hi - lo) - 1
    <3>1. r[n + m] = IF n + m <= n THEN b[n + m] ELSE c[n + m - n]
      BY <1>3, <2>1
    <3> QED
      BY <1>1, <2>1, <3>1
  <2>3. r # <<>>
    BY <1>2, <1>3
  <2> QED
    BY <1>3, <2>2, <2>3
<1>7. Unbroken(r)
  BY <1>3, <1>5 DEF Unbroken
<1> QED
  BY <1>3, <1>6, <1>7 DEF r, c

\* The variables of session v, apart from what the watcher tells it.
Idle(v) ==
    /\ main'[v] = main[v] /\ pump'[v] = pump[v] /\ conn'[v] = conn[v] /\ hand'[v] = hand[v]
    /\ seen'[v] = seen[v] /\ lagTold'[v] = lagTold[v]

LEMMA PositionTyped ==
    ASSUME IInv, NEW v \in Viewers
    PROVE  Position(v) \in Nat /\ Reached(v) \in Nat
<1>1. sub[v].from \in Nat /\ seen[v] \in Seq(Nat) /\ hand[v].hi \in Nat
  BY DEF IInv, BufferInv, SubsInv, QueueInv, Subscriber, SessionTypeOK, Chunk, Viewers
<1>2. seen[v] # <<>> => seen[v][Len(seen[v])] \in Nat
  BY <1>1
<1> QED
  BY <1>1, <1>2 DEF Position, Reached

\* While its stream is steady, a flow goes on through any step that neither sends nor
\* receives.
LEMMA FlowsOn ==
    ASSUME IInv, NEW v \in Viewers, Steady(v), Flow(v), seen'[v] = seen[v], hand'[v] = hand[v],
           pump'[v] = "holding" <=> pump[v] = "holding"
    PROVE  Flow(v)' /\ Position(v)' = Position(v)
<1>1. Position(v)' = Position(v) /\ Reached(v)' = Reached(v)
  BY DEF Steady, Position, Reached
<1>2. Reached(v) \in Nat
  BY PositionTyped
<1> QED
  BY <1>1, <1>2 DEF Flow, Steady, Unbroken

LEMMA IdleSound ==
    ASSUME IInv, NEW v \in Viewers, Sound(v), Idle(v), Steady(v)
    PROVE  Sound(v)'
<1>1. Phase(v)' /\ (Streaming(v)' => Streaming(v))
  BY DEF Sound, Phase, Idle, Streaming
<1>2. Streaming(v) => Flow(v)'
  BY FlowsOn DEF Sound, Idle
<1>3. Whole(v)'
  BY DEF Sound, Whole, Idle, Steady, Serving, Position
<1> QED
  BY <1>1, <1>2, <1>3 DEF Sound

\* What is replayed has no gap, and ends where the subscription begins.
LEMMA ReplayUnbroken ==
    ASSUME IInv, NEW r \in {<<>>, Replay}
    PROVE  Unbroken(r) /\ (r # <<>> => r[Len(r)] + 1 = written)
<1>1. PICK n \in Nat : n = size /\ written - n \in Nat /\ written \in Nat
                       /\ Snapshot = Bytes(written - n, written)
  BY IInvMeans DEF RingIsTail, IInv, BufferInv, RingInv
<1> DEFINE s == Snapshot
<1>2. s \in Seq(Nat) /\ Len(s) = n /\ \A k \in 1..n : s[k] = written - n + k - 1
  <2>1. written - (written - n) = n /\ \A k \in 1..n : written - n + k - 1 \in Nat
    BY <1>1
  <2>2. s = [k \in 1..n |-> written - n + k - 1]
    BY <1>1, <2>1 DEF Bytes
  <2> HIDE DEF s
  <2> QED
    BY <2>1, <2>2
<1> HIDE DEF s
<1>3. Unbroken(s) /\ (s # <<>> => s[Len(s)] + 1 = written)
  <2>1. \A k \in 1..(n - 1) : s[k+1] = s[k] + 1
    <3> TAKE k \in 1..(n - 1)
    <3>1. k \in 1..n /\ k+1 \in 1..n
      OBVIOUS
    <3>2. s[k] = written - n + k - 1 /\ s[k+1] = written - n + (k+1) - 1
      BY <1>2, <3>1
    <3> QED
      BY <1>1, <3>2
  <2>2. s # <<>> => n \in 1..n
    BY <1>2, EmptySeq
  <2>3. written - n + n - 1 + 1 = written
    BY <1>1
  <2> QED
    BY <1>2, <2>1, <2>2, <2>3 DEF Unbroken
<1>4. Unbroken(<<>>)
  <2>1. Len(<<>>) - 1 = -1 /\ 1..(-1) = {}
    OBVIOUS
  <2> QED
    BY <2>1 DEF Unbroken
<1>5. CASE r = <<>>
  BY <1>4, <1>5
<1>6. CASE r = s
  BY <1>3, <1>6
<1>7. ASSUME NEW first \in 1..n, r = SubSeq(s, first + 1, n)
      PROVE  Unbroken(r) /\ (r # <<>> => r[Len(r)] + 1 = written)
  <2>1. /\ r \in Seq(Nat) /\ Len(r) = n - first
        /\ \A k \in 1..(n - first) : r[k] = s[first + k]
    <3>1. \A i \in first + 1 .. n : s[i] \in Nat
      BY <1>2
    <3>2. /\ r \in Seq(Nat) /\ Len(r) = IF first + 1 <= n THEN n - (first + 1) + 1 ELSE 0
          /\ \A i \in 1..(n - (first + 1) + 1) : r[i] = s[first + 1 + i - 1]
      BY <1>7, <3>1, SubSeqProperties
    <3>3. n - (first + 1) + 1 = n - first /\ \A k \in Nat : first + 1 + k - 1 = first + k
      OBVIOUS
    <3> QED
      BY <3>2, <3>3
  <2>2. \A k \in 1..(n - first - 1) : r[k+1] = r[k] + 1
    <3> TAKE k \in 1..(n - first - 1)
    <3>1. /\ k \in 1..(n - first) /\ k+1 \in 1..(n - first) /\ first + k \in 1..(n - 1)
          /\ first + (k + 1) = (first + k) + 1
      OBVIOUS
    <3> QED
      BY ZenonT(60), <1>2, <1>3, <2>1, <3>1 DEF Unbroken
  <2>3. r # <<>> => n - first \in 1..(n - first) /\ first + (n - first) = n
    BY <2>1, EmptySeq
  <2>4. s # <<>> /\ s[n] + 1 = written
    BY <1>2, <1>3, EmptySeq
  <2> QED
    BY <2>1, <2>2, <2>3, <2>4 DEF Unbroken
<1>8. r = <<>> \/ r = s \/ \E first \in 1..n : r = SubSeq(s, first + 1, n)
  <2>1. CASE r = Replay /\ r # s
    <3> DEFINE ends == {k \in 1..Len(s) : s[k] \in Newlines}
               first == CHOOSE k \in ends : \A j \in ends : k <= j
    <3>1. ends # {} /\ r = SubSeq(s, first + 1, Len(s))
      BY <2>1 DEF Replay, ReplayStart, s
    <3>2. first \in ends
      <4>1. ends \in SUBSET Nat
        BY <1>2
      <4> HIDE DEF ends
      <4> QED
        BY <3>1, <4>1, LeastOf
    <3> QED
      BY <1>2, <3>1, <3>2
  <2> QED
    BY <2>1
<1> QED
  BY <1>5, <1>6, <1>7, <1>8

LEMMA StreamKept == IInv /\ StreamInv /\ [Next]_vars => StreamInv'
<1> SUFFICES ASSUME IInv, StreamInv, [Next]_vars PROVE StreamInv'
  OBVIOUS
<1>0. /\ SubsInv /\ OpenInv /\ written \in Nat /\ \A v \in Viewers : Sound(v)
      /\ SessionTypeOK
  BY DEF IInv, BufferInv, RingInv, StreamInv
<1>a. ASSUME OpenInv', \A v \in Viewers : Idle(v) /\ Steady(v) PROVE StreamInv'
  BY <1>0, <1>a, IdleSound DEF StreamInv
<1>b. ASSUME UNCHANGED <<bufferVars>> PROVE OpenInv' /\ \A v \in Viewers : Steady(v)
  BY <1>0, <1>b, SameSteady DEF bufferVars, OpenInv
<1>c. ASSUME OpenInv', NEW v \in Viewers, \A u \in Viewers \ {v} : Idle(u) /\ Steady(u),
             Sound(v)'
      PROVE  StreamInv'
  BY <1>0, <1>c, IdleSound DEF StreamInv
<1>1. CASE UNCHANGED vars
  BY <1>1, <1>a, <1>b DEF vars, sessionVars, Idle
<1>2. CASE Service
  <2>1. ASSUME NEW n \in 1..MaxChunk, Output(n) PROVE StreamInv'
    <3>1. n \in Nat \ {0}
      BY BufferAssumption
    <3>2. OpenInv' /\ \A v \in Viewers : Steady(v)
      BY <1>0, <2>1, <3>1, WriteSteady DEF Output
    <3> QED
      BY <1>a, <2>1, <3>2 DEF Output, sessionVars, Idle
  <2>2. CASE RemoveCloses
    <3>1. OpenInv' /\ \A v \in Viewers : Steady(v)
      BY <1>0, <2>2, CloseSteady DEF RemoveCloses
    <3> QED
      BY <1>a, <2>2, <3>1 DEF RemoveCloses, sessionVars, Idle
  <2>3. CASE RemoveForgets \/ (\E to \in Names : Rename(to)) \/ (\E b \in BOOLEAN : End(b))
    BY <1>a, <1>b, <2>3 DEF RemoveForgets, Rename, End, sessionVars, Idle
  <2> QED
    BY <1>2, <2>1, <2>2, <2>3 DEF Service
<1>3. ASSUME NEW v \in Viewers,
             \/ Count(v) \/ PumpJoined(v) \/ WatcherJoined(v) \/ Leave(v) \/ HangUp(v)
             \/ Lookup(v) \/ Serve(v)
      PROVE  StreamInv'
  <2>1. OpenInv' /\ \A u \in Viewers : Steady(u)
    BY <1>3, <1>b DEF Count, PumpJoined, WatcherJoined, Leave, HangUp, Lookup, Serve
  <2>2. \A u \in Viewers \ {v} : Idle(u)
    BY <1>3, <1>0 DEF SessionTypeOK, Idle, Count, PumpJoined, WatcherJoined, Leave, HangUp, Lookup,
                Serve
  <2>3. Sound(v)'
    <3>1. Sound(v) /\ Steady(v)
      BY <1>0, <2>1
    <3>2. CASE Count(v) \/ Leave(v) \/ Lookup(v)
      BY <1>0, <3>1, <3>2 DEF Count, Leave, Lookup, Sound, Phase, Streaming, Whole, Serving,
                              SessionTypeOK
    <3>3. CASE PumpJoined(v) \/ WatcherJoined(v)
      BY <1>0, <3>1, <3>3
      DEF PumpJoined, WatcherJoined, Sound, Phase, Streaming, Whole, Serving, SessionTypeOK,
          Position, Steady
    <3>4. CASE HangUp(v)
      <4>1. Streaming(v) => Flow(v)'
        BY <3>1, <3>4, FlowsOn DEF HangUp, Sound
      <4> QED
        BY <1>0, <3>1, <3>4, <4>1 DEF HangUp, Sound, Phase, Streaming, Whole, SessionTypeOK
    <3>5. CASE Serve(v)
      <4>1. Flow(v)'
        BY <1>0, <3>1, <3>5, FlowsOn DEF Serve, Sound, Streaming, Phase, SessionTypeOK
      <4> QED
        BY <1>0, <3>1, <3>5, <4>1 DEF Serve, Sound, Phase, Streaming, Whole, SessionTypeOK
    <3> QED
      BY <1>3, <3>2, <3>3, <3>4, <3>5
  <2> QED
    BY <1>c, <2>1, <2>2, <2>3
<1>4. ASSUME NEW v \in Viewers, Subscribe(v) PROVE StreamInv'
  <2>1. CASE closed /\ main' = [main EXCEPT ![v] = "leaving"] /\ UNCHANGED <<bufferVars, seen>>
    <3>1. OpenInv' /\ \A u \in Viewers : Steady(u)
      BY <2>1, <1>b
    <3>2. \A u \in Viewers \ {v} : Idle(u)
      BY <1>0, <1>4, <2>1 DEF Subscribe, SessionTypeOK, Idle
    <3>3. Sound(v)'
      BY <1>0, <1>4, <2>1
      DEF Subscribe, Sound, Phase, Streaming, Whole, Serving, SessionTypeOK
    <3> QED
      BY <1>c, <3>1, <3>2, <3>3
  <2>2. ASSUME Attach(v), main' = [main EXCEPT ![v] = "subscribed"],
               NEW r \in {<<>>, Replay}, seen' = [seen EXCEPT ![v] = r]
        PROVE  StreamInv'
    <3>1. /\ OpenInv' /\ \A u \in Viewers \ {v} : Steady(u)
          /\ sub'[v] = Fresh(written) /\ written' = written
      BY <1>0, <2>2, AttachSteady
    <3>2. \A u \in Viewers \ {v} : Idle(u)
      BY <1>0, <1>4, <2>2 DEF Subscribe, SessionTypeOK, Idle
    <3>3. Unbroken(r) /\ (r # <<>> => r[Len(r)] + 1 = written)
      BY <1>0, <2>2, ReplayUnbroken
    <3>4. /\ seen'[v] = r /\ pump'[v] = "off" /\ main'[v] = "subscribed" /\ conn'[v] # "closed"
      BY <1>0, <1>4, <2>2 DEF Subscribe, SessionTypeOK, Sound, Phase
    <3>5. Flow(v)'
      BY <3>1, <3>3, <3>4 DEF Flow, Position, Reached, Fresh, Carries, Chained, StreamEnd
    <3> QED
      BY <1>c, <3>1, <3>2, <3>4, <3>5 DEF Sound, Phase, Whole, Serving
  <2> QED
    BY <1>4, <2>1, <2>2 DEF Subscribe
<1>5. ASSUME NEW v \in Viewers, ServeFails(v) \/ InputEnds(v) \/ InputRefused(v)
      PROVE  StreamInv'
  <2>1. /\ Detach(v) /\ main[v] \in {"subscribed", "reading"}
        /\ main' \in {[main EXCEPT ![v] = "leaving"], [main EXCEPT ![v] = "joining"]}
        /\ main'[v] = "joining" <=> main[v] = "reading"
        /\ conn' \in {conn, [conn EXCEPT ![v] = conn[v]], [conn EXCEPT ![v] = "refused"]}
        /\ UNCHANGED <<pump, hand, seen, lagTold>>
    BY <1>0, <1>5 DEF ServeFails, InputEnds, InputRefused, EndInput, SessionTypeOK
  <2>2. OpenInv' /\ \A u \in Viewers : Steady(u)
    BY <1>0, <2>1, DetachSteady
  <2>3. \A u \in Viewers \ {v} : Idle(u)
    BY <1>0, <2>1 DEF SessionTypeOK, Idle
  <2>4. Sound(v)'
    <3>1. Streaming(v) => Flow(v)' /\ Position(v)' = Position(v)
      BY <1>0, <2>1, <2>2, FlowsOn DEF Sound
    <3>2. Phase(v)'
      BY <1>0, <2>1 DEF Sound, Phase, SessionTypeOK
    <3>3. Streaming(v)' => Streaming(v)
      BY <1>0, <2>1 DEF Streaming, SessionTypeOK
    <3>4. Whole(v)'
      BY <1>0, <2>1, <2>2
      DEF Sound, Whole, Serving, Steady, SessionTypeOK, Position
    <3> QED
      BY <3>1, <3>2, <3>3, <3>4 DEF Sound
  <2> QED
    BY <1>c, <2>2, <2>3, <2>4
<1>6. ASSUME NEW v \in Viewers, Receive(v) PROVE StreamInv'
  <2>1. /\ OpenInv' /\ \A u \in Viewers \ {v} : Steady(u)
        /\ sub'[v].from = sub[v].from /\ sub'[v].open = sub[v].open
        /\ sub'[v].upTo = sub[v].upTo /\ sub'[v].ch = Tail(sub[v].ch)
    BY <1>0, <1>6, TakeSteady DEF Receive
  <2>2. /\ pump[v] = "ranging" /\ pump'[v] = "holding" /\ hand'[v] = Head(sub[v].ch)
        /\ sub[v].ch # <<>> /\ main'[v] = main[v] /\ conn'[v] = conn[v] /\ seen'[v] = seen[v]
        /\ written' = written
    BY <1>0, <1>6 DEF Receive, Take, ringVars, SessionTypeOK
  <2>3. \A u \in Viewers \ {v} : Idle(u)
    BY <1>0, <1>6 DEF Receive, SessionTypeOK, Idle
  <2>4. Streaming(v) /\ Flow(v) /\ Phase(v) /\ main[v] \in {"reading", "joining"}
    BY <1>0, <2>2 DEF Sound, Streaming, Phase
  <2>5. sub[v] \in Subscriber
    BY <1>0 DEF SubsInv, QueueInv, Viewers
  <2>6. Carries(sub[v], Position(v), StreamEnd(v)) /\ Unbroken(seen[v])
    BY <2>2, <2>4 DEF Flow, Reached
  <2>7. /\ Head(sub[v].ch).lo = Position(v) /\ Head(sub[v].ch).lo < Head(sub[v].ch).hi
        /\ Carries(sub'[v], Head(sub[v].ch).hi, StreamEnd(v))
    BY <2>1, <2>2, <2>5, <2>6, TakeCarries
  <2>8. Position(v)' = Position(v) /\ StreamEnd(v)' = StreamEnd(v)
    BY <2>1, <2>2 DEF Position, StreamEnd
  <2>9. Flow(v)'
    BY <2>2, <2>6, <2>7, <2>8 DEF Flow, Reached
  <2> QED
    BY <1>c, <2>1, <2>2, <2>3, <2>4, <2>9 DEF Sound, Phase, Whole
<1>7. ASSUME NEW v \in Viewers, Deliver(v) PROVE StreamInv'
  <2>1. hand[v].lo \in Nat /\ hand[v].hi \in Nat /\ hand[v].hi - hand[v].lo \in Nat
        /\ seen[v] \in Seq(Nat)
    BY <1>0 DEF SessionTypeOK, Chunk
  <2>2. OpenInv' /\ \A u \in Viewers : Steady(u)
    BY <1>0, <1>7, <2>1, ConsumedSteady DEF Deliver
  <2>3. \A u \in Viewers \ {v} : Idle(u)
    BY <1>0, <1>7 DEF Deliver, SessionTypeOK, Idle, Hung
  <2>4. /\ pump[v] = "holding" /\ conn[v] = "up" /\ main'[v] = main[v]
        /\ seen'[v] = seen[v] \o Bytes(hand[v].lo, hand[v].hi)
        /\ \/ pump'[v] = "done" /\ lagTold'[v] = TRUE
           \/ pump'[v] = "ranging" /\ conn'[v] = "up"
    BY <1>0, <1>7 DEF Deliver, SessionTypeOK
  <2>5. Flow(v) /\ main[v] \in {"reading", "joining"}
    BY <1>0, <2>4 DEF Sound, Streaming, Phase
  <2>6. seen'[v] # <<>> /\ Unbroken(seen'[v]) /\ seen'[v][Len(seen'[v])] + 1 = hand[v].hi
    <3>1. /\ Unbroken(seen[v]) /\ hand[v].lo < hand[v].hi
          /\ seen[v] # <<>> => hand[v].lo = seen[v][Len(seen[v])] + 1
      BY <2>4, <2>5 DEF Flow, Position
    <3>2. LET r == seen[v] \o Bytes(hand[v].lo, hand[v].hi)
          IN  Unbroken(r) /\ r # <<>> /\ r[Len(r)] + 1 = hand[v].hi
      BY ZenonT(60), <2>1, <3>1, SentUnbroken
    <3> QED
      BY <2>4, <3>2
  <2>7. pump'[v] = "ranging" => Flow(v)'
    <3>1. Carries(sub'[v], hand[v].hi, StreamEnd(v)')
      BY <2>1, <2>2, <2>4, <2>5 DEF Flow, Reached, Steady
    <3>2. Position(v)' = hand[v].hi
      BY <2>6 DEF Position
    <3> QED
      BY <2>6, <3>1, <3>2 DEF Flow, Reached
  <2> QED
    BY <1>c, <2>2, <2>3, <2>4, <2>5, <2>7 DEF Sound, Phase, Whole, Streaming
<1>8. ASSUME NEW v \in Viewers, DeliverFails(v) PROVE StreamInv'
  <2>1. OpenInv' /\ \A u \in Viewers : Steady(u)
    BY <1>8, <1>b DEF DeliverFails
  <2>2. \A u \in Viewers \ {v} : Idle(u)
    BY <1>0, <1>8 DEF DeliverFails, SessionTypeOK, Idle
  <2>3. pump[v] = "holding" /\ pump'[v] = "done" /\ conn'[v] = conn[v] /\ main'[v] = main[v]
    BY <1>0, <1>8 DEF DeliverFails, SessionTypeOK
  <2> QED
    BY <1>0, <1>c, <2>1, <2>2, <2>3 DEF Sound, Phase, Whole, Streaming
<1>9. ASSUME NEW v \in Viewers, PumpEnds(v) PROVE StreamInv'
  <2>1. OpenInv' /\ \A u \in Viewers : Steady(u)
    BY <1>9, <1>b DEF PumpEnds
  <2>2. \A u \in Viewers \ {v} : Idle(u)
    BY <1>0, <1>9 DEF PumpEnds, SessionTypeOK, Idle, Hung
  <2>3. /\ pump[v] = "ranging" /\ pump'[v] = "done" /\ main'[v] = main[v]
        /\ seen'[v] = seen[v] /\ sub' = sub /\ sub[v].ch = <<>> /\ ~sub[v].open
    BY <1>0, <1>9 DEF PumpEnds, StreamEnded, SessionTypeOK, bufferVars
  <2>4. Flow(v) /\ main[v] \in {"reading", "joining"}
    BY <1>0, <2>3 DEF Sound, Streaming, Phase
  <2>5. Position(v)' = sub'[v].upTo /\ ~sub'[v].open
    BY <2>3, <2>4 DEF Flow, Reached, Carries, StreamEnd, Position
  <2> QED
    BY <1>c, <2>1, <2>2, <2>3, <2>4, <2>5 DEF Sound, Phase, Whole, Streaming
<1>10. ASSUME NEW v \in Viewers,
              TellRenamed(v) \/ CheckFinished(v) \/ Woken(v) \/ TellFinished(v)
       PROVE  StreamInv'
  BY <1>10, <1>a, <1>b DEF TellRenamed, CheckFinished, Woken, TellFinished, Idle
<1>11. ASSUME NEW v \in Viewers, DetachFinished(v) PROVE StreamInv'
  <2>1. OpenInv' /\ \A u \in Viewers : Steady(u)
    BY <1>0, <1>11, DetachSteady DEF DetachFinished
  <2> QED
    BY <1>11, <1>a, <2>1 DEF DetachFinished, Idle
<1> QED
  BY <1>1, <1>2, <1>3, <1>4, <1>5, <1>6, <1>7, <1>8, <1>9, <1>10, <1>11
  DEF Next, Session, Pump, Watcher


----------------------------------------------------------------------------

\* Everything below follows from this: no step of the service or of a session breaks
\* the inductive invariant.
THEOREM SessionInductive == Spec => []IInv
<1>1. IInv /\ [Next]_vars => IInv'
  <2> SUFFICES ASSUME IInv, [Next]_vars PROVE IInv'
    OBVIOUS
  <2>1. CASE Next
    BY <2>1, ServiceKeepsIInv, SessionKeepsIInv, PumpKeepsIInv, WatcherKeepsIInv DEF Next
  <2>2. CASE UNCHANGED vars
    BY <2>2, BufferKept DEF IInv, vars, SessionTypeOK, serviceVars, sessionVars
  <2> QED
    BY <2>1, <2>2
<1> QED
  BY InitIInv, <1>1, PTL DEF Spec

\* Every variable of the buffer and of the sessions keeps its type; a chunk never ends
\* before it begins.
THEOREM SessionTypeCorrect == Spec => []TypeOK
BY SessionInductive, IInvMeans, PTL

\* The ring holds the newest bytes and nothing else, whatever the sizes of the ring
\* and of the writes (append's wrapping).
THEOREM RingIsTailAlways == Spec => []RingIsTail
BY SessionInductive, IInvMeans, PTL

\* No write is offered to a subscriber whose channel is closed, whichever of the pump,
\* the watcher, the main goroutine and a removal closed it: the send would panic the
\* goroutine that drains the terminal.
THEOREM SendsOnOpenChannelAlways == Spec => []SendsOnOpenChannel
BY SessionInductive, IInvMeans, PTL

\* What a session carries, as strengthened to hold at every step.
THEOREM StreamInductive == Spec => []StreamInv
<1>1. Init => StreamInv
  <2> SUFFICES ASSUME Init PROVE StreamInv
    OBVIOUS
  <2>1. \A v \in Viewers : sub[v] = [Fresh(0) EXCEPT !.open = FALSE] /\ v \notin subs
    BY DEF Init, BufferInit, Viewers
  <2>2. [Fresh(0) EXCEPT !.open = FALSE].open = FALSE
    BY DEF Fresh
  <2>3. \A v \in Viewers : Sound(v)
    BY DEF Init, Sound, Phase, Streaming, Whole, Serving
  <2> QED
    BY <2>1, <2>2, <2>3 DEF StreamInv, OpenInv
<1>2. IInv /\ StreamInv /\ [Next]_vars => StreamInv'
  BY StreamKept
<1> QED
  BY <1>1, <1>2, SessionInductive, PTL DEF Spec

\* What the client was sent, what its pump holds and what is queued for it are one
\* unbroken piece of the stream up to the newest byte, or to where it was cut: the
\* snapshot and the subscription are one step, and nothing is dropped silently.
THEOREM NoGapAlways == Spec => []NoGap
<1>1. StreamInv => NoGap
  BY DEF StreamInv, Sound, Streaming, Flow, Unbroken, Carries, Reached, NoGap
<1> QED
  BY <1>1, StreamInductive, PTL

\* A client whose connection the daemon ended got every byte written before its stream
\* was cut, or was told that output was dropped (pumpOutput, watchForExit).
THEOREM CompleteOrToldAlways == Spec => []CompleteOrTold
<1>1. StreamInv => CompleteOrTold
  BY DEF StreamInv, Sound, Whole, CompleteOrTold
<1> QED
  BY <1>1, StreamInductive, PTL

----------------------------------------------------------------------------
(* The writer of a log (LogSink). *)

\* A queue that holds no byte beyond offset w.
Within(s, w) == s.upTo <= w /\ \A k \in 1..Len(s.ch) : s.ch[k].hi <= w

Bounded == \A i \in Subs : Within(sub[i], written)

BufferHolds == BufferInv /\ OpenInv /\ Bounded

\* What the writer has accounted for ends at offset `at`, or earlier once it was closed
\* between a re-attach and its catch-up.
UpTo(at) == flushed <= at /\ (~late => flushed = at)

\* The subscription i goes on where the snapshot ends.
Resumes(i) == flushed <= snap.hi /\ snap.hi <= written /\ Carries(sub[i], snap.hi, StreamEnd(i))

GoesOn ==
    /\ flushed <= written
    /\ writer = "draining" =>
         \E at \in 0..written : UpTo(at) /\ Carries(sub[cur], at, StreamEnd(cur))
    /\ writer = "writing" =>
         /\ chunk.lo < chunk.hi /\ chunk.hi <= written /\ UpTo(chunk.lo)
         /\ Carries(sub[cur], chunk.hi, StreamEnd(cur))
    /\ writer \in {"lagging", "done"} => ~sub[cur].open /\ UpTo(sub[cur].upTo)
    /\ writer = "attached" => Resumes(next)
    /\ writer \in {"detaching", "catching", "resuming"} => Resumes(cur)

\* Every byte accounted for is in the file or admitted missing.
Adds == Len(disk) + said = flushed

\* The stream of a writer that the buffer knows, and that nobody is closing, is open or
\* has lagged; and once the buffer is closed it has lagged or goes to the end.
Following(i) == sub[i].open \/ sub[i].lagged
ToTheEnd(i) == sub[i].lagged \/ sub[i].upTo = written
Followed ==
    /\ sink /\ ~closed /\ ctl \in {"idle", "resuming"} =>
         /\ ~closing /\ Following(cur)
         /\ writer = "attached" => Following(next)
    /\ sink /\ closed => ToTheEnd(cur) /\ (writer = "attached" => ToTheEnd(next))
    /\ closed => subs = {} /\ ctl \notin {"moving", "resuming"}
    /\ writer = "detaching" => closing

\* Nothing writes a log that is being moved or was deleted, unless a Close gave up waiting.
PutDown ==
    /\ ctl = "moving" => writer = "done"
    /\ ctl = "resuming" <=> writer = "resuming"
    /\ ctl \in {"closing", "detaching", "waiting", "moving", "resuming"} => sink
    /\ ~timedOut /\ (~sink \/ ctl \in {"deleting", "removed"}) => writer = "done"

SinkIInv == SinkTypeOK /\ BufferHolds /\ GoesOn /\ Adds /\ Followed /\ PutDown

----------------------------------------------------------------------------
(* What a step does to the file. *)

\* The file gets the k bytes from lo on, of the bytes `from` to `to` that are accounted
\* for, and the others are admitted missing.
Recorded(from, lo, k, to) ==
    /\ from <= lo /\ lo + k <= to
    /\ disk' = disk \o Bytes(lo, lo + k)
    /\ said' = said + (to - from - k)

\* A file with k more bytes is the same file as far as it went, and the bytes follow.
LEMMA Longer ==
    ASSUME NEW d \in Seq(0..MaxWritten), NEW lo \in Nat, NEW k \in Nat, lo + k <= MaxWritten
    PROVE  LET e == d \o Bytes(lo, lo + k)
           IN  /\ e \in Seq(0..MaxWritten) /\ Len(e) = Len(d) + k
               /\ \A j \in 1..Len(d) : e[j] = d[j]
               /\ \A j \in (Len(d) + 1)..Len(e) : e[j] = lo + (j - Len(d)) - 1
<1> DEFINE S == 0..MaxWritten
           b == [j \in 1..k |-> lo + j - 1]
           e == d \o b
<1>1. lo + k - lo = k /\ MaxWritten \in Nat
  BY BufferAssumption
<1>2. Bytes(lo, lo + k) = b
  BY <1>1 DEF Bytes
<1>3. \A j \in 1..k : lo + j - 1 \in S
  BY <1>1
<1> HIDE DEF S
<1>4. b \in Seq(S) /\ Len(b) = k /\ \A j \in 1..k : b[j] = lo + j - 1
  BY <1>3
<1>5. d \in Seq(S) /\ Len(d) \in Nat
  BY DEF S
<1> HIDE DEF b, e
<1>6. /\ e \in Seq(S) /\ Len(e) = Len(d) + Len(b)
      /\ \A j \in 1..(Len(d) + Len(b)) : e[j] = IF j <= Len(d) THEN d[j] ELSE b[j - Len(d)]
  BY <1>4, <1>5, ConcatProperties DEF e
<1>7. \A j \in 1..Len(d) : e[j] = d[j]
  BY <1>4, <1>5, <1>6
<1>8. ASSUME NEW j \in (Len(d) + 1)..Len(e) PROVE e[j] = lo + (j - Len(d)) - 1
  <2>1. j \in 1..(Len(d) + Len(b)) /\ ~(j <= Len(d)) /\ j - Len(d) \in 1..k
    BY <1>4, <1>5, <1>6
  <2> QED
    BY <1>4, <1>6, <2>1
<1> QED
  BY <1>2, <1>4, <1>6, <1>7, <1>8 DEF S, e

\* What is recorded is accounted for in full.
LEMMA RecordedAdds ==
    ASSUME disk \in Seq(0..MaxWritten), said \in Nat,
           NEW from \in Nat, NEW lo \in Nat, NEW k \in Nat, NEW to \in Nat,
           to <= MaxWritten, Recorded(from, lo, k, to)
    PROVE  /\ disk' \in Seq(0..MaxWritten) /\ said' \in Nat
           /\ Len(disk') + said' = Len(disk) + said + (to - from)
<1>1. lo + k <= MaxWritten /\ MaxWritten \in Nat
  BY BufferAssumption DEF Recorded
<1>2. disk' \in Seq(0..MaxWritten) /\ Len(disk') = Len(disk) + k
  <2>1. disk' = disk \o Bytes(lo, lo + k)
    BY DEF Recorded
  <2> QED
    BY <1>1, <2>1, Longer
<1>3. Len(disk) \in Nat
  OBVIOUS
<1> QED
  BY <1>2, <1>3 DEF Recorded

\* And when it goes on where the log had got to, the transcript advances.
LEMMA RecordedAdvances ==
    ASSUME disk \in Seq(0..MaxWritten), said \in Nat, flushed \in Nat,
           NEW lo \in Nat, NEW k \in Nat, NEW to \in Nat, flushed < to,
           to <= MaxWritten, Recorded(flushed, lo, k, to), flushed' = to
    PROVE  Log!Advance
<1>1. lo + k <= MaxWritten /\ lo + k <= to /\ flushed <= lo /\ MaxWritten \in Nat
  BY BufferAssumption DEF Recorded
<1>2. /\ Len(disk') = Len(disk) + k
      /\ \A j \in 1..Len(disk) : disk'[j] = disk[j]
      /\ \A j \in (Len(disk) + 1)..Len(disk') : disk'[j] = lo + (j - Len(disk)) - 1
  <2>1. disk' = disk \o Bytes(lo, lo + k)
    BY DEF Recorded
  <2> QED
    <3> DEFINE e == disk \o Bytes(lo, lo + k)
    <3>1. /\ Len(e) = Len(disk) + k
          /\ \A j \in 1..Len(disk) : e[j] = disk[j]
          /\ \A j \in (Len(disk) + 1)..Len(e) : e[j] = lo + (j - Len(disk)) - 1
      BY ZenonT(60), <1>1, Longer
    <3>2. disk' = e
      BY <2>1
    <3> HIDE DEF e
    <3> QED
      BY <3>1, <3>2
<1>3. Len(disk) \in Nat
  OBVIOUS
<1>4. ASSUME NEW j \in (Len(disk) + 1)..Len(disk')
      PROVE  /\ disk'[j] \in flushed..(flushed' - 1)
             /\ j > Len(disk) + 1 => disk'[j-1] < disk'[j]
  <2>1. disk'[j] = lo + (j - Len(disk)) - 1 /\ j \in Nat /\ j <= Len(disk) + k /\ j > Len(disk)
    BY <1>2, <1>3
  <2>2. disk'[j] \in flushed..(flushed' - 1)
    BY <1>1, <1>3, <2>1
  <2>3. ASSUME j > Len(disk) + 1 PROVE disk'[j-1] < disk'[j]
    <3>1. j - 1 \in (Len(disk) + 1)..Len(disk')
      BY <1>3, <2>3
    <3>2. disk'[j-1] = lo + ((j - 1) - Len(disk)) - 1
      BY <1>2, <3>1
    <3> QED
      BY <1>3, <2>1, <3>2
  <2> QED
    BY <2>2, <2>3
<1>5. flushed' > flushed /\ Len(disk') >= Len(disk)
  BY <1>2, <1>3
<1>6. said' - said = (flushed' - flushed) - (Len(disk') - Len(disk))
  <2>1. said' = said + (to - flushed - k)
    BY DEF Recorded
  <2> QED
    BY <1>2, <1>3, <2>1
<1> QED
  BY <1>2, <1>4, <1>5, <1>6 DEF Log!Advance

\* A chunk written is recorded.
LEMMA ChunkRecorded ==
    ASSUME chunk \in Chunk, NEW k \in 0..(chunk.hi - chunk.lo), EmitChunk(k)
    PROVE  k \in Nat /\ Recorded(chunk.lo, chunk.lo, k, chunk.hi)
<1>1. chunk.lo \in Nat /\ chunk.hi \in Nat /\ chunk.lo <= chunk.hi
  BY DEF Chunk
<1>2. k \in Nat /\ k <= chunk.hi - chunk.lo
  BY <1>1
<1> QED
  BY <1>1, <1>2 DEF EmitChunk, Emit, Recorded

\* Catching up with a snapshot that goes beyond the log records what it has of it, and
\* leaves the log at the snapshot's end.
LEMMA CatchUpRecords ==
    ASSUME snap \in Chunk, flushed \in Nat, flushed <= snap.hi, NEW k \in 0..Fresher, CatchUp(k)
    PROVE  /\ flushed' = snap.hi
           /\ flushed = snap.hi => UNCHANGED <<disk, said>>
           /\ flushed < snap.hi =>
                k \in Nat /\ \E lo \in Nat : Recorded(flushed, lo, k, snap.hi)
<1>1. snap.lo \in Nat /\ snap.hi \in Nat /\ snap.lo <= snap.hi
  BY DEF Chunk
<1>2. CASE flushed = snap.hi
  BY <1>1, <1>2 DEF CatchUp
<1>3. CASE flushed < snap.hi /\ flushed >= snap.lo
  <2>1. Fresher = snap.hi - flushed /\ Fresher \in Nat
    BY <1>1, <1>3 DEF Fresher
  <2>2. k \in Nat /\ k <= snap.hi - flushed
    BY <2>1
  <2>3. flushed' = snap.hi /\ Emit(flushed, snap.hi, k)
    BY <1>1, <1>3 DEF CatchUp
  <2>4. Recorded(flushed, flushed, k, snap.hi)
    BY <1>1, <2>2, <2>3 DEF Emit, Recorded
  <2> QED
    BY <1>3, <2>2, <2>3, <2>4
<1>4. CASE flushed < snap.lo
  <2>1. Fresher = snap.hi - snap.lo /\ Fresher \in Nat
    BY <1>1, <1>4 DEF Fresher
  <2>2. k \in Nat /\ k <= snap.hi - snap.lo
    BY <2>1
  <2>3. /\ flushed' = snap.hi /\ disk' = disk \o Bytes(snap.lo, snap.lo + k)
        /\ said' = said + (snap.hi - flushed - k)
    BY <1>1, <1>4 DEF CatchUp
  <2>4. Recorded(flushed, snap.lo, k, snap.hi)
    BY <1>1, <1>4, <2>2, <2>3 DEF Recorded
  <2> QED
    BY <1>1, <1>4, <2>2, <2>3, <2>4
<1> QED
  BY <1>1, <1>2, <1>3, <1>4

----------------------------------------------------------------------------
(* What a step does to the queues. *)

\* Nothing written is beyond a later end of the stream, and appending up to that end
\* or taking a chunk out goes no further.
LEMMA StaysWithin ==
    ASSUME NEW s \in Subscriber, NEW w \in Nat, Within(s, w)
    PROVE  /\ \A x \in Nat : w <= x => Within(s, x)
           /\ \A x \in Nat : w <= x =>
                \A t \in Subscriber : t.upTo = s.upTo /\ t.ch = Append(s.ch, [lo |-> w, hi |-> x])
                     => Within(t, x)
           /\ \A t \in Subscriber : t.upTo = s.upTo /\ s.ch # <<>> /\ t.ch = Tail(s.ch)
                     => Within(t, w)
<1>0. s.ch \in Seq(Chunk) /\ s.upTo \in Nat
  BY DEF Subscriber
<1>1. \A k \in 1..Len(s.ch) : s.ch[k].hi \in Nat /\ s.ch[k].hi <= w
  <2>1. \A k \in 1..Len(s.ch) : s.ch[k] \in Chunk
    BY <1>0
  <2> QED
    BY <2>1 DEF Within, Chunk
<1>2. \A x \in Nat : w <= x => Within(s, x)
  BY <1>0, <1>1 DEF Within
<1>3. ASSUME NEW x \in Nat, w <= x, NEW t \in Subscriber, t.upTo = s.upTo,
             t.ch = Append(s.ch, [lo |-> w, hi |-> x])
      PROVE  Within(t, x)
  <2> DEFINE c == [lo |-> w, hi |-> x]
  <2>1. c \in Chunk /\ c.hi = x
    BY <1>3 DEF Chunk
  <2> HIDE DEF c
  <2>2. /\ Len(t.ch) = Len(s.ch) + 1 /\ t.ch[Len(s.ch) + 1] = c
        /\ \A k \in 1..Len(s.ch) : t.ch[k] = s.ch[k]
    BY <1>0, <1>3, <2>1 DEF c
  <2>3. Len(s.ch) \in Nat /\ s.upTo <= x
    BY <1>0, <1>3 DEF Within
  <2>4. ASSUME NEW k \in 1..Len(t.ch) PROVE t.ch[k].hi <= x
    <3>1. k = Len(s.ch) + 1 \/ k \in 1..Len(s.ch)
      BY <2>2, <2>3
    <3> QED
      BY <1>1, <1>3, <2>1, <2>2, <3>1
  <2> QED
    BY <1>3, <2>3, <2>4 DEF Within
<1>4. ASSUME NEW t \in Subscriber, t.upTo = s.upTo, s.ch # <<>>, t.ch = Tail(s.ch)
      PROVE  Within(t, w)
  <2>1. /\ Len(Tail(s.ch)) = Len(s.ch) - 1
        /\ \A k \in 1..Len(Tail(s.ch)) : Tail(s.ch)[k] = s.ch[k+1]
    BY <1>0, <1>4, HeadTailProperties
  <2>2. Len(s.ch) \in Nat
    BY <1>0
  <2>3. ASSUME NEW k \in 1..Len(t.ch) PROVE t.ch[k].hi <= w
    <3>1. k+1 \in 1..Len(s.ch) /\ t.ch[k] = s.ch[k+1]
      BY <1>4, <2>1, <2>2
    <3> QED
      BY <1>1, <3>1
  <2> QED
    BY <1>4, <2>3 DEF Within
<1> QED
  BY <1>2, <1>3, <1>4

\* What the buffer knows of a stream.
LEMMA Streams ==
    ASSUME BufferHolds
    PROVE  /\ BufferInv /\ SubsInv /\ OpenInv /\ Bounded /\ written \in Nat /\ size \in Nat
           /\ size <= written /\ written <= MaxWritten /\ subs \subseteq Subs
           /\ \A i \in Subs : sub[i] \in Subscriber /\ sub[i].upTo \in Nat
                              /\ StreamEnd(i) \in 0..written
<1>1. BufferInv /\ SubsInv /\ OpenInv /\ Bounded /\ written \in Nat /\ size \in Nat
      /\ size <= written /\ written <= MaxWritten /\ subs \subseteq Subs
  BY BufferAssumption DEF BufferHolds, BufferInv, RingInv, SubsInv, QueueInv
<1>2. \A i \in Subs : sub[i] \in Subscriber /\ sub[i].upTo \in Nat /\ sub[i].upTo <= written
  BY <1>1 DEF SubsInv, QueueInv, Subscriber, Bounded, Within
<1>3. \A i \in Subs : StreamEnd(i) \in 0..written
  BY <1>1, <1>2 DEF StreamEnd
<1> QED
  BY <1>1, <1>2, <1>3

\* A write: nobody who follows the stream stops following it untold.
LEMMA WriteHolds ==
    ASSUME BufferHolds, NEW n \in 1..MaxChunk, Write(n)
    PROVE  /\ BufferHolds' /\ \A v \in Subs : Steady(v)
           /\ \A v \in Subs : Following(v) => Following(v)'
<1>1. n \in Nat \ {0}
  BY BufferAssumption
<1>2. BufferInv'
  BY OperationsKeepBuffer, Streams
<1>3. OpenInv' /\ \A v \in Subs : Steady(v)
  BY <1>1, WriteSteady, Streams
<1>4. ASSUME NEW v \in Subs
      PROVE  Within(sub'[v], written') /\ (Following(v) => Following(v)')
  <2>1. /\ sub[v] \in Subscriber /\ sub'[v] \in Subscriber /\ written \in Nat
        /\ written' = written + n /\ Within(sub[v], written)
        /\ (sub[v].open <=> v \in subs) /\ (v \in subs => ~sub[v].lagged)
    BY <1>2, Streams DEF BufferInv, SubsInv, QueueInv, Write, Bounded, OpenInv, SendsOnOpenChannel
  <2>2. CASE v \notin subs
    <3>1. sub'[v] = sub[v]
      BY <2>1, <2>2 DEF Write
    <3> QED
      BY <1>1, <2>1, <3>1, StaysWithin DEF Following
  <2>3. CASE v \in subs /\ Full(sub[v], written, written + n)
    <3>1. sub'[v] = Offer(sub[v], written, written + n)
      BY <2>1, <2>3 DEF Write
    <3>2. sub[v] \in Subscriber /\ sub[v].lagged = FALSE
      BY <2>1, <2>3
    <3>3. LET t == Offer(sub[v], written, written + n)
          IN  t.from = sub[v].from /\ t.ch = sub[v].ch /\ t.open = FALSE /\ t.upTo = written
              /\ t.lagged = TRUE
      BY <2>3, <3>2, OfferCuts
    <3>4. sub'[v].ch = sub[v].ch /\ sub'[v].upTo = written /\ sub'[v].lagged = TRUE
      BY <3>1, <3>3
    <3>5. Within(sub[v], written')
      BY <1>1, <2>1, StaysWithin
    <3> QED
      BY <1>1, <2>1, <3>4, <3>5 DEF Within, Following
  <2>4. CASE v \in subs /\ ~Full(sub[v], written, written + n)
    <3>1. sub'[v] = Offer(sub[v], written, written + n)
      BY <2>1, <2>4 DEF Write
    <3>2. sub[v] \in Subscriber /\ sub[v].lagged = FALSE
      BY <2>1, <2>4
    <3>3. LET t == Offer(sub[v], written, written + n)
          IN  t.from = sub[v].from /\ t.open = sub[v].open /\ t.lagged = sub[v].lagged
              /\ t.upTo = sub[v].upTo
              /\ t.ch = Append(sub[v].ch, [lo |-> written, hi |-> written + n])
      BY ZenonT(60), <2>4, <3>2, OfferFits
    <3>4. sub'[v].open = sub[v].open /\ sub'[v].upTo = sub[v].upTo
          /\ sub'[v].ch = Append(sub[v].ch, [lo |-> written, hi |-> written + n])
      BY <3>1, <3>3
    <3>5. written + n \in Nat /\ written <= written + n
      BY <1>1, <2>1
    <3>6. Within(sub'[v], written + n)
      BY <2>1, <3>4, <3>5, StaysWithin
    <3> QED
      BY <2>1, <2>4, <3>4, <3>6 DEF Following
  <2> QED
    BY <2>2, <2>3, <2>4
<1> QED
  BY <1>2, <1>3, <1>4 DEF BufferHolds, Bounded

\* Detaching changes nobody else's stream, and nobody's once the buffer is closed.
LEMMA DetachHolds ==
    ASSUME BufferHolds, NEW i \in Subs, Detach(i)
    PROVE  /\ BufferHolds' /\ \A v \in Subs : Steady(v)
           /\ written' = written /\ closed' = closed
           /\ subs = {} => sub' = sub /\ subs' = {}
<1>1. BufferInv'
  BY OperationsKeepBuffer, Streams
<1>2. OpenInv' /\ \A v \in Subs : Steady(v)
  BY DetachSteady, Streams
<1>3. written' = written /\ closed' = closed /\ (subs = {} => sub' = sub /\ subs' = {})
  BY DEF Detach, ringVars
<1>4. ASSUME NEW v \in Subs PROVE Within(sub'[v], written')
  <2>1. sub[v] \in Subscriber /\ written \in Nat /\ Within(sub[v], written)
    BY Streams DEF Bounded
  <2>2. sub'[v] = sub[v] \/ sub'[v] = Close(sub[v])
    BY Streams DEF Detach, SubsInv, QueueInv
  <2>3. Close(sub[v]).ch = sub[v].ch /\ Close(sub[v]).upTo = written
    BY <2>1 DEF Close, Subscriber
  <2> QED
    BY <1>3, <2>1, <2>2, <2>3 DEF Within
<1> QED
  BY <1>1, <1>2, <1>3, <1>4 DEF BufferHolds, Bounded

\* When the buffer is closed, the streams that were not cut before go to the end.
LEMMA CloseHolds ==
    ASSUME BufferHolds, CloseBuffer
    PROVE  /\ BufferHolds' /\ \A v \in Subs : Steady(v)
           /\ written' = written /\ closed' = TRUE /\ subs' = {}
           /\ \A v \in Subs : Following(v) => ToTheEnd(v)'
<1>1. BufferInv'
  BY OperationsKeepBuffer, Streams
<1>2. OpenInv' /\ \A v \in Subs : Steady(v)
  BY CloseSteady, Streams
<1>3. written' = written /\ closed' = TRUE /\ subs' = {}
  BY DEF CloseBuffer, ringVars
<1>4. ASSUME NEW v \in Subs PROVE Within(sub'[v], written') /\ (Following(v) => ToTheEnd(v)')
  <2>1. sub[v] \in Subscriber /\ written \in Nat /\ Within(sub[v], written)
        /\ (sub[v].open <=> v \in subs)
    BY Streams DEF Bounded, OpenInv
  <2>2. sub'[v] = IF v \in subs THEN Close(sub[v]) ELSE sub[v]
    BY DEF CloseBuffer
  <2>3. Close(sub[v]).ch = sub[v].ch /\ Close(sub[v]).upTo = written
    BY <2>1 DEF Close, Subscriber
  <2> QED
    BY <1>3, <2>1, <2>2, <2>3 DEF Within, Following, ToTheEnd
<1> QED
  BY <1>1, <1>2, <1>3, <1>4 DEF BufferHolds, Bounded

\* A subscription made anew goes on from the newest byte.
LEMMA AttachHolds ==
    ASSUME BufferHolds, NEW i \in Subs, Attach(i)
    PROVE  /\ BufferHolds' /\ \A v \in Subs \ {i} : sub'[v] = sub[v]
           /\ written' = written /\ closed' = closed /\ ~closed
           /\ sub'[i].open /\ Carries(sub'[i], written, written)
<1>1. BufferInv'
  BY OperationsKeepBuffer, Streams
<1>2. OpenInv' /\ sub'[i] = Fresh(written) /\ written' = written
  BY AttachSteady, Streams
<1>3. closed' = closed /\ ~closed /\ \A v \in Subs \ {i} : sub'[v] = sub[v]
  BY Streams DEF Attach, SubsInv, QueueInv
<1>4. Within(Fresh(written), written) /\ Fresh(written).open
  <2>1. Fresh(written).ch = <<>> /\ Fresh(written).upTo = written /\ Len(<<>>) = 0
        /\ Fresh(written).open
    BY DEF Fresh
  <2> QED
    BY <2>1, Streams DEF Within
<1>5. Bounded'
  BY <1>2, <1>3, <1>4, Streams DEF Bounded
<1> QED
  BY <1>1, <1>2, <1>3, <1>4, <1>5, FreshCarries, Streams DEF BufferHolds

\* Receiving the next chunk takes the stream on past it.
LEMMA TakeHolds ==
    ASSUME BufferHolds, NEW i \in Subs, Take(i)
    PROVE  /\ BufferHolds' /\ \A v \in Subs \ {i} : sub'[v] = sub[v]
           /\ written' = written /\ closed' = closed /\ subs' = subs
           /\ sub'[i].open = sub[i].open /\ sub'[i].upTo = sub[i].upTo
           /\ sub'[i].lagged = sub[i].lagged
           /\ Head(sub[i].ch) \in Chunk /\ Head(sub[i].ch).hi <= written
           /\ \A at \in Nat, end \in Nat : Carries(sub[i], at, end) =>
                /\ Head(sub[i].ch).lo = at /\ Head(sub[i].ch).lo < Head(sub[i].ch).hi
                /\ Carries(sub'[i], Head(sub[i].ch).hi, end)
<1>1. BufferInv'
  BY OperationsKeepBuffer, Streams
<1>2. /\ OpenInv' /\ sub'[i].open = sub[i].open
      /\ sub'[i].upTo = sub[i].upTo /\ sub'[i].ch = Tail(sub[i].ch)
  BY TakeSteady, Streams
<1>3. closed' = closed /\ written' = written /\ subs' = subs /\ sub[i].ch # <<>>
      /\ \A v \in Subs \ {i} : sub'[v] = sub[v]
  BY Streams DEF Take, SubsInv, QueueInv, ringVars
<1>4. sub[i] \in Subscriber /\ sub[i].ch \in Seq(Chunk) /\ written \in Nat
  BY Streams DEF Subscriber
<1>5. sub'[i] \in Subscriber /\ sub'[i].lagged = sub[i].lagged
  BY <1>1, <1>4, Streams DEF BufferInv, SubsInv, QueueInv, Take, Subscriber
<1>6. Head(sub[i].ch) \in Chunk /\ Head(sub[i].ch) = sub[i].ch[1] /\ 1 \in 1..Len(sub[i].ch)
  BY <1>3, <1>4
<1>7. Head(sub[i].ch).hi <= written
  BY <1>6, Streams DEF Bounded, Within
<1>8. Bounded'
  <2>1. Within(sub[i], written)
    BY Streams DEF Bounded
  <2>2. Within(sub'[i], written)
    BY <1>2, <1>3, <1>4, <1>5, <2>1, StaysWithin
  <2> QED
    BY <1>3, <2>2, Streams DEF Bounded
<1>9. \A at \in Nat, end \in Nat : Carries(sub[i], at, end) =>
        /\ Head(sub[i].ch).lo = at /\ Head(sub[i].ch).lo < Head(sub[i].ch).hi
        /\ Carries(sub'[i], Head(sub[i].ch).hi, end)
  BY <1>2, <1>3, <1>4, TakeCarries
<1> QED
  BY <1>1, <1>2, <1>3, <1>5, <1>6, <1>7, <1>8, <1>9 DEF BufferHolds

\* Accounting for a chunk changes the count of queued bytes only.
LEMMA ConsumedHolds ==
    ASSUME BufferHolds, NEW i \in Subs, NEW n \in Nat, Consumed(i, n)
    PROVE  /\ BufferHolds' /\ \A v \in Subs : Steady(v)
           /\ written' = written /\ closed' = closed /\ subs' = subs
           /\ \A v \in Subs : sub'[v].open = sub[v].open /\ sub'[v].upTo = sub[v].upTo
                              /\ sub'[v].lagged = sub[v].lagged
<1>1. BufferInv'
  BY OperationsKeepBuffer, Streams
<1>2. OpenInv' /\ \A v \in Subs : Steady(v)
  BY ConsumedSteady, Streams
<1>3. written' = written /\ closed' = closed /\ subs' = subs
  BY DEF Consumed, ringVars
<1>4. \A v \in Subs : sub'[v].open = sub[v].open /\ sub'[v].upTo = sub[v].upTo
                      /\ sub'[v].lagged = sub[v].lagged /\ sub'[v].ch = sub[v].ch
  <2>1. sub[i] \in Subscriber /\ sub \in [Subs -> Subscriber]
    BY Streams DEF SubsInv, QueueInv
  <2> QED
    BY <2>1 DEF Consumed, Subscriber
<1> QED
  BY <1>1, <1>2, <1>3, <1>4, Streams DEF BufferHolds, Bounded, Within

\* A step that leaves the buffer alone.
LEMMA QuietHolds ==
    ASSUME BufferHolds, UNCHANGED bufferVars
    PROVE  /\ BufferHolds' /\ \A v \in Subs : Steady(v)
           /\ written' = written /\ closed' = closed /\ subs' = subs /\ sub' = sub
<1>1. written' = written /\ closed' = closed /\ subs' = subs /\ sub' = sub
  BY DEF bufferVars
<1>2. BufferInv'
  BY BufferKept, Streams
<1>3. \A v \in Subs : Steady(v)
  BY <1>1, SameSteady
<1> QED
  BY <1>1, <1>2, <1>3, Streams DEF BufferHolds, OpenInv, Bounded

\* Its state is of the right type.
LEMMA BufferTypes == (BufferHolds => BufferTypeOK) /\ (BufferHolds' => BufferTypeOK')
BY DEF BufferHolds, BufferInv, RingInv, SubsInv, QueueInv, BufferTypeOK

----------------------------------------------------------------------------
(* What the writer accounts for goes on where it ended. *)

\* A step that leaves the writer where it is, its two subscriptions going on.
LEMMA QuietGoesOn ==
    ASSUME SinkIInv, UNCHANGED <<writer, cur, next, snap, chunk, flushed, late>>,
           BufferHolds', written <= written', \A v \in Subs : Steady(v)
    PROVE  GoesOn'
<1> PICK c \in Subs, d \in Subs : c = cur /\ d = next
  BY DEF SinkIInv, SinkTypeOK
<1> DEFINE ec == StreamEnd(c)
           ed == StreamEnd(d)
<1>1. /\ snap.hi \in Nat /\ chunk.lo \in Nat /\ chunk.hi \in Nat /\ flushed \in Nat
      /\ written \in Nat /\ written' \in Nat /\ GoesOn
  BY Streams DEF SinkIInv, SinkTypeOK, Chunk, BufferHolds, BufferInv
<1>2. /\ cur' = c /\ next' = d
      /\ ~sub[c].open => ~sub'[c].open /\ sub'[c].upTo = sub[c].upTo
      /\ \A at \in Nat : Carries(sub[c], at, ec) => Carries(sub'[c], at, ec')
      /\ \A at \in Nat : Carries(sub[d], at, ed) => Carries(sub'[d], at, ed')
  BY DEF Steady
<1>3. ec' = StreamEnd(cur)' /\ ed' = StreamEnd(next)' /\ ec = StreamEnd(cur)
      /\ ed = StreamEnd(next)
  BY <1>2 DEF StreamEnd
<1> HIDE DEF ec, ed
<1>4. ASSUME writer' = "draining"
      PROVE  \E at \in 0..written' : UpTo(at)' /\ Carries(sub'[cur'], at, StreamEnd(cur)')
  <2>1. PICK at \in 0..written : UpTo(at) /\ Carries(sub[cur], at, StreamEnd(cur))
    BY <1>1, <1>4 DEF GoesOn
  <2>2. at \in 0..written' /\ at \in Nat
    BY <1>1
  <2>3. Carries(sub'[c], at, ec')
    BY <1>2, <1>3, <2>1, <2>2
  <2>4. UpTo(at)'
    BY <2>1 DEF UpTo
  <2>5. Carries(sub'[cur'], at, StreamEnd(cur)')
    BY <1>2, <1>3, <2>3
  <2> QED
    BY <2>2, <2>4, <2>5
<1>5. ASSUME writer' = "writing"
      PROVE  /\ chunk'.lo < chunk'.hi /\ chunk'.hi <= written' /\ UpTo(chunk.lo)'
             /\ Carries(sub'[cur'], chunk'.hi, StreamEnd(cur)')
  <2>1. /\ chunk.lo < chunk.hi /\ chunk.hi <= written /\ UpTo(chunk.lo)
        /\ Carries(sub[c], chunk.hi, ec)
    BY <1>1, <1>3, <1>5 DEF GoesOn
  <2>2. Carries(sub'[cur'], chunk'.hi, StreamEnd(cur)')
    BY <1>1, <1>2, <1>3, <2>1
  <2> QED
    BY <1>1, <2>1, <2>2 DEF UpTo
<1>6. ASSUME writer' \in {"lagging", "done"} PROVE ~sub'[cur'].open /\ UpTo(sub[cur].upTo)'
  BY <1>1, <1>2, <1>6 DEF GoesOn, UpTo
<1>7. ASSUME writer' = "attached" PROVE Resumes(next)'
  BY <1>1, <1>2, <1>3, <1>7 DEF GoesOn, Resumes
<1>8. ASSUME writer' \in {"detaching", "catching", "resuming"} PROVE Resumes(cur)'
  BY <1>1, <1>2, <1>3, <1>8 DEF GoesOn, Resumes
<1>9. flushed' <= written'
  BY <1>1 DEF GoesOn
<1> QED
  BY <1>4, <1>5, <1>6, <1>7, <1>8, <1>9 DEF GoesOn

\* A step that leaves the file, and what else is recorded of the writer, as it was.
LEMMA QuietTypes ==
    ASSUME SinkIInv, BufferHolds',
           UNCHANGED <<writer, cur, next, snap, chunk, fileVars, late>>,
           closing' \in BOOLEAN, sink' \in BOOLEAN, ctlSub' \in Subs, moves' \in 0..MaxMoves,
           timedOut' \in BOOLEAN,
           ctl' \in {"idle", "closing", "detaching", "waiting", "moving", "resuming",
                     "deleting", "removed"}
    PROVE  SinkTypeOK' /\ Adds'
<1>1. BufferTypeOK'
  BY BufferTypes
<1> QED
  BY <1>1 DEF SinkIInv, SinkTypeOK, Adds, fileVars

----------------------------------------------------------------------------
(* Each step keeps the invariant. *)

\* The service writes.
LEMMA OutputKeeps ==
    ASSUME SinkIInv, NEW n \in 1..MaxChunk, ServiceWrites(n)
    PROVE  SinkIInv'
<1>1. /\ BufferHolds' /\ (\A v \in Subs : Steady(v))
      /\ \A v \in Subs : Following(v) => Following(v)'
  BY WriteHolds DEF SinkIInv, ServiceWrites
<1>2. /\ closed' = closed /\ ~closed /\ written' = written + n /\ written <= written'
      /\ UNCHANGED <<writer, cur, next, snap, chunk, fileVars, closing, ctlVars, late>>
  BY Streams DEF ServiceWrites, Write, SinkIInv
<1>3. GoesOn'
  BY <1>1, <1>2, QuietGoesOn DEF fileVars
<1>4. SinkTypeOK' /\ Adds'
  BY <1>1, <1>2, QuietTypes DEF ctlVars, SinkIInv, SinkTypeOK
<1>5. Followed'
  <2> PICK c \in Subs, d \in Subs : c = cur /\ d = next
    BY DEF SinkIInv, SinkTypeOK
  <2>1. (Following(c) => Following(c)') /\ (Following(d) => Following(d)')
    BY <1>1
  <2>2. cur' = c /\ next' = d
    BY <1>2
  <2> QED
    BY <1>2, <2>1, <2>2 DEF SinkIInv, Followed, ctlVars, Following
<1>6. PutDown'
  BY <1>2 DEF SinkIInv, PutDown, ctlVars
<1> QED
  BY <1>1, <1>3, <1>4, <1>5, <1>6 DEF SinkIInv

\* The writer takes the next chunk: it begins where the log has got to.
LEMMA ReceiveKeeps == ASSUME SinkIInv, ReceiveChunk PROVE SinkIInv'
<1> PICK c \in Subs, d \in Subs : c = cur /\ d = next
  BY DEF SinkIInv, SinkTypeOK
<1>1. /\ BufferHolds' /\ (\A v \in Subs \ {c} : sub'[v] = sub[v])
      /\ written' = written /\ closed' = closed /\ subs' = subs
      /\ sub'[c].open = sub[c].open /\ sub'[c].upTo = sub[c].upTo
      /\ sub'[c].lagged = sub[c].lagged
      /\ chunk' \in Chunk /\ chunk'.hi <= written
      /\ \A at \in Nat, end \in Nat : Carries(sub[c], at, end) =>
           /\ chunk'.lo = at /\ chunk'.lo < chunk'.hi /\ Carries(sub'[c], chunk'.hi, end)
  BY TakeHolds DEF SinkIInv, ReceiveChunk
<1>2. /\ writer = "draining" /\ writer' = "writing" /\ cur' = c /\ next' = d
      /\ UNCHANGED <<snap, fileVars, closing, ctlVars, late>>
  BY DEF ReceiveChunk
<1>3. written \in Nat /\ StreamEnd(c) \in Nat /\ BufferTypeOK'
  BY <1>1, Streams, BufferTypes DEF SinkIInv
<1>4. GoesOn'
  <2>1. PICK at \in 0..written : UpTo(at) /\ Carries(sub[c], at, StreamEnd(c))
    BY <1>2 DEF SinkIInv, GoesOn
  <2>2. /\ chunk'.lo = at /\ chunk'.lo < chunk'.hi /\ Carries(sub'[c], chunk'.hi, StreamEnd(c))
    BY <1>1, <1>3, <2>1
  <2>3. StreamEnd(cur)' = StreamEnd(c)
    BY <1>1, <1>2 DEF StreamEnd
  <2> QED
    BY <1>1, <1>2, <2>1, <2>2, <2>3 DEF SinkIInv, GoesOn, UpTo, fileVars
<1>5. SinkTypeOK' /\ Adds'
  BY <1>1, <1>2, <1>3 DEF SinkIInv, SinkTypeOK, Adds, fileVars, ctlVars
<1>6. Followed'
  <2>1. sub'[d].open = sub[d].open /\ sub'[d].upTo = sub[d].upTo /\ sub'[d].lagged = sub[d].lagged
    BY <1>1
  <2> QED
    BY <1>1, <1>2, <2>1 DEF SinkIInv, Followed, Following, ToTheEnd, ctlVars
<1>7. PutDown'
  BY <1>2 DEF SinkIInv, PutDown, ctlVars
<1> QED
  BY <1>1, <1>4, <1>5, <1>6, <1>7 DEF SinkIInv

\* The chunk in its hand is accounted for, however much of it the disk took.
LEMMA WriteChunkKeeps == ASSUME SinkIInv, WriteChunk PROVE SinkIInv'
<1> PICK c \in Subs, d \in Subs : c = cur /\ d = next
  BY DEF SinkIInv, SinkTypeOK
<1>0. /\ writer = "writing" /\ chunk \in Chunk /\ chunk.lo \in Nat /\ chunk.hi \in Nat
      /\ chunk.lo < chunk.hi /\ chunk.hi <= written /\ UpTo(chunk.lo) /\ flushed \in Nat
      /\ said \in Nat /\ disk \in Seq(0..MaxWritten) /\ chunk.hi - chunk.lo \in Nat
      /\ Len(disk) + said = flushed /\ written <= MaxWritten /\ written \in Nat
      /\ MaxWritten \in Nat
  BY Streams, BufferAssumption DEF SinkIInv, SinkTypeOK, Chunk, WriteChunk, GoesOn, Adds
<1>1. /\ BufferHolds' /\ Steady(c)
      /\ written' = written /\ closed' = closed /\ subs' = subs
      /\ \A v \in Subs : sub'[v].open = sub[v].open /\ sub'[v].upTo = sub[v].upTo
                         /\ sub'[v].lagged = sub[v].lagged
  BY <1>0, ConsumedHolds DEF SinkIInv, WriteChunk
<1>2. /\ writer' = "draining" /\ cur' = c /\ next' = d /\ chunk' = Nothing
      /\ UNCHANGED <<snap, closing, ctlVars, late>>
  BY DEF WriteChunk
<1>3. PICK k \in 0..(chunk.hi - chunk.lo) : EmitChunk(k)
  BY DEF WriteChunk
<1>4. flushed' = flushed + (chunk.hi - chunk.lo)
  BY <1>3 DEF EmitChunk
<1>5. /\ disk' \in Seq(0..MaxWritten) /\ said' \in Nat
      /\ Len(disk') + said' = Len(disk) + said + (chunk.hi - chunk.lo)
  <2>1. k \in Nat /\ Recorded(chunk.lo, chunk.lo, k, chunk.hi)
    BY <1>0, <1>3, ChunkRecorded
  <2>2. chunk.hi <= MaxWritten
    BY <1>0
  <2> QED
    BY <1>0, <2>1, <2>2, RecordedAdds
<1>h. PICK h \in Nat, l \in Nat : h = chunk.hi /\ l = chunk.lo /\ l < h
  BY <1>0
<1>6. flushed' \in Nat /\ flushed' <= h /\ (~late' => flushed' = h) /\ Len(disk') \in Nat
  <2>1. flushed \in Nat /\ flushed <= l /\ (~late => flushed = l) /\ flushed' = flushed + (h - l)
    BY <1>0, <1>4, <1>h DEF UpTo
  <2>2. flushed' \in Nat /\ flushed' <= h
    BY <1>h, <2>1
  <2>3. ASSUME ~late PROVE flushed' = h
    BY <1>h, <2>1, <2>3
  <2> QED
    BY <1>2, <1>5, <2>2, <2>3
<1>7. GoesOn'
  <2>1. Carries(sub'[c], h, StreamEnd(c)')
    BY <1>0, <1>1, <1>h DEF SinkIInv, GoesOn, Steady
  <2>2. StreamEnd(cur)' = StreamEnd(c)'
    BY <1>2 DEF StreamEnd
  <2>3. h \in 0..written' /\ flushed' <= written'
    BY <1>0, <1>1, <1>6, <1>h
  <2>4. UpTo(h)'
    BY <1>6 DEF UpTo
  <2>5. Carries(sub'[cur'], h, StreamEnd(cur)')
    BY <1>2, <2>1, <2>2
  <2> QED
    BY <1>2, <2>3, <2>4, <2>5 DEF GoesOn
<1>8. SinkTypeOK' /\ Adds'
  <2>1. BufferTypeOK'
    BY <1>1, BufferTypes
  <2>2. Adds'
    BY <1>0, <1>4, <1>5 DEF Adds
  <2>3. Nothing \in Chunk
    BY DEF Nothing, Chunk
  <2>4. flushed' \in 0..MaxWritten /\ said' \in 0..MaxWritten
    <3>1. Len(disk') + said' = flushed' /\ h <= MaxWritten /\ MaxWritten \in Nat
      BY <1>0, <1>h, <2>2 DEF Adds
    <3> QED
      BY <1>5, <1>6, <1>h, <3>1
  <2> QED
    BY <1>2, <1>5, <2>1, <2>2, <2>3, <2>4 DEF SinkIInv, SinkTypeOK, ctlVars
<1>9. Followed' /\ PutDown'
  <2>1. Followed'
    BY <1>0, <1>1, <1>2 DEF SinkIInv, Followed, Following, ToTheEnd, ctlVars
  <2>2. PutDown'
    BY <1>0, <1>2 DEF SinkIInv, PutDown, ctlVars
  <2> QED
    BY <2>1, <2>2
<1> QED
  BY <1>1, <1>7, <1>8, <1>9 DEF SinkIInv

\* The stream that has ended did so where the log has got to.
LEMMA StreamEndsKeeps == ASSUME SinkIInv, StreamEnds PROVE SinkIInv'
<1>1. /\ BufferHolds' /\ UNCHANGED bufferVars /\ writer = "draining"
      /\ writer' \in {"done", "lagging"} /\ sub[cur].ch = <<>> /\ ~sub[cur].open
      /\ UNCHANGED <<cur, next, snap, chunk, fileVars, closing, ctlVars, late>>
  BY QuietHolds DEF SinkIInv, StreamEnds, StreamEnded
<1>2. written' = written /\ closed' = closed /\ subs' = subs /\ sub' = sub
  BY <1>1 DEF bufferVars
<1>3. GoesOn'
  <2>1. PICK at \in 0..written : UpTo(at) /\ Carries(sub[cur], at, StreamEnd(cur))
    BY <1>1 DEF SinkIInv, GoesOn
  <2>2. at = sub[cur].upTo
    BY <1>1, <2>1 DEF Carries, StreamEnd
  <2> QED
    BY <1>1, <1>2, <2>1, <2>2 DEF SinkIInv, GoesOn, UpTo, fileVars
<1>4. SinkTypeOK' /\ Adds'
  BY <1>1, BufferTypes DEF SinkIInv, SinkTypeOK, Adds, fileVars, ctlVars
<1>5. Followed' /\ PutDown'
  <2>1. Followed'
    BY <1>1, <1>2 DEF SinkIInv, Followed, Following, ToTheEnd, ctlVars
  <2>2. PutDown'
    BY <1>1 DEF SinkIInv, PutDown, ctlVars
  <2> QED
    BY <2>1, <2>2
<1> QED
  BY <1>1, <1>3, <1>4, <1>5 DEF SinkIInv

\* Attaching again, the writer has a snapshot that ends where its new stream begins; it
\* has accounted for no more than that.
LEMMA ReattachKeeps == ASSUME SinkIInv, Reattach PROVE SinkIInv'
<1> PICK c \in Subs, d \in Subs : c = cur /\ d = next
  BY DEF SinkIInv, SinkTypeOK
<1>0. /\ writer = "lagging" /\ ~sub[c].open /\ UpTo(sub[c].upTo) /\ flushed <= written
      /\ written \in Nat /\ size \in Nat /\ size <= written /\ flushed \in Nat
  BY Streams DEF SinkIInv, Reattach, GoesOn, SinkTypeOK
<1>1. UNCHANGED <<cur, chunk, fileVars, closing, ctlVars, late>>
  BY DEF Reattach
<1>2. CASE closed
  <2>1. UNCHANGED <<bufferVars, next, snap>> /\ writer' = "done"
    BY <1>2 DEF Reattach
  <2>2. BufferHolds' /\ BufferTypeOK' /\ closed' = closed /\ subs' = subs /\ sub' = sub
        /\ written' = written
    BY <2>1, QuietHolds, BufferTypes DEF SinkIInv
  <2>3. GoesOn'
    BY <1>0, <1>1, <2>1, <2>2 DEF GoesOn, UpTo, fileVars
  <2>4. SinkTypeOK' /\ Adds'
    BY <1>1, <2>1, <2>2 DEF SinkIInv, SinkTypeOK, Adds, fileVars, ctlVars
  <2>5. Followed'
    BY <1>0, <1>1, <2>1, <2>2 DEF SinkIInv, Followed, Following, ToTheEnd, ctlVars
  <2>6. PutDown'
    BY <1>0, <1>1, <2>1 DEF SinkIInv, PutDown, ctlVars
  <2> QED
    BY <2>2, <2>3, <2>4, <2>5, <2>6 DEF SinkIInv
<1>3. CASE ~closed
  <2>1. PICK i \in Subs \ {c} : Attach(i) /\ next' = i
    BY <1>3 DEF Reattach
  <2>2. snap' = RingInterval /\ writer' = "attached"
    BY <1>3 DEF Reattach
  <2>3. /\ BufferHolds' /\ sub'[c] = sub[c] /\ written' = written /\ closed' = closed
        /\ sub'[i].open /\ Carries(sub'[i], written, written) /\ BufferTypeOK'
    BY <2>1, AttachHolds, BufferTypes DEF SinkIInv
  <2>4. snap' \in Chunk /\ snap'.hi = written
    BY <1>0, <2>2 DEF RingInterval, Chunk
  <2>5. GoesOn'
    <3>1. StreamEnd(next)' = written
      BY <2>1, <2>3 DEF StreamEnd
    <3> QED
      BY <1>0, <1>1, <2>1, <2>2, <2>3, <2>4, <3>1 DEF GoesOn, Resumes, fileVars
  <2>6. SinkTypeOK' /\ Adds'
    BY <1>1, <2>1, <2>2, <2>3, <2>4 DEF SinkIInv, SinkTypeOK, Adds, fileVars, ctlVars
  <2>7. Followed'
    <3>1. (Following(c) => Following(c)') /\ Following(i)'
      BY <2>3 DEF Following
    <3>2. cur' = c /\ next' = i
      BY <1>1, <2>1
    <3> QED
      BY <1>1, <1>3, <2>2, <2>3, <3>1, <3>2 DEF SinkIInv, Followed, Following, ctlVars
  <2>8. PutDown'
    BY <1>0, <1>1, <2>2 DEF SinkIInv, PutDown, ctlVars
  <2> QED
    BY <2>3, <2>5, <2>6, <2>7, <2>8 DEF SinkIInv
<1> QED
  BY <1>2, <1>3

\* The new subscription becomes the writer's.
LEMMA InstallKeeps == ASSUME SinkIInv, Install PROVE SinkIInv'
<1>1. /\ writer = "attached" /\ cur' = next
      /\ writer' = IF closing THEN "detaching" ELSE "catching"
      /\ UNCHANGED <<bufferVars, next, snap, chunk, fileVars, closing, ctlVars, late>>
  BY DEF Install
<1>2. BufferHolds' /\ closed' = closed /\ subs' = subs /\ sub' = sub
        /\ written' = written /\ BufferTypeOK'
  BY <1>1, QuietHolds, BufferTypes DEF SinkIInv
<1>3. GoesOn'
  <2>1. Resumes(next) /\ flushed <= written
    BY <1>1 DEF SinkIInv, GoesOn
  <2> QED
    BY <1>1, <1>2, <2>1 DEF GoesOn, Resumes, StreamEnd, fileVars
<1>4. SinkTypeOK' /\ Adds'
  BY <1>1, <1>2 DEF SinkIInv, SinkTypeOK, Adds, fileVars, ctlVars
<1>5. Followed'
  BY <1>1, <1>2 DEF SinkIInv, Followed, Following, ToTheEnd, ctlVars
<1>6. PutDown'
  BY <1>1 DEF SinkIInv, PutDown, ctlVars
<1> QED
  BY <1>2, <1>3, <1>4, <1>5, <1>6 DEF SinkIInv

\* Closed meanwhile, the writer goes on from the new stream, and what lies before it is
\* lost: what it has accounted for ends earlier.
LEMMA DetachNextKeeps == ASSUME SinkIInv, DetachNext PROVE SinkIInv'
<1> PICK c \in Subs, d \in Subs : c = cur /\ d = next
  BY DEF SinkIInv, SinkTypeOK
<1>1. /\ writer = "detaching" /\ writer' = "draining" /\ late' = TRUE /\ cur' = c /\ next' = d
      /\ UNCHANGED <<snap, chunk, fileVars, closing, ctlVars>>
  BY DEF DetachNext
<1>2. /\ BufferHolds' /\ Steady(c) /\ BufferTypeOK'
      /\ written' = written /\ closed' = closed /\ (subs = {} => sub' = sub /\ subs' = {})
  BY DetachHolds, BufferTypes DEF SinkIInv, DetachNext
<1>3. GoesOn'
  <2>1. PICK h \in Nat : h = snap.hi
    BY DEF SinkIInv, SinkTypeOK, Chunk
  <2>2. flushed <= h /\ h <= written /\ Carries(sub[c], h, StreamEnd(c)) /\ flushed <= written
    BY <1>1, <2>1 DEF SinkIInv, GoesOn, Resumes
  <2>3. Carries(sub'[c], h, StreamEnd(c)')
    BY <1>2, <2>2 DEF Steady
  <2>4. StreamEnd(cur)' = StreamEnd(c)'
    BY <1>1 DEF StreamEnd
  <2>5. h \in 0..written'
    BY <1>2, <2>2, Streams DEF SinkIInv
  <2>6. UpTo(h)'
    BY <1>1, <2>2 DEF UpTo, fileVars
  <2>7. Carries(sub'[cur'], h, StreamEnd(cur)')
    BY <1>1, <2>3, <2>4
  <2> QED
    BY <1>1, <1>2, <2>2, <2>5, <2>6, <2>7 DEF GoesOn, fileVars
<1>4. SinkTypeOK' /\ Adds'
  BY <1>1, <1>2 DEF SinkIInv, SinkTypeOK, Adds, fileVars, ctlVars
<1>5. Followed'
  <2>1. closing
    BY <1>1 DEF SinkIInv, Followed
  <2> QED
    BY <1>1, <1>2, <2>1 DEF SinkIInv, Followed, Following, ToTheEnd, ctlVars
<1>6. PutDown'
  BY <1>1 DEF SinkIInv, PutDown, ctlVars
<1> QED
  BY <1>2, <1>3, <1>4, <1>5, <1>6 DEF SinkIInv

\* Caught up with its snapshot, the log has got to where the new stream begins: after a
\* lag, and for a new writer after a move.
LEMMA CatchingUp ==
    ASSUME SinkIInv, NEW k \in 0..Fresher, CatchUp(k), Resumes(cur),
           UNCHANGED <<bufferVars, cur, next, snap, chunk, closing, late>>,
           writer' = "draining"
    PROVE  /\ BufferHolds' /\ BufferTypeOK' /\ GoesOn' /\ Adds' /\ closed' = closed
           /\ subs' = subs /\ sub' = sub /\ written' = written
           /\ flushed' \in 0..MaxWritten /\ disk' \in Seq(0..MaxWritten)
           /\ said' \in 0..MaxWritten
<1> PICK h \in Nat : h = snap.hi
  BY DEF SinkIInv, SinkTypeOK, Chunk
<1>1. BufferHolds' /\ BufferTypeOK' /\ closed' = closed /\ subs' = subs /\ sub' = sub
      /\ written' = written
  BY QuietHolds, BufferTypes DEF SinkIInv
<1>2. /\ flushed <= h /\ h <= written /\ Carries(sub[cur], h, StreamEnd(cur)) /\ written \in Nat
      /\ flushed \in Nat /\ said \in Nat /\ disk \in Seq(0..MaxWritten) /\ snap \in Chunk
      /\ written <= MaxWritten /\ MaxWritten \in Nat /\ Len(disk) + said = flushed
      /\ Len(disk) \in Nat
  BY Streams, BufferAssumption DEF SinkIInv, SinkTypeOK, Resumes, Adds
<1>3. /\ flushed' = h
      /\ flushed = h => UNCHANGED <<disk, said>>
      /\ flushed < h => k \in Nat /\ \E lo \in Nat : Recorded(flushed, lo, k, h)
  BY <1>2, CatchUpRecords
<1>4. disk' \in Seq(0..MaxWritten) /\ said' \in Nat /\ Len(disk') + said' = h
  <2>1. CASE flushed = h
    BY <1>2, <1>3, <2>1
  <2>2. CASE flushed < h
    <3>1. PICK lo \in Nat : Recorded(flushed, lo, k, h)
      BY <1>3, <2>2
    <3>2. k \in Nat /\ h <= MaxWritten
      BY <1>2, <1>3, <2>2
    <3>3. /\ disk' \in Seq(0..MaxWritten) /\ said' \in Nat
          /\ Len(disk') + said' = Len(disk) + said + (h - flushed)
      BY <1>2, <3>1, <3>2, RecordedAdds
    <3> QED
      BY <1>2, <3>3
  <2> QED
    BY <1>2, <2>1, <2>2
<1>5. h \in 0..MaxWritten /\ said' \in 0..MaxWritten
  <2>1. Len(disk') \in Nat
    BY <1>4
  <2> QED
    BY <1>2, <1>4, <2>1
<1>6. GoesOn'
  <2>1. Carries(sub'[cur'], h, StreamEnd(cur)')
    BY <1>1, <1>2 DEF StreamEnd
  <2>2. UpTo(h)' /\ h \in 0..written' /\ flushed' <= written'
    BY <1>1, <1>2, <1>3 DEF UpTo
  <2> QED
    BY <2>1, <2>2 DEF GoesOn
<1> QED
  BY <1>1, <1>3, <1>4, <1>5, <1>6 DEF Adds

LEMMA CatchesUpLagKeeps == ASSUME SinkIInv, CatchesUpLag PROVE SinkIInv'
<1>1. PICK k \in 0..Fresher : CatchUp(k)
  BY DEF CatchesUpLag
<1>2. /\ writer = "catching" /\ writer' = "draining"
      /\ UNCHANGED <<bufferVars, cur, next, snap, chunk, closing, ctlVars, late>>
  BY DEF CatchesUpLag
<1>3. Resumes(cur)
  BY <1>2 DEF SinkIInv, GoesOn
<1>4. /\ BufferHolds' /\ BufferTypeOK' /\ GoesOn' /\ Adds' /\ closed' = closed
      /\ subs' = subs /\ sub' = sub /\ written' = written
      /\ flushed' \in 0..MaxWritten /\ disk' \in Seq(0..MaxWritten)
      /\ said' \in 0..MaxWritten
  BY <1>1, <1>2, <1>3, CatchingUp
<1>5. SinkTypeOK'
  BY <1>2, <1>4 DEF SinkIInv, SinkTypeOK, ctlVars
<1>6. Followed'
  BY <1>2, <1>4 DEF SinkIInv, Followed, Following, ToTheEnd, ctlVars
<1>7. PutDown'
  BY <1>2 DEF SinkIInv, PutDown, ctlVars
<1> QED
  BY <1>4, <1>5, <1>6, <1>7 DEF SinkIInv

\* The new writer of a log that was moved has caught up, and the buffer knows it.
LEMMA CatchesUpMoveKeeps == ASSUME SinkIInv, CatchesUpMove PROVE SinkIInv'
<1>1. PICK k \in 0..Fresher : CatchUp(k)
  BY DEF CatchesUpMove
<1>2. /\ ctl = "resuming" /\ ctl' = "idle" /\ writer' = "draining" /\ writer = "resuming"
      /\ UNCHANGED <<bufferVars, cur, next, snap, chunk, closing, sink, ctlSub, moves,
                     timedOut, late>>
  BY DEF CatchesUpMove, SinkIInv, PutDown
<1>3. Resumes(cur)
  BY <1>2 DEF SinkIInv, GoesOn
<1>4. /\ BufferHolds' /\ BufferTypeOK' /\ GoesOn' /\ Adds' /\ closed' = closed
      /\ subs' = subs /\ sub' = sub /\ written' = written
      /\ flushed' \in 0..MaxWritten /\ disk' \in Seq(0..MaxWritten)
      /\ said' \in 0..MaxWritten
  BY <1>1, <1>2, <1>3, CatchingUp
<1>5. SinkTypeOK'
  BY <1>2, <1>4 DEF SinkIInv, SinkTypeOK
<1>6. Followed'
  BY <1>2, <1>4 DEF SinkIInv, Followed, Following, ToTheEnd
<1>7. PutDown'
  BY <1>2 DEF SinkIInv, PutDown
<1> QED
  BY <1>4, <1>5, <1>6, <1>7 DEF SinkIInv

\* The rename and the removal, up to what they do to the buffer: they touch neither the
\* log nor the writer's queue.
LEMMA CtlKeepsLog ==
    ASSUME SinkIInv, UNCHANGED bufferVars,
           UNCHANGED <<writer, cur, next, snap, chunk, fileVars, late>>,
           closing' \in BOOLEAN, sink' \in BOOLEAN, ctlSub' \in Subs, moves' \in 0..MaxMoves,
           timedOut' \in BOOLEAN,
           ctl' \in {"idle", "closing", "detaching", "waiting", "moving", "resuming",
                     "deleting", "removed"},
           Followed', PutDown'
    PROVE  SinkIInv'
<1>1. BufferHolds' /\ (\A v \in Subs : Steady(v)) /\ written' = written /\ written \in Nat
  BY QuietHolds, Streams DEF SinkIInv
<1>2. GoesOn'
  BY <1>1, QuietGoesOn DEF fileVars
<1>3. SinkTypeOK' /\ Adds'
  BY <1>1, QuietTypes
<1> QED
  BY <1>1, <1>2, <1>3 DEF SinkIInv

LEMMA MoveLogKeeps == ASSUME SinkIInv, MoveLog PROVE SinkIInv'
<1>1. /\ ctl = "idle" /\ sink /\ ~closed /\ moves < MaxMoves /\ moves' = moves + 1
      /\ ctl' = "closing"
      /\ UNCHANGED <<bufferVars, writer, cur, next, snap, chunk, fileVars, closing, sink,
                     ctlSub, timedOut, late>>
  BY DEF MoveLog
<1>2. UNCHANGED <<written, closed, subs, sub>>
  BY <1>1 DEF bufferVars
<1>3. Followed' /\ PutDown'
  BY <1>1, <1>2 DEF SinkIInv, Followed, PutDown
<1>4. moves' \in 0..MaxMoves
  BY <1>1, MovesAssumption DEF SinkIInv, SinkTypeOK
<1> QED
  BY <1>1, <1>3, <1>4, CtlKeepsLog DEF SinkIInv, SinkTypeOK

\* The buffer closed, the streams it knew of go to the end.
LEMMA RemoveKeeps == ASSUME SinkIInv, Remove PROVE SinkIInv'
<1> PICK c \in Subs, d \in Subs : c = cur /\ d = next
  BY DEF SinkIInv, SinkTypeOK
<1>1. /\ ctl = "idle" /\ ~closed /\ ctl' = IF sink THEN "closing" ELSE "deleting"
      /\ cur' = c /\ next' = d
      /\ UNCHANGED <<writer, cur, next, snap, chunk, fileVars, closing, sink, ctlSub, moves,
                     timedOut, late>>
  BY DEF Remove
<1>2. /\ BufferHolds' /\ \A v \in Subs : Steady(v)
      /\ written' = written /\ closed' = TRUE /\ subs' = {} /\ written \in Nat
      /\ (Following(c) => ToTheEnd(c)') /\ (Following(d) => ToTheEnd(d)')
  BY CloseHolds, Streams DEF SinkIInv, Remove
<1>3. GoesOn'
  BY <1>1, <1>2, QuietGoesOn DEF fileVars
<1>4. SinkTypeOK' /\ Adds'
  BY <1>1, <1>2, QuietTypes DEF SinkIInv, SinkTypeOK
<1>5. Followed'
  BY <1>1, <1>2 DEF SinkIInv, Followed, ToTheEnd
<1>6. PutDown'
  BY <1>1 DEF SinkIInv, PutDown
<1> QED
  BY <1>2, <1>3, <1>4, <1>5, <1>6 DEF SinkIInv

LEMMA CloseAskKeeps == ASSUME SinkIInv, CloseAsk PROVE SinkIInv'
<1>1. /\ ctl = "closing" /\ closing' = TRUE /\ ctlSub' = cur /\ ctl' = "detaching"
      /\ UNCHANGED <<bufferVars, writer, cur, next, snap, chunk, fileVars, sink, moves,
                     timedOut, late>>
  BY DEF CloseAsk
<1>2. UNCHANGED <<written, closed, subs, sub>>
  BY <1>1 DEF bufferVars
<1>3. Followed' /\ PutDown'
  BY <1>1, <1>2 DEF SinkIInv, Followed, ToTheEnd, PutDown
<1> QED
  BY <1>1, <1>3, CtlKeepsLog DEF SinkIInv, SinkTypeOK

\* The subscription read a moment ago is detached, whichever the writer has by now.
LEMMA CloseDetachKeeps == ASSUME SinkIInv, CloseDetach PROVE SinkIInv'
<1>1. /\ ctl = "detaching" /\ ctl' = "waiting" /\ ctlSub \in Subs
      /\ UNCHANGED <<writer, cur, next, snap, chunk, fileVars, closing, sink, ctlSub, moves,
                     timedOut, late>>
  BY DEF CloseDetach, SinkIInv, SinkTypeOK
<1>2. /\ BufferHolds' /\ \A v \in Subs : Steady(v)
      /\ written' = written /\ closed' = closed /\ (subs = {} => sub' = sub /\ subs' = {})
      /\ written \in Nat
  BY <1>1, DetachHolds, Streams DEF SinkIInv, CloseDetach
<1>3. GoesOn'
  BY <1>1, <1>2, QuietGoesOn DEF fileVars
<1>4. SinkTypeOK' /\ Adds'
  BY <1>1, <1>2, QuietTypes DEF SinkIInv, SinkTypeOK
<1>5. Followed'
  BY <1>1, <1>2 DEF SinkIInv, Followed, ToTheEnd
<1>6. PutDown'
  BY <1>1 DEF SinkIInv, PutDown
<1> QED
  BY <1>2, <1>3, <1>4, <1>5, <1>6 DEF SinkIInv

\* The writer has put the file down, or nobody waits for it any longer and says so.
LEMMA CloseEndsKeeps == ASSUME SinkIInv, CloseDone \/ CloseTimesOut PROVE SinkIInv'
<1>t. sink \in BOOLEAN /\ closed \in BOOLEAN /\ timedOut \in BOOLEAN
  BY DEF SinkIInv, SinkTypeOK, BufferTypeOK
<1>0. /\ ctl = "waiting" /\ ctl' \in {"deleting", "moving", "idle"}
      /\ (closed => ctl' = "deleting") /\ (ctl' = "moving" => writer = "done")
      /\ (sink' => sink) /\ (closed => sink' = sink) /\ (ctl' = "moving" => sink' = sink)
      /\ (~timedOut' => writer = "done" /\ sink' = sink /\ ~timedOut)
      /\ (ctl' = "idle" => ~sink') /\ sink' \in BOOLEAN /\ timedOut' \in BOOLEAN
      /\ UNCHANGED <<bufferVars, writer, cur, next, snap, chunk, fileVars, closing, ctlSub,
                     moves, late>>
  <2>1. CASE CloseDone
    <3>1. /\ ctl = "waiting" /\ writer = "done" /\ ctl' = IF closed THEN "deleting" ELSE "moving"
          /\ UNCHANGED <<bufferVars, writer, cur, next, snap, chunk, fileVars, closing, sink,
                         ctlSub, moves, timedOut, late>>
      BY <2>1 DEF CloseDone
    <3> QED
      BY <1>t, <3>1
  <2>2. CASE CloseTimesOut
    <3>1. /\ ctl = "waiting" /\ timedOut' = TRUE /\ ctl' = IF closed THEN "deleting" ELSE "idle"
          /\ UNCHANGED <<bufferVars, writer, cur, next, snap, chunk, fileVars, closing, ctlSub,
                         moves, late>>
      BY <2>2 DEF CloseTimesOut
    <3>2. CASE closed
      <4>1. sink' = sink
        BY <1>t, <2>2, <3>2 DEF CloseTimesOut
      <4> QED
        BY <1>t, <3>1, <3>2, <4>1
    <3>3. CASE ~closed
      <4>1. sink' = FALSE
        BY <2>2, <3>3 DEF CloseTimesOut
      <4> QED
        BY <1>t, <3>1, <3>3, <4>1
    <3> QED
      BY <3>2, <3>3
  <2> QED
    BY <2>1, <2>2
<1>2. UNCHANGED <<written, closed, subs, sub>>
  BY <1>0 DEF bufferVars
<1>3. Followed'
  BY <1>0, <1>2 DEF SinkIInv, Followed, ToTheEnd
<1>4. PutDown'
  BY <1>0 DEF SinkIInv, PutDown
<1> QED
  BY <1>0, <1>3, <1>4, CtlKeepsLog DEF SinkIInv, SinkTypeOK

\* A new writer attaches for the log that was moved: its snapshot ends where its stream
\* begins.
LEMMA OpenMovedKeeps == ASSUME SinkIInv, OpenMoved PROVE SinkIInv'
<1>1. PICK i \in Subs : Attach(i) /\ cur' = i
  BY DEF OpenMoved
<1>2. /\ ctl = "moving" /\ snap' = RingInterval /\ closing' = FALSE /\ writer' = "resuming"
      /\ ctl' = "resuming"
      /\ UNCHANGED <<next, chunk, fileVars, sink, ctlSub, moves, timedOut, late>>
  BY DEF OpenMoved
<1>3. /\ BufferHolds' /\ written' = written /\ closed' = closed /\ ~closed
      /\ sub'[i].open /\ Carries(sub'[i], written, written) /\ BufferTypeOK'
  BY <1>1, AttachHolds, BufferTypes DEF SinkIInv
<1>4. snap' \in Chunk /\ snap'.hi = written /\ written \in Nat /\ flushed <= written
  BY <1>2, Streams DEF RingInterval, Chunk, SinkIInv, GoesOn
<1>5. GoesOn'
  <2>1. StreamEnd(cur)' = written
    BY <1>1, <1>3 DEF StreamEnd
  <2> QED
    BY <1>1, <1>2, <1>3, <1>4, <2>1 DEF GoesOn, Resumes, fileVars
<1>6. SinkTypeOK' /\ Adds'
  BY <1>1, <1>2, <1>3, <1>4 DEF SinkIInv, SinkTypeOK, Adds, fileVars
<1>7. Followed'
  BY <1>1, <1>2, <1>3 DEF Followed, Following
<1>8. PutDown'
  BY <1>2 DEF SinkIInv, PutDown
<1> QED
  BY <1>3, <1>5, <1>6, <1>7, <1>8 DEF SinkIInv

LEMMA OpenFailsKeeps == ASSUME SinkIInv, OpenFails PROVE SinkIInv'
<1>1. /\ ctl = "moving" /\ sink' = FALSE /\ ctl' = "idle"
      /\ UNCHANGED <<bufferVars, writer, cur, next, snap, chunk, fileVars, closing, ctlSub,
                     moves, timedOut, late>>
  BY DEF OpenFails
<1>2. UNCHANGED <<written, closed, subs, sub>>
  BY <1>1 DEF bufferVars
<1>3. Followed' /\ PutDown'
  BY <1>1, <1>2 DEF SinkIInv, Followed, PutDown
<1> QED
  BY <1>1, <1>3, CtlKeepsLog DEF SinkIInv, SinkTypeOK

LEMMA DeleteLogsKeeps == ASSUME SinkIInv, DeleteLogs PROVE SinkIInv'
<1>1. /\ ctl = "deleting" /\ ctl' = "removed"
      /\ UNCHANGED <<bufferVars, writer, cur, next, snap, chunk, fileVars, closing, sink,
                     ctlSub, moves, timedOut, late>>
  BY DEF DeleteLogs
<1>2. UNCHANGED <<written, closed, subs, sub>>
  BY <1>1 DEF bufferVars
<1>3. Followed' /\ PutDown'
  BY <1>1, <1>2 DEF SinkIInv, Followed, ToTheEnd, PutDown
<1> QED
  BY <1>1, <1>3, CtlKeepsLog DEF SinkIInv, SinkTypeOK

----------------------------------------------------------------------------
(* The inductive invariant. *)

LEMMA Begins == SinkInit => SinkIInv
<1> SUFFICES ASSUME SinkInit PROVE SinkIInv
  OBVIOUS
<1>1. PICK i \in Subs : BufferInit({i}) /\ cur = i /\ next = i /\ ctlSub = i
  BY DEF SinkInit
<1>2. BufferInv /\ OpenInv
  BY <1>1, BufferBegins DEF OpenInv
<1>3. /\ sub = [v \in Subs |-> IF v \in {i} THEN Fresh(0) ELSE [Fresh(0) EXCEPT !.open = FALSE]]
      /\ written = 0 /\ closed = FALSE
  BY <1>1 DEF BufferInit
<1>4. Fresh(0).ch = <<>> /\ Fresh(0).upTo = 0 /\ Fresh(0).open /\ Len(<<>>) = 0
  BY DEF Fresh
<1>5. \A v \in Subs : sub[v].ch = <<>> /\ sub[v].upTo = 0
  BY <1>3, <1>4 DEF Fresh
<1>6. sub[i] = Fresh(0)
  BY <1>3
<1>7. Bounded
  BY <1>3, <1>4, <1>5 DEF Bounded, Within
<1>8. BufferHolds /\ BufferTypeOK
  BY <1>2, <1>7, BufferTypes DEF BufferHolds
<1>9. /\ writer = "draining" /\ snap = Nothing /\ chunk = Nothing /\ flushed = 0 /\ disk = <<>>
      /\ said = 0 /\ closing = FALSE /\ sink = TRUE /\ ctl = "idle" /\ moves = 0
      /\ timedOut = FALSE /\ late = FALSE
  BY DEF SinkInit
<1>10. SinkTypeOK
  <2>1. Nothing \in Chunk /\ 0 \in 0..MaxWritten /\ 0 \in 0..MaxMoves
    BY BufferAssumption, MovesAssumption DEF Nothing, Chunk
  <2>2. disk \in Seq(0..MaxWritten)
    BY <1>9
  <2> QED
    BY <1>1, <1>8, <1>9, <2>1, <2>2 DEF SinkTypeOK
<1>11. GoesOn
  <2>1. Carries(sub[cur], 0, StreamEnd(cur))
    BY <1>1, <1>3, <1>4, <1>6, FreshCarries DEF StreamEnd
  <2>2. UpTo(0) /\ 0 \in 0..written /\ flushed <= written
    BY <1>3, <1>9 DEF UpTo
  <2> QED
    BY <1>9, <2>1, <2>2 DEF GoesOn
<1>12. Adds /\ Followed /\ PutDown
  BY <1>1, <1>3, <1>4, <1>6, <1>9 DEF Adds, Followed, Following, PutDown
<1> QED
  BY <1>8, <1>10, <1>11, <1>12 DEF SinkIInv

LEMMA StepKeeps == SinkIInv /\ [SinkNext]_sinkVars => SinkIInv'
<1> SUFFICES ASSUME SinkIInv, [SinkNext]_sinkVars PROVE SinkIInv'
  OBVIOUS
<1>1. ASSUME NEW n \in 1..MaxChunk, ServiceWrites(n) PROVE SinkIInv'
  BY <1>1, OutputKeeps
<1>2. CASE Run
  BY <1>2, ReceiveKeeps, WriteChunkKeeps, StreamEndsKeeps, ReattachKeeps, InstallKeeps,
     DetachNextKeeps, CatchesUpLagKeeps DEF Run
<1>3. CASE MoveLog \/ Remove
  BY <1>3, MoveLogKeeps, RemoveKeeps
<1>4. CASE Ctl \/ CloseTimesOut
  BY <1>4, CloseAskKeeps, CloseDetachKeeps, CloseEndsKeeps, OpenMovedKeeps, OpenFailsKeeps,
     CatchesUpMoveKeeps, DeleteLogsKeeps DEF Ctl
<1>5. CASE UNCHANGED sinkVars
  <2>1. UNCHANGED <<bufferVars, writer, cur, next, snap, chunk, fileVars, closing, ctlVars, late>>
    BY <1>5 DEF sinkVars
  <2>2. UNCHANGED <<written, closed, subs, sub>>
    BY <2>1 DEF bufferVars
  <2>3. Followed' /\ PutDown'
    BY <2>1, <2>2 DEF SinkIInv, Followed, Following, ToTheEnd, PutDown, ctlVars
  <2> QED
    BY <2>1, <2>3, CtlKeepsLog DEF SinkIInv, SinkTypeOK, ctlVars
<1> QED
  BY <1>1, <1>2, <1>3, <1>4, <1>5 DEF SinkNext

\* The invariant of every behaviour.
LEMMA Inductive == SinkSpec => []SinkIInv
BY Begins, StepKeeps, PTL DEF SinkSpec

----------------------------------------------------------------------------
(* What follows for the log. *)

\* The variables stay within their types: the buffer and its queues, whatever is offered,
\* received, cut and begun anew, and the file.
THEOREM Typing == SinkSpec => []SinkTypeOK
<1>1. SinkIInv => SinkTypeOK
  BY DEF SinkIInv
<1> QED
  BY <1>1, Inductive, PTL

\* A writer that has finished because the service was removed has kept every byte or
\* admitted it missing, unless it had fallen behind (logfile.go's flushed, catchUp and
\* Close).
THEOREM AllKeptOrSaidAlways == SinkSpec => []AllKeptOrSaid
<1>1. SinkIInv => AllKeptOrSaid
  <2> SUFFICES ASSUME SinkIInv, writer = "done", closed, sink, ~late, ~sub[cur].lagged
               PROVE  Len(disk) + said = written
    BY DEF AllKeptOrSaid
  <2>1. UpTo(sub[cur].upTo) /\ sub[cur].upTo = written
    BY DEF SinkIInv, GoesOn, Followed, ToTheEnd
  <2> QED
    BY <2>1 DEF SinkIInv, UpTo, Adds
<1> QED
  BY <1>1, Inductive, PTL

\* A step writes to the file where the log has got to, or leaves the log as it was.
LEMMA StepAdvances ==
    SinkIInv /\ [SinkNext]_sinkVars => [late \/ Log!Advance]_<<disk, said, flushed>>
<1> SUFFICES ASSUME SinkIInv, [SinkNext]_sinkVars, ~late PROVE [Log!Advance]_<<disk, said, flushed>>
  OBVIOUS
<1>0. /\ flushed \in Nat /\ said \in Nat /\ disk \in Seq(0..MaxWritten)
      /\ chunk \in Chunk /\ chunk.lo \in Nat /\ chunk.hi \in Nat
      /\ snap \in Chunk /\ snap.hi \in Nat
      /\ written <= MaxWritten /\ written \in Nat /\ MaxWritten \in Nat
  BY Streams, BufferAssumption DEF SinkIInv, SinkTypeOK, Chunk
<1>1. CASE WriteChunk
  <2>1. PICK k \in 0..(chunk.hi - chunk.lo) : EmitChunk(k)
    BY <1>1 DEF WriteChunk
  <2>2. flushed = chunk.lo /\ chunk.lo < chunk.hi /\ chunk.hi <= written
    BY <1>1 DEF SinkIInv, GoesOn, UpTo, WriteChunk
  <2>3. k \in Nat /\ Recorded(flushed, chunk.lo, k, chunk.hi)
    BY <1>0, <2>1, <2>2, ChunkRecorded
  <2>4. flushed' = chunk.hi /\ chunk.hi <= MaxWritten /\ flushed < chunk.hi
    <3>1. flushed' = flushed + (chunk.hi - chunk.lo)
      BY <2>1 DEF EmitChunk
    <3> QED
      BY <1>0, <2>2, <3>1
  <2> QED
    BY <1>0, <2>3, <2>4, RecordedAdvances
<1>2. CASE CatchesUpLag \/ CatchesUpMove
  <2>1. PICK k \in 0..Fresher : CatchUp(k)
    BY <1>2 DEF CatchesUpLag, CatchesUpMove
  <2>2. flushed <= snap.hi /\ snap.hi <= written
    BY <1>2 DEF SinkIInv, GoesOn, Resumes, PutDown, CatchesUpLag, CatchesUpMove
  <2>3. /\ flushed' = snap.hi
        /\ flushed = snap.hi => UNCHANGED <<disk, said>>
        /\ flushed < snap.hi => k \in Nat /\ \E lo \in Nat : Recorded(flushed, lo, k, snap.hi)
    BY <1>0, <2>1, <2>2, CatchUpRecords
  <2>4. CASE flushed = snap.hi
    BY <2>3, <2>4
  <2>5. CASE flushed < snap.hi
    <3>1. PICK lo \in Nat : Recorded(flushed, lo, k, snap.hi)
      BY <2>3, <2>5
    <3>2. k \in Nat /\ snap.hi <= MaxWritten
      BY <1>0, <2>2, <2>3, <2>5
    <3> QED
      BY <1>0, <2>3, <2>5, <3>1, <3>2, RecordedAdvances
  <2> QED
    BY <1>0, <2>2, <2>4, <2>5
<1>3. CASE ~(WriteChunk \/ CatchesUpLag \/ CatchesUpMove)
  BY <1>3 DEF SinkNext, sinkVars, fileVars, ServiceWrites, Run, ReceiveChunk, StreamEnds, Reattach,
     Install, DetachNext, MoveLog, Remove, Ctl, CloseAsk, CloseDetach, CloseDone, OpenMoved, OpenFails,
     DeleteLogs, CloseTimesOut
<1> QED
  BY <1>1, <1>2, <1>3

\* The log begins empty, as a transcript does.
LEMMA LogBegins == SinkInit => Log!Init
BY DEF SinkInit, Log!Init

\* Whatever the writer does, the log stays a transcript (emit, catchUp, the lag and the
\* move): the file gets the next bytes of the stream, each once and in order, and what it
\* does not get of those it accounts for is admitted - until a Close falls between a
\* re-attach and its catch-up.
THEOREM KeepsTranscriptAlways == SinkSpec => KeepsTranscript
BY LogBegins, StepAdvances, Inductive, PTL DEF SinkSpec, KeepsTranscript

\* So the writer of a service that is never closed at that moment implements a
\* Transcript.
THEOREM ImplementsTranscript == SinkSpec /\ []~late => Log!Spec
<1>1. ~late /\ [late \/ Log!Advance]_<<disk, said, flushed>> => [Log!Advance]_(Log!vars)
  BY DEF Log!vars
<1> QED
  BY <1>1, KeepsTranscriptAlways, PTL DEF KeepsTranscript, Log!Spec

\* Once the log's files are deleted nothing is written any more, unless a Close gave up
\* waiting and said so: `rm` does not report deleting a transcript that is being written
\* back (LogSink.Close's wait, removeLogs).
THEOREM DeletedStaysDeletedAlways == SinkSpec => DeletedStaysDeleted
<1>1. SinkIInv /\ [SinkNext]_sinkVars => [ctl = "removed" /\ ~timedOut => UNCHANGED disk]_sinkVars
  <2> SUFFICES ASSUME SinkIInv, SinkNext, ctl = "removed", ~timedOut PROVE UNCHANGED disk
    OBVIOUS
  <2>1. writer = "done"
    BY DEF SinkIInv, PutDown
  <2> QED
    BY <2>1 DEF SinkNext, fileVars, ServiceWrites, Run, ReceiveChunk, StreamEnds, Reattach, Install,
       DetachNext, WriteChunk, CatchesUpLag, CatchesUpMove, MoveLog, Remove, Ctl, CloseAsk,
       CloseDetach, CloseDone, OpenMoved, OpenFails, DeleteLogs, CloseTimesOut
<1> QED
  BY <1>1, Inductive, PTL DEF SinkSpec, DeletedStaysDeleted
==============================================================================
