------------------------ MODULE AttachClient_proofs ------------------------
(***************************************************************************)
(* That what is typed goes to the service it was typed at, for any number   *)
(* of keys, commands and services and whatever happens in the daemon        *)
(* (KeysGoWhereTyped of AttachClient).                                      *)
(*                                                                         *)
(* Two channels have no order between them.  What gives them one is that    *)
(* the fences are read in the order of their commands: at any moment there  *)
(* is a number f such that the fences up to f have been read and the others *)
(* have not, and every key at the head of the queue was typed after the     *)
(* f-th command.  The client has taken `taken` commands.  While the two     *)
(* numbers agree, the head of the queue is for the session that is open;    *)
(* where they differ, every command between them is in `loose`, but for the *)
(* one a session is in the middle of.                                       *)
(*                                                                         *)
(* And that the terminal shows the service that is attached                *)
(* (ScreenIsTheServices): while it shows anything, no name its client may   *)
(* yet go by is another service's; and it is clear only where it is about   *)
(* to be filled.                                                            *)
(***************************************************************************)
EXTENDS AttachClient, SequenceTheorems, TLAPS

----------------------------------------------------------------------------
(* The invariant. *)

Chunk == [fence : BOOLEAN, at : Nat]

\* The two channels, and the number of commands they have been given.
Shape ==
    /\ data \in Seq(Chunk)
    /\ taken \in Nat /\ typed \in Nat
    /\ cmds \in Seq(Commands) /\ Len(cmds) <= 1 /\ typed = taken + Len(cmds)
    /\ reader = "fencing" => typed > 0

IsFence(c) == c = Fence(c.at)

\* What is queued was typed in this order: a command, its fence, the keys after it.
Ordered ==
    /\ \A i \in DOMAIN data : data[i].at <= typed /\ (reader = "fencing" => data[i].at < typed)
    /\ \A i, j \in DOMAIN data : i < j =>
         /\ data[i].at <= data[j].at
         /\ IsFence(data[j]) => data[i].at < data[j].at

\* Behind whatever is queued are the fences of all the commands typed after it.
Followed == \A i \in DOMAIN data : \A n \in 1..typed : n > data[i].at => Unread(n)

Queue == Shape /\ Ordered /\ Followed

\* One of the n-th command and its fence has been read, and the other has not.
Parted(n) == IF n > taken THEN ~Unread(n) ELSE Unread(n)

\* The session is between the two: it has read the fence and waits for the
\* command, or has taken the command and drains the keyboard to the fence.
Underway(n) ==
    \/ at = "session" /\ fenced /\ n = taken + 1
    \/ at = "drain" /\ n = taken

PartedAreLoose == \A n \in 1..typed : Parted(n) => n \in loose \/ Underway(n)

\* A session is fenced by a fence while a command waits, and by another's only
\* when the command is loose.
FencedByItsOwn ==
    fenced => at = "session" /\ cmds # <<>> /\ (Unread(taken + 1) => taken + 1 \in loose)

\* A drain goes to the fence of the command that began it.
DrainsToItsOwn == at = "drain" => taken > 0 /\ (loose = {} => Unread(taken))

\* The commands the session counts from.
Since == (at = "session" => era = taken) /\ (at = "drain" => era = taken - 1)

Pairing == PartedAreLoose /\ FencedByItsOwn /\ DrainsToItsOwn /\ Since

IInv == Queue /\ Pairing /\ KeysGoWhereTyped

----------------------------------------------------------------------------
(* The two channels. *)

\* What a step makes of the keyboard.
Rests == UNCHANGED <<reader, data, cmds, typed, taken>>
Types ==
    /\ TypeKeys \/ (\E o \in Commands : TypeCommand(o)) \/ PutFence \/ TypeEnd
    /\ taken' = taken
Reads == data # <<>> /\ data' = Tail(data) /\ UNCHANGED <<reader, cmds, typed, taken>>
Takes ==
    cmds # <<>> /\ cmds' = <<>> /\ taken' = taken + 1 /\ UNCHANGED <<reader, data, typed>>
ReadsAndTakes ==
    /\ data # <<>> /\ data' = Tail(data)
    /\ cmds # <<>> /\ cmds' = <<>> /\ taken' = taken + 1
    /\ UNCHANGED <<reader, typed>>

\* Reading the queue takes its head away and leaves the order of the rest.
LEMMA TailOf ==
    ASSUME NEW q \in Seq(Chunk), q # <<>>
    PROVE  /\ Head(q) = q[1] /\ 1 \in DOMAIN q /\ Head(q) \in Chunk
           /\ Tail(q) \in Seq(Chunk)
           /\ DOMAIN q = 1..Len(q) /\ Len(q) \in Nat
           /\ DOMAIN Tail(q) = 1..(Len(q) - 1)
           /\ \A i \in DOMAIN Tail(q) : i + 1 \in DOMAIN q /\ Tail(q)[i] = q[i + 1]
<1>1. Len(q) \in Nat \ {0} /\ DOMAIN q = 1..Len(q)
  BY EmptySeq, LenProperties
<1>2. Head(q) = q[1] /\ Tail(q) \in Seq(Chunk) /\ Len(Tail(q)) = Len(q) - 1
  BY HeadTailProperties
<1>3. \A i \in 1..Len(Tail(q)) : Tail(q)[i] = q[i + 1]
  BY HeadTailProperties
<1>4. DOMAIN Tail(q) = 1..Len(Tail(q))
  BY <1>2, LenProperties
<1>5. q[1] \in Chunk
  BY <1>1, ElementOfSeq
<1> QED
  BY <1>1, <1>2, <1>3, <1>4, <1>5

\* A chunk added to the queue is its last.
LEMMA AppendTo ==
    ASSUME NEW q \in Seq(Chunk), NEW c \in Chunk
    PROVE  /\ Append(q, c) \in Seq(Chunk)
           /\ DOMAIN q = 1..Len(q) /\ Len(q) \in Nat
           /\ DOMAIN Append(q, c) = 1..(Len(q) + 1)
           /\ Append(q, c)[Len(q) + 1] = c
           /\ \A i \in DOMAIN q : Append(q, c)[i] = q[i]
<1>1. Len(q) \in Nat /\ DOMAIN q = 1..Len(q)
  BY LenProperties
<1>2. Append(q, c) \in Seq(Chunk) /\ Len(Append(q, c)) = Len(q) + 1
  BY AppendProperties
<1>3. DOMAIN Append(q, c) = 1..(Len(q) + 1)
  BY <1>2, LenProperties
<1>4. Append(q, c)[Len(q) + 1] = c /\ \A i \in 1..Len(q) : Append(q, c)[i] = q[i]
  BY AppendProperties
<1> QED
  BY <1>1, <1>2, <1>3, <1>4

\* A chunk that is not a fence is nobody's, and one that is, is its command's.
LEMMA Kinds ==
    ASSUME NEW c \in Chunk
    PROVE  /\ c.at \in Nat
           /\ c.fence <=> IsFence(c)
           /\ \A n : c = Fence(n) => c.at = n
<1>1. c.at \in Nat /\ c.fence \in BOOLEAN /\ c = [fence |-> c.fence, at |-> c.at]
  BY DEF Chunk
<1>2. c.fence => c = Fence(c.at)
  BY <1>1 DEF Fence
<1>3. \A n : c = Fence(n) => c.fence /\ c.at = n
  BY DEF Fence
<1> QED
  BY <1>1, <1>2, <1>3 DEF IsFence

\* A fence is unread while it is in the queue, or on its way to it.
LEMMA UnreadIs ==
    \A n : Unread(n) <=>
        n > 0 /\ ((\E i \in DOMAIN data : data[i] = Fence(n)) \/ (reader = "fencing" /\ typed = n))
  BY DEF Unread

\* Reading one chunk makes that fence read, if it is one, and no other.
LEMMA UnreadAfterReading ==
    ASSUME Queue, data # <<>>, data' = Tail(data), UNCHANGED <<reader, typed>>,
           NEW n \in Nat
    PROVE  Unread(n)' <=> Unread(n) /\ Head(data) # Fence(n)
<1> DEFINE In == \E i \in DOMAIN data : data[i] = Fence(n)
           InTail == \E i \in DOMAIN Tail(data) : Tail(data)[i] = Fence(n)
<1>1. data \in Seq(Chunk) /\ typed \in Nat
  BY DEF Queue, Shape
<1>2. /\ Head(data) = data[1] /\ 1 \in DOMAIN data
      /\ DOMAIN data = 1..Len(data) /\ Len(data) \in Nat
      /\ DOMAIN Tail(data) = 1..(Len(data) - 1)
      /\ \A i \in DOMAIN Tail(data) : i + 1 \in DOMAIN data /\ Tail(data)[i] = data[i + 1]
  BY <1>1, TailOf
<1>3. \A i \in DOMAIN data : data[i] \in Chunk
  BY <1>1, <1>2, ElementOfSeq
<1>4. \A i \in DOMAIN data : data[i] = Fence(n) => data[i].at = n /\ IsFence(data[i])
  BY <1>3, Kinds DEF IsFence
<1>5. InTail => In
  BY <1>2
<1>6. In => InTail \/ Head(data) = Fence(n)
  <2>1. \A i \in DOMAIN data : i # 1 => i - 1 \in DOMAIN Tail(data) /\ Tail(data)[i - 1] = data[i]
    BY <1>2
  <2> QED
    BY <2>1, <1>2
<1>7. ASSUME Head(data) = Fence(n) PROVE ~InTail /\ ~(reader = "fencing" /\ typed = n)
  <2>1. data[1].at = n /\ 1 \in DOMAIN data
    BY <1>2, <1>4, <1>7
  <2>2. reader = "fencing" => n < typed
    BY <2>1 DEF Queue, Ordered
  <2>3. \A j \in DOMAIN data : 1 < j /\ data[j] = Fence(n) => n < n
    BY <1>4, <2>1 DEF Queue, Ordered
  <2>4. \A i \in DOMAIN Tail(data) : Tail(data)[i] # Fence(n)
    BY <1>2, <2>3
  <2> QED
    BY <2>2, <2>4, <1>1
<1>8. Unread(n) <=> n > 0 /\ (In \/ (reader = "fencing" /\ typed = n))
  BY UnreadIs
<1>9. Unread(n)' <=> n > 0 /\ (InTail \/ (reader = "fencing" /\ typed = n))
  BY DEF Unread
<1> QED
  BY <1>5, <1>6, <1>7, <1>8, <1>9

\* Typing makes no fence read; a command's own is unread from the start.
LEMMA UnreadAfterTyping ==
    ASSUME Queue, Types
    PROVE  /\ typed' \in {typed, typed + 1}
           /\ \A n \in 1..typed : Unread(n)' <=> Unread(n)
           /\ typed' = typed + 1 => Unread(typed)'
<1>1. data \in Seq(Chunk) /\ typed \in Nat /\ (reader = "fencing" => typed > 0)
  BY DEF Queue, Shape
<1>2. CASE TypeKeys
  <2>1. Key(typed) \in Chunk /\ \A n : Key(typed) # Fence(n)
    BY <1>1 DEF Key, Fence, Chunk
  <2>2. data' = Append(data, Key(typed)) /\ typed' = typed /\ reader' = reader
    BY <1>2 DEF TypeKeys
  <2>3. \A n : (\E i \in DOMAIN Append(data, Key(typed)) : Append(data, Key(typed))[i] = Fence(n))
               <=> \E i \in DOMAIN data : data[i] = Fence(n)
    BY <1>1, <2>1, AppendTo
  <2>4. \A n : Unread(n)' <=> Unread(n)
    BY <2>2, <2>3 DEF Unread
  <2> QED
    BY <1>1, <2>2, <2>4
<1>3. CASE \E o \in Commands : TypeCommand(o)
  <2>1. reader = "reading" /\ typed' = typed + 1 /\ reader' = "fencing" /\ data' = data
    BY <1>3 DEF TypeCommand
  <2>2. \A n \in 1..typed : n # typed + 1
    BY <1>1
  <2>3. \A n \in 1..typed : Unread(n)' <=> Unread(n)
    BY <2>1, <2>2 DEF Unread
  <2>4. Unread(typed)'
    BY <2>1, <1>1 DEF Unread
  <2> QED
    BY <2>1, <2>3, <2>4
<1>4. CASE PutFence
  <2>1. Fence(typed) \in Chunk /\ \A n \in Nat : Fence(typed) = Fence(n) <=> n = typed
    BY <1>1 DEF Fence, Chunk
  <2>2. data' = Append(data, Fence(typed)) /\ typed' = typed /\ reader = "fencing" /\ reader' = "reading"
    BY <1>4 DEF PutFence
  <2>3. \A n \in Nat : (\E i \in DOMAIN Append(data, Fence(typed)) : Append(data, Fence(typed))[i] = Fence(n))
               <=> n = typed \/ \E i \in DOMAIN data : data[i] = Fence(n)
    BY <1>1, <2>1, AppendTo
  <2>4. \A n \in Nat : Unread(n)' <=> Unread(n)
    BY <1>1, <2>2, <2>3 DEF Unread
  <2> QED
    BY <1>1, <2>2, <2>4
<1>5. CASE TypeEnd
  <2>1. reader = "reading" /\ typed' = typed /\ reader' = "ended" /\ data' = data
    BY <1>5 DEF TypeEnd
  <2> QED
    BY <1>1, <2>1 DEF Unread
<1> QED
  BY <1>2, <1>3, <1>4, <1>5 DEF Types

\* A command taken leaves the fences as they are.
LEMMA UnreadAfterTaking ==
    ASSUME UNCHANGED <<reader, data, typed>>
    PROVE  \A n : Unread(n)' <=> Unread(n)
  BY DEF Unread

----------------------------------------------------------------------------
(* The order of the queue is kept. *)

LEMMA QueueAfterReading ==
    ASSUME Queue, data # <<>>, data' = Tail(data), UNCHANGED <<reader, typed>>,
           cmds' \in Seq(Commands), Len(cmds') <= 1, taken' \in Nat, typed = taken' + Len(cmds')
    PROVE  Queue'
<1>1. data \in Seq(Chunk) /\ typed \in Nat
  BY DEF Queue, Shape
<1>2. /\ Head(data) = data[1] /\ 1 \in DOMAIN data
      /\ Tail(data) \in Seq(Chunk)
      /\ DOMAIN data = 1..Len(data) /\ Len(data) \in Nat
      /\ DOMAIN Tail(data) = 1..(Len(data) - 1)
      /\ \A i \in DOMAIN Tail(data) : i + 1 \in DOMAIN data /\ Tail(data)[i] = data[i + 1]
  BY <1>1, TailOf
<1>3. \A i \in DOMAIN data : data[i] \in Chunk
  BY <1>1, <1>2, ElementOfSeq
<1>4. Shape'
  BY <1>2 DEF Queue, Shape
<1>5. Ordered'
  <2>1. \A i \in DOMAIN data' : data'[i].at <= typed' /\ (reader' = "fencing" => data'[i].at < typed')
    BY <1>2 DEF Queue, Ordered
  <2>2. \A i, j \in DOMAIN data : i + 1 < j + 1 <=> i < j
    BY <1>2
  <2>3. \A i, j \in DOMAIN data' : i < j =>
          data'[i].at <= data'[j].at /\ (data'[j] = Fence(data'[j].at) => data'[i].at < data'[j].at)
    <3> SUFFICES ASSUME NEW i \in DOMAIN Tail(data), NEW j \in DOMAIN Tail(data), i < j
                 PROVE  /\ data[i + 1].at <= data[j + 1].at
                        /\ IsFence(data[j + 1]) => data[i + 1].at < data[j + 1].at
      BY <1>2 DEF IsFence
    <3>1. i + 1 < j + 1 /\ i + 1 \in DOMAIN data /\ j + 1 \in DOMAIN data
      BY <1>2
    <3> QED
      BY <3>1 DEF Queue, Ordered
  <2> QED
    BY <2>1, <2>3 DEF Ordered, IsFence
<1>6. Followed'
  <2> SUFFICES ASSUME NEW i \in DOMAIN Tail(data), NEW n \in 1..typed, n > data[i + 1].at
               PROVE  Unread(n)'
    BY <1>2 DEF Followed
  <2>1. i + 1 \in DOMAIN data /\ 1 < i + 1
    BY <1>2
  <2>2. Unread(n)
    BY <2>1 DEF Queue, Followed
  <2>3. data[1].at <= data[i + 1].at
    BY <2>1, <1>2 DEF Queue, Ordered
  <2>4. data[1].at \in Nat /\ data[i + 1].at \in Nat /\ n \in Nat
    BY <1>2, <1>3, <2>1, <1>1, Kinds
  <2>5. data[1].at # n
    BY <2>3, <2>4
  <2>6. Head(data) # Fence(n)
    BY <2>5, <1>2 DEF Fence
  <2> QED
    BY <2>2, <2>4, <2>6, UnreadAfterReading
<1> QED
  BY <1>4, <1>5, <1>6 DEF Queue

LEMMA QueueAfterTyping == ASSUME Queue, Types PROVE Queue'
<1>1. data \in Seq(Chunk) /\ typed \in Nat /\ taken \in Nat /\ (reader = "fencing" => typed > 0)
      /\ cmds \in Seq(Commands) /\ Len(cmds) <= 1 /\ typed = taken + Len(cmds)
  BY DEF Queue, Shape
<1>2. taken' = taken
  BY DEF Types
<1>3. DOMAIN data = 1..Len(data) /\ \A i \in DOMAIN data : data[i] \in Chunk /\ data[i].at \in Nat
  BY <1>1, LenProperties, ElementOfSeq, Kinds
<1>4. \A n \in 1..typed : Unread(n)' <=> Unread(n)
  BY UnreadAfterTyping
<1>5. ASSUME NEW c \in Chunk, data' = Append(data, c), c.at = typed, typed' = typed, cmds' = cmds,
             IsFence(c) => reader = "fencing",
             reader' # "fencing"
      PROVE  Queue'
  <2>1. /\ Append(data, c) \in Seq(Chunk)
        /\ DOMAIN data = 1..Len(data) /\ Len(data) \in Nat
        /\ DOMAIN Append(data, c) = 1..(Len(data) + 1)
        /\ Append(data, c)[Len(data) + 1] = c
        /\ \A i \in DOMAIN data : Append(data, c)[i] = data[i]
    BY <1>1, AppendTo
  <2>2. Shape'
    BY <1>1, <1>2, <1>5, <2>1 DEF Shape
  <2>3. \A i \in DOMAIN data' : i \in DOMAIN data \/ (i = Len(data) + 1 /\ data'[i] = c)
    BY <1>5, <2>1
  <2>4. Ordered'
    <3>1. \A i \in DOMAIN data' : data'[i].at <= typed'
      BY <1>1, <1>5, <2>1, <2>3 DEF Queue, Ordered
    <3>2. \A i, j \in DOMAIN data' : i < j =>
            data'[i].at <= data'[j].at /\ (IsFence(data'[j]) => data'[i].at < data'[j].at)
      <4> SUFFICES ASSUME NEW i \in DOMAIN data', NEW j \in DOMAIN data', i < j
                   PROVE  data'[i].at <= data'[j].at /\ (IsFence(data'[j]) => data'[i].at < data'[j].at)
        OBVIOUS
      <4>1. i \in DOMAIN data /\ data'[i] = data[i]
        BY <1>5, <2>1, <2>3
      <4>2. CASE j \in DOMAIN data
        BY <1>5, <2>1, <4>1, <4>2 DEF Queue, Ordered
      <4>3. CASE data'[j] = c
        BY <1>5, <4>1, <4>3 DEF Queue, Ordered
      <4> QED
        BY <2>3, <4>2, <4>3
    <3> QED
      BY <1>5, <3>1, <3>2 DEF Ordered, IsFence
  <2>5. Followed'
    <3> SUFFICES ASSUME NEW i \in DOMAIN data', NEW n \in 1..typed, n > data'[i].at PROVE Unread(n)'
      BY <1>5 DEF Followed
    <3>1. i \in DOMAIN data /\ data'[i] = data[i]
      BY <1>1, <1>5, <2>1, <2>3
    <3>2. Unread(n)
      BY <3>1 DEF Queue, Followed
    <3> QED
      BY <3>2, <1>4
  <2> QED
    BY <2>2, <2>4, <2>5 DEF Queue
<1>6. CASE TypeKeys
  <2>1. Key(typed) \in Chunk /\ Key(typed).at = typed /\ ~IsFence(Key(typed))
    BY <1>1 DEF Key, IsFence, Fence, Chunk
  <2> QED
    BY <1>5, <1>6, <2>1 DEF TypeKeys
<1>7. CASE \E o \in Commands : TypeCommand(o)
  <2>1. PICK o \in Commands : TypeCommand(o)
    BY <1>7
  <2>2. /\ cmds = <<>> /\ cmds' = <<o>> /\ typed' = typed + 1 /\ reader = "reading"
        /\ reader' = "fencing" /\ data' = data
    BY <2>1 DEF TypeCommand
  <2>3. <<o>> \in Seq(Commands) /\ Len(<<o>>) = 1 /\ Len(<<>>) = 0
    OBVIOUS
  <2>4. Shape'
    BY <1>1, <1>2, <2>2, <2>3 DEF Shape
  <2>5. Ordered'
    <3>1. \A i \in DOMAIN data : data[i].at < typed + 1
      BY <1>1, <1>3 DEF Queue, Ordered
    <3>2. \A i \in DOMAIN data : data[i].at <= typed + 1
      BY <1>1, <1>3, <3>1
    <3> QED
      BY <2>2, <3>1, <3>2 DEF Queue, Ordered, IsFence
  <2>6. Followed'
    <3>1. \A n \in 1..(typed + 1) : n \in 1..typed \/ n = typed'
      BY <1>1, <2>2
    <3>2. Unread(typed)'
      BY <2>2, UnreadAfterTyping
    <3> QED
      BY <3>1, <3>2, <2>2, <1>4 DEF Followed, Queue
  <2> QED
    BY <2>4, <2>5, <2>6 DEF Queue
<1>8. CASE PutFence
  <2>1. Fence(typed) \in Chunk /\ Fence(typed).at = typed
    BY <1>1 DEF Fence, Chunk
  <2> QED
    BY <1>5, <1>8, <2>1 DEF PutFence
<1>9. CASE TypeEnd
  <2>1. reader = "reading" /\ typed' = typed /\ reader' = "ended" /\ data' = data /\ cmds' = cmds
    BY <1>9 DEF TypeEnd
  <2>2. Shape' /\ Ordered'
    BY <1>2, <2>1 DEF Queue, Shape, Ordered, IsFence
  <2>3. Followed'
    BY <1>4, <2>1 DEF Queue, Followed
  <2> QED
    BY <2>2, <2>3 DEF Queue
<1> QED
  BY <1>6, <1>7, <1>8, <1>9 DEF Types

LEMMA QueueKept ==
    ASSUME Queue, Rests \/ Types \/ Reads \/ Takes \/ ReadsAndTakes
    PROVE  Queue'
<1>1. /\ taken \in Nat /\ typed \in Nat /\ cmds \in Seq(Commands) /\ Len(cmds) <= 1
      /\ typed = taken + Len(cmds)
  BY DEF Queue, Shape
<1>2. ASSUME cmds # <<>>, cmds' = <<>>, taken' = taken + 1
      PROVE  cmds' \in Seq(Commands) /\ Len(cmds') <= 1 /\ taken' \in Nat /\ typed = taken' + Len(cmds')
  <2>1. Len(cmds) \in Nat \ {0} /\ <<>> \in Seq(Commands) /\ Len(<<>>) = 0
    BY <1>1, <1>2, EmptySeq
  <2>2. Len(cmds) = 1
    BY SMTT(30), <1>1, <2>1
  <2> QED
    BY <1>1, <1>2, <2>1, <2>2
<1>3. CASE Rests
  BY <1>3 DEF Rests, Queue, Shape, Ordered, Followed, Unread, IsFence
<1>4. CASE Types
  BY <1>4, QueueAfterTyping
<1>5. CASE Reads
  <2>1. cmds' \in Seq(Commands) /\ Len(cmds') <= 1 /\ taken' \in Nat /\ typed = taken' + Len(cmds')
    BY <1>1, <1>5 DEF Reads
  <2> QED
    BY <1>5, <2>1, QueueAfterReading DEF Reads
<1>6. CASE Takes
  <2>1. cmds' \in Seq(Commands) /\ Len(cmds') <= 1 /\ taken' \in Nat /\ typed = taken' + Len(cmds')
    BY <1>2, <1>6 DEF Takes
  <2>2. UNCHANGED <<reader, data, typed>>
    BY <1>6 DEF Takes
  <2>3. Shape' /\ Ordered'
    BY <2>1, <2>2 DEF Queue, Shape, Ordered, IsFence
  <2>4. Followed'
    BY <2>2, UnreadAfterTaking DEF Queue, Followed
  <2> QED
    BY <2>3, <2>4 DEF Queue
<1>7. CASE ReadsAndTakes
  <2>1. cmds' \in Seq(Commands) /\ Len(cmds') <= 1 /\ taken' \in Nat /\ typed = taken' + Len(cmds')
    BY <1>2, <1>7 DEF ReadsAndTakes
  <2> QED
    BY <1>7, <2>1, QueueAfterReading DEF ReadsAndTakes
<1> QED
  BY <1>3, <1>4, <1>5, <1>6, <1>7

----------------------------------------------------------------------------
(* What a step makes of the pairing of commands and fences. *)

Sessions == {"session", "drain"}
Outside == at \notin Sessions /\ at' \notin Sessions /\ fenced' = fenced

Quiet ==
    /\ Rests /\ loose' = loose /\ sent' = sent
    /\ \/ UNCHANGED <<at, fenced, era>>
       \/ Outside
       \/ at = "attach" /\ at' = "session" /\ era' = taken /\ fenced' = fenced

JustTypes == Types /\ UNCHANGED <<at, fenced, era, loose, sent>>

\* A prompt reads a chunk, or takes a command.
PromptReads ==
    /\ Outside /\ sent' = sent /\ Reads
    /\ \/ loose' = loose /\ ~Head(data).fence
       \/ Skips(Head(data))
       \/ cmds = <<>> /\ Parts({})
PromptTakes == Outside /\ sent' = sent /\ (Takes \/ ReadsAndTakes) /\ Parts({taken + 1})

LEMMA StepKinds ==
    ASSUME [Next]_vars
    PROVE  \/ Quiet \/ JustTypes \/ PromptReads \/ PromptTakes
           \/ OutputEnds \/ SendKeys \/ SeeFence \/ TakeCommand
           \/ DrainKeys \/ DrainFence \/ DrainLate
<1> USE DEF ghosts, plan, local, again, place, link, daemon, keyboard
<1>1. CASE UNCHANGED vars
  BY <1>1 DEF vars, Quiet, Rests
<1>2. CASE User
  BY <1>2 DEF User, JustTypes, Types
<1>3. CASE World
  BY ZenonT(60), <1>3
     DEF World, ServiceEnds, RenamedElsewhere, DaemonGoes, DaemonComes, Happens, Quiet, Rests
<1>4. CASE Session
  <2>1. CASE PumpRenamed
    BY <2>1 DEF PumpRenamed, Quiet, Rests
  <2>2. CASE TerminalEnds
    BY <2>2 DEF TerminalEnds, InSession, Quiet, Rests
  <2> QED
    BY <1>4, <2>1, <2>2 DEF Session
<1>5. CASE Dispatch
  <2> USE DEF Quiet, Rests, Outside, Sessions, Does, Stay, GoTo, Again, Over
  <2>1. CASE Detach \/ Redraw \/ StayOnDead \/ Reattach \/ AskOpens \/ RemoveLooks \/ FinishLooks
    BY <2>1 DEF Detach, Redraw, StayOnDead, Reattach, AskOpens, RemoveLooks, FinishLooks
  <2>2. CASE \E forward \in BOOLEAN : Switch(forward)
    BY <2>2 DEF Switch
  <2>3. CASE \E i \in 1..9 : GoToTab(i)
    BY <2>3 DEF GoToTab
  <2>4. CASE \E right \in BOOLEAN : Move(right)
    BY <2>4 DEF Move
  <2>5. CASE Revive \/ Create
    BY <2>5 DEF Revive, Create
  <2>6. CASE Remove \/ Finish
    BY <2>6 DEF Remove, Finish
  <2>7. CASE ListOpens
    BY <2>7 DEF ListOpens
  <2> QED
    BY <1>5, <2>1, <2>2, <2>3, <2>4, <2>5, <2>6, <2>7 DEF Dispatch
<1>6. CASE Prompts
  <2> USE DEF Prompt, Read, Reads, Outside, Sessions, GoTo, Again, Stay
  <2>1. CASE Pick \/ AskReads \/ DeadReads
    BY <2>1 DEF Pick, AskReads, DeadReads, PromptReads
  <2>2. CASE PickTimesOut
    BY <2>2 DEF PickTimesOut, Quiet, Rests
  <2>3. CASE PickCommand \/ AskCommand \/ DeadCommand
    BY <2>3 DEF PickCommand, AskCommand, DeadCommand, HandsOver, Take, Takes, PromptTakes
  <2>4. CASE PickFence
    BY <2>4 DEF PickFence, PromptReads, PromptTakes, ReadsAndTakes
  <2>5. CASE \E m \in Service : AskRenames(m)
    BY <2>5 DEF AskRenames, PromptReads
  <2>6. CASE AskEnds
    BY <2>6 DEF AskEnds, PromptReads, Quiet, Rests
  <2> QED
    BY <1>6, <2>1, <2>2, <2>3, <2>4, <2>5, <2>6 DEF Prompts
<1>7. CASE Loop
  BY <1>7 DEF Loop, Top, Redialled, Returns, GivesUp, Look, Attach, Quiet, Rests, Outside, Sessions, Over
<1> QED
  BY <1>1, <1>2, <1>3, <1>4, <1>5, <1>6, <1>7 DEF Next

\* What happens to the queue and to the commands, whatever kind of step it is.
LEMMA KeyboardSteps ==
    ASSUME [Next]_vars
    PROVE  Rests \/ Types \/ Reads \/ Takes \/ ReadsAndTakes
<1>1. CASE Quiet \/ JustTypes \/ PromptReads \/ PromptTakes
  BY <1>1 DEF Quiet, JustTypes, PromptReads, PromptTakes
<1>2. CASE OutputEnds
  BY <1>2 DEF OutputEnds, keyboard, Rests
<1>3. CASE SendKeys
  BY <1>3 DEF SendKeys, Listening, Read, Reads
<1>4. CASE SeeFence
  BY <1>4 DEF SeeFence, Listening, Read, Reads
<1>5. CASE TakeCommand
  BY <1>5 DEF TakeCommand, Take, Takes
<1>6. CASE DrainKeys
  BY <1>6 DEF DrainKeys, Read, Reads
<1>7. CASE DrainFence
  BY <1>7 DEF DrainFence, Read, Reads
<1>8. CASE DrainLate
  BY <1>8 DEF DrainLate, keyboard, Rests
<1> QED
  BY StepKinds, <1>1, <1>2, <1>3, <1>4, <1>5, <1>6, <1>7, <1>8

\* What a step adds to `loose` stays there until both halves have been read.
LEMMA Settles ==
    ASSUME Queue, PartedAreLoose, typed' = typed, at' # "drain", NEW ns, Parts(ns),
           \A n \in 1..typed : Parted(n)' =>
               (Parted(n) /\ ~Underway(n)) \/ n \in ns \/ Underway(n)'
    PROVE  PartedAreLoose'
<1> SUFFICES ASSUME NEW n \in 1..typed, Parted(n)', ~Underway(n)'
             PROVE  n \in loose'
  BY DEF PartedAreLoose
<1>1. n \in loose \cup ns
  BY DEF PartedAreLoose
<1>2. n > taken' \/ Unread(n)'
  BY DEF Parted
<1> QED
  BY <1>1, <1>2 DEF Parts

\* Away from a session nothing but the pairs themselves is left to say.
LEMMA OutsideSessions ==
    ASSUME at' \notin Sessions, ~fenced'
    PROVE  FencedByItsOwn' /\ DrainsToItsOwn' /\ Since'
  BY DEF Sessions, FencedByItsOwn, DrainsToItsOwn, Since

\* Reading a key parts nothing, and joins nothing.
LEMMA KeyIsNoFence ==
    ASSUME Queue, Reads, ~Head(data).fence
    PROVE  \A n \in Nat : (Unread(n)' <=> Unread(n)) /\ (Parted(n)' <=> Parted(n))
<1>1. data \in Seq(Chunk)
  BY DEF Queue, Shape
<1>2. Head(data) \in Chunk
  BY <1>1, TailOf DEF Reads
<1>3. \A n : Head(data) # Fence(n)
  BY <1>2 DEF Fence
<1>4. \A n \in Nat : Unread(n)' <=> Unread(n)
  BY <1>3, UnreadAfterReading DEF Reads
<1> QED
  BY <1>4 DEF Parted, Reads

\* Reading a fence parts its command from it, or joins the two, and no other.
LEMMA FenceReadOnce ==
    ASSUME Queue, Reads \/ ReadsAndTakes, Head(data).fence
    PROVE  \E h \in 0..typed :
              /\ Head(data).at = h /\ ~Unread(h)'
              /\ \A n \in Nat : n # h => (Unread(n)' <=> Unread(n))
              /\ h > 0 => Unread(h)
<1>1. data \in Seq(Chunk) /\ typed \in Nat
  BY DEF Queue, Shape
<1>2. data # <<>> /\ data' = Tail(data) /\ UNCHANGED <<reader, typed>>
  BY DEF Reads, ReadsAndTakes
<1>3. Head(data) \in Chunk /\ Head(data) = data[1] /\ 1 \in DOMAIN data
  BY <1>1, <1>2, TailOf
<1> DEFINE h == Head(data).at
<1>4. h \in Nat /\ h <= typed /\ Head(data) = Fence(h)
  BY <1>3, Kinds DEF IsFence, Queue, Ordered
<1>5. \A n : Head(data) = Fence(n) => n = h
  BY <1>3, Kinds
<1>6. \A n \in Nat : Unread(n)' <=> Unread(n) /\ Head(data) # Fence(n)
  BY <1>2, UnreadAfterReading
<1>7. h > 0 => Unread(h)
  BY <1>3, <1>4, UnreadIs
<1> HIDE DEF h
<1>8. /\ \A n \in Nat : n # h => (Unread(n)' <=> Unread(n))
      /\ \A n \in Nat : n = h => ~Unread(n)'
  BY <1>4, <1>5, <1>6
<1>9. h \in 0..typed /\ Head(data).at = h
  BY <1>1, <1>4 DEF h
<1>10. PICK k \in 0..typed : k = h
  BY <1>9
<1>11. Head(data).at = k /\ ~Unread(k)' /\ (k > 0 => Unread(k))
       /\ \A n \in Nat : n # k => (Unread(n)' <=> Unread(n))
  BY <1>1, <1>7, <1>8, <1>9, <1>10
<1> QED
  BY <1>11

\* One command waits, or none.
LEMMA Waiting ==
    ASSUME Queue
    PROVE  /\ taken \in Nat /\ typed \in Nat
           /\ cmds = <<>> => typed = taken
           /\ cmds # <<>> => typed = taken + 1
<1>1. /\ taken \in Nat /\ typed \in Nat /\ cmds \in Seq(Commands) /\ Len(cmds) <= 1
      /\ typed = taken + Len(cmds)
  BY DEF Queue, Shape
<1>2. cmds # <<>> => Len(cmds) \in Nat \ {0}
  BY <1>1, EmptySeq
<1>3. cmds = <<>> => Len(cmds) = 0
  OBVIOUS
<1> QED
  BY <1>1, <1>2, <1>3

----------------------------------------------------------------------------
(* The pairing is kept: one lemma for each kind of step. *)

LEMMA QuietKeeps == ASSUME Queue, Pairing, Quiet PROVE Pairing'
<1>1. UNCHANGED <<taken, typed, cmds, loose>> /\ \A n : Unread(n)' <=> Unread(n)
  BY DEF Quiet, Rests, Unread
<1>2. \A n : Parted(n)' <=> Parted(n)
  BY <1>1 DEF Parted
<1>3. CASE UNCHANGED <<at, fenced, era>>
  <2>1. PartedAreLoose'
    BY <1>1, <1>2, <1>3 DEF Pairing, PartedAreLoose, Underway
  <2>2. FencedByItsOwn' /\ DrainsToItsOwn' /\ Since'
    BY <1>1, <1>3 DEF Pairing, FencedByItsOwn, DrainsToItsOwn, Since, Unread, Quiet, Rests
  <2> QED
    BY <2>1, <2>2 DEF Pairing
<1>4. ASSUME at \notin Sessions, fenced' = fenced PROVE ~fenced' /\ PartedAreLoose'
  BY <1>1, <1>2, <1>4 DEF Pairing, FencedByItsOwn, PartedAreLoose, Underway, Sessions
<1>5. CASE Outside
  BY <1>4, <1>5, OutsideSessions DEF Outside, Pairing
<1>6. CASE at = "attach" /\ at' = "session" /\ era' = taken /\ fenced' = fenced
  BY <1>1, <1>4, <1>6 DEF Pairing, Sessions, FencedByItsOwn, DrainsToItsOwn, Since
<1> QED
  BY <1>3, <1>5, <1>6 DEF Quiet

LEMMA TypingKeeps == ASSUME Queue, Pairing, JustTypes PROVE Pairing'
<1>1. /\ taken' = taken /\ UNCHANGED <<at, fenced, era, loose>>
      /\ typed' \in {typed, typed + 1} /\ \A n \in 1..typed : Unread(n)' <=> Unread(n)
      /\ typed' = typed + 1 => Unread(typed)'
  BY UnreadAfterTyping DEF JustTypes, Types
<1>2. taken \in Nat /\ typed \in Nat /\ taken <= typed
  BY Waiting
<1>3. PartedAreLoose'
  <2> SUFFICES ASSUME NEW n \in 1..typed', Parted(n)' PROVE n \in loose' \/ Underway(n)'
    BY DEF PartedAreLoose
  <2>1. CASE n \in 1..typed
    BY <1>1, <2>1 DEF Pairing, PartedAreLoose, Parted, Underway
  <2>2. CASE n \notin 1..typed
    <3>1. n = typed' /\ typed' = typed + 1 /\ n > taken'
      BY <1>1, <1>2, <2>2
    <3> QED
      BY <1>1, <3>1 DEF Parted
  <2> QED
    BY <2>1, <2>2
<1>4. FencedByItsOwn'
  <2> SUFFICES ASSUME fenced
               PROVE  at = "session" /\ cmds' # <<>> /\ (Unread(taken + 1)' => taken + 1 \in loose)
    BY <1>1 DEF FencedByItsOwn
  <2>1. at = "session" /\ cmds # <<>> /\ (Unread(taken + 1) => taken + 1 \in loose)
    BY DEF Pairing, FencedByItsOwn
  <2>2. PICK n \in 1..typed : n = taken + 1
    BY <2>1, <1>2, Waiting
  <2>3. Unread(n)' <=> Unread(n)
    BY <1>1
  <2>4. cmds' # <<>>
    BY <2>1 DEF JustTypes, Types, TypeKeys, TypeCommand, PutFence, TypeEnd
  <2>5. (taken + 1)' = n
    BY <1>1, <2>2
  <2> QED
    BY <2>1, <2>2, <2>3, <2>4, <2>5
<1>5. DrainsToItsOwn'
  <2> SUFFICES ASSUME at = "drain" PROVE taken' > 0 /\ (loose = {} => Unread(taken)')
    BY <1>1 DEF DrainsToItsOwn
  <2>1. PICK n \in 1..typed : n = taken
    BY <1>2 DEF Pairing, DrainsToItsOwn
  <2>2. Unread(n)' <=> Unread(n)
    BY <1>1
  <2> QED
    BY <1>1, <2>1, <2>2 DEF Pairing, DrainsToItsOwn
<1>6. Since'
  BY <1>1 DEF Pairing, Since
<1> QED
  BY <1>3, <1>4, <1>5, <1>6 DEF Pairing

LEMMA PromptReadingKeeps == ASSUME Queue, Pairing, PromptReads PROVE Pairing'
<1>1. /\ Reads /\ typed' = typed /\ taken' = taken /\ cmds' = cmds
      /\ at \notin Sessions /\ at' \notin Sessions /\ fenced' = fenced
  BY DEF PromptReads, Outside, Reads
<1>2. ~fenced /\ ~fenced' /\ \A n : ~Underway(n) /\ ~Underway(n)'
  BY <1>1 DEF Pairing, FencedByItsOwn, Underway, Sessions
<1>3. FencedByItsOwn' /\ DrainsToItsOwn' /\ Since'
  BY <1>1, <1>2, OutsideSessions
<1>4. taken \in Nat /\ typed \in Nat /\ (cmds = <<>> => typed = taken)
  BY Waiting
<1>5. at' # "drain"
  BY <1>1 DEF Sessions
<1>8. Queue /\ PartedAreLoose
  BY DEF Pairing
<1> SUFFICES PartedAreLoose'
  BY <1>3 DEF Pairing
<1>6. CASE ~Head(data).fence
  <2>1. \A n \in 1..typed : Parted(n)' <=> Parted(n)
    BY <1>1, <1>6, KeyIsNoFence
  <2>2. CASE loose' = loose
    <3> SUFFICES ASSUME NEW n \in 1..typed, Parted(n)' PROVE n \in loose
      BY <1>1, <2>2 DEF PartedAreLoose
    <3> QED
      BY <1>2, <2>1 DEF Pairing, PartedAreLoose
  <2>3. CASE Parts({})
    <3>1. \A n \in 1..typed : Parted(n)' =>
            (Parted(n) /\ ~Underway(n)) \/ n \in {} \/ Underway(n)'
      BY <1>2, <2>1
    <3> QED
      BY <1>1, <1>5, <1>8, <2>3, <3>1, Settles
  <2>4. Skips(Head(data)) => Parts({})
    BY <1>6 DEF Skips
  <2> QED
    BY <2>2, <2>3, <2>4 DEF PromptReads
<1>7. CASE Head(data).fence
  <2>1. PICK h \in 0..typed :
          /\ Head(data).at = h /\ ~Unread(h)'
          /\ \A n \in Nat : n # h => (Unread(n)' <=> Unread(n))
    BY <1>1, <1>7, FenceReadOnce
  <2>2. \A n \in 1..typed : n # h => (Parted(n)' <=> Parted(n))
    BY <1>1, <1>4, <2>1 DEF Parted
  <2>3. \A n \in 1..typed : n = h /\ Parted(n)' => h > taken
    BY <1>1, <1>4, <2>1 DEF Parted
  <2>4. CASE Skips(Head(data))
    <3>1. PICK ns : Parts(ns) /\ (h > taken => h \in ns)
      BY <1>7, <2>1, <2>4 DEF Skips
    <3>2. \A n \in 1..typed : Parted(n)' =>
            (Parted(n) /\ ~Underway(n)) \/ n \in ns \/ Underway(n)'
      BY <1>2, <2>2, <2>3, <3>1
    <3> QED
      BY <1>1, <1>5, <1>8, <3>1, <3>2, Settles
  <2>5. CASE cmds = <<>> /\ Parts({})
    <3>1. ~(h > taken)
      BY <1>4, <2>1, <2>5
    <3>2. \A n \in 1..typed : Parted(n)' =>
            (Parted(n) /\ ~Underway(n)) \/ n \in {} \/ Underway(n)'
      BY <1>2, <2>2, <2>3, <3>1
    <3> QED
      BY <1>1, <1>5, <1>8, <2>5, <3>2, Settles
  <2> QED
    BY <1>7, <2>4, <2>5 DEF PromptReads
<1> QED
  BY <1>6, <1>7

LEMMA PromptTakingKeeps == ASSUME Queue, Pairing, PromptTakes PROVE Pairing'
<1>1. /\ typed' = typed /\ taken' = taken + 1 /\ Parts({taken + 1})
      /\ at \notin Sessions /\ at' \notin Sessions /\ fenced' = fenced
  BY DEF PromptTakes, Outside, Takes, ReadsAndTakes
<1>2. ~fenced /\ ~fenced' /\ \A n : ~Underway(n) /\ ~Underway(n)'
  BY <1>1 DEF Pairing, FencedByItsOwn, Underway, Sessions
<1>3. FencedByItsOwn' /\ DrainsToItsOwn' /\ Since'
  BY <1>1, <1>2, OutsideSessions
<1>4. taken \in Nat /\ typed = taken + 1
  BY Waiting DEF PromptTakes, Takes, ReadsAndTakes
<1>5. \A n \in 1..typed : n # taken + 1 /\ Parted(n)' => Parted(n)
  <2> SUFFICES ASSUME NEW n \in 1..typed, n # taken + 1, Parted(n)' PROVE Parted(n)
    OBVIOUS
  <2>1. n <= taken /\ n \in Nat /\ Unread(n)'
    BY <1>1, <1>4 DEF Parted
  <2>2. Unread(n)
    <3>1. CASE Takes
      BY <3>1, <2>1, UnreadAfterTaking DEF Takes
    <3>2. CASE ReadsAndTakes
      BY <3>2, <2>1, UnreadAfterReading DEF ReadsAndTakes
    <3> QED
      BY <3>1, <3>2 DEF PromptTakes
  <2> QED
    BY <1>4, <2>1, <2>2 DEF Parted
<1>6. at' # "drain"
  BY <1>1 DEF Sessions
<1>7. \A n \in 1..typed : Parted(n)' =>
        (Parted(n) /\ ~Underway(n)) \/ n \in {taken + 1} \/ Underway(n)'
  BY <1>2, <1>5
<1>8. PartedAreLoose
  BY DEF Pairing
<1> QED
  BY <1>1, <1>3, <1>6, <1>7, <1>8, Settles DEF Pairing

\* The output ends while a command's fence has been read, or between two commands.
LEMMA OutputEndsKeeps == ASSUME Queue, Pairing, OutputEnds PROVE Pairing'
<1>1. /\ Rests /\ at = "session" /\ at' \notin Sessions /\ ~fenced'
      /\ Parts(IF fenced THEN {taken + 1} ELSE {})
  BY DEF OutputEnds, InSession, keyboard, Rests, Over, Leave, Forget, Sessions
<1>2. typed' = typed /\ at' # "drain" /\ Queue /\ PartedAreLoose
  BY <1>1 DEF Rests, Sessions, Pairing
<1>3. \A n : Parted(n)' <=> Parted(n)
  BY <1>1 DEF Rests, Parted, Unread
<1>4. \A n : Underway(n) => fenced /\ n = taken + 1
  BY <1>1 DEF Underway
<1>5. \A n \in 1..typed : Parted(n)' =>
        \/ Parted(n) /\ ~Underway(n)
        \/ n \in (IF fenced THEN {taken + 1} ELSE {})
        \/ Underway(n)'
  BY <1>3, <1>4
<1>6. PartedAreLoose'
  BY <1>1, <1>2, <1>5, Settles
<1> QED
  BY <1>1, <1>6, OutsideSessions DEF Pairing

LEMMA SendKeysKeeps == ASSUME Queue, Pairing, SendKeys PROVE Pairing'
<1>1. /\ Reads /\ ~Head(data).fence /\ at = "session" /\ ~fenced
      /\ UNCHANGED <<taken, loose, era>>
  BY DEF SendKeys, InSession, Listening, Read, Reads
<1>2. at' \in {"session", "act", "over"} /\ ~fenced'
  BY <1>1 DEF SendKeys, Leave, Forget, Over, InSession
<1>3. \A n \in 1..typed : Parted(n)' <=> Parted(n)
  BY <1>1, KeyIsNoFence
<1>4. \A n : ~Underway(n) /\ ~Underway(n)'
  BY <1>1, <1>2 DEF Underway
<1>5. typed' = typed
  BY <1>1 DEF Reads
<1>6. PartedAreLoose'
  BY <1>1, <1>3, <1>4, <1>5 DEF Pairing, PartedAreLoose
<1>7. FencedByItsOwn' /\ DrainsToItsOwn' /\ Since'
  BY <1>1, <1>2 DEF Pairing, FencedByItsOwn, DrainsToItsOwn, Since
<1> QED
  BY <1>6, <1>7 DEF Pairing

\* With a command waiting the fence is its own, or its command is loose from here on.
LEMMA SeeFenceKeeps == ASSUME Queue, Pairing, SeeFence PROVE Pairing'
<1> DEFINE ns == IF cmds # <<>> /\ Head(data).at # taken + 1 THEN {taken + 1} ELSE {}
<1>1. /\ Reads /\ Head(data).fence /\ at = "session" /\ at' = "session" /\ ~fenced
      /\ Parts(ns) /\ fenced' = (cmds # <<>>) /\ UNCHANGED <<taken, typed, cmds, era>>
  BY DEF SeeFence, InSession, Listening, Read, Reads
<1>2. taken \in Nat /\ typed \in Nat /\ (cmds = <<>> => typed = taken)
      /\ (cmds # <<>> => typed = taken + 1)
  BY Waiting
<1>3. PICK h \in 0..typed :
        /\ Head(data).at = h /\ ~Unread(h)'
        /\ \A n \in Nat : n # h => (Unread(n)' <=> Unread(n))
  BY <1>1, FenceReadOnce
<1>4. ns = IF cmds # <<>> /\ h # taken + 1 THEN {taken + 1} ELSE {}
  BY <1>3
<1> HIDE DEF ns
<1>5. \A n \in 1..typed : n # h /\ Parted(n)' => Parted(n) /\ ~Underway(n)
  BY <1>1, <1>2, <1>3 DEF Parted, Underway
<1>6. \A n \in 1..typed : n = h /\ Parted(n)' => cmds # <<>> /\ n = taken + 1
  BY <1>1, <1>2, <1>3 DEF Parted
<1>7. cmds # <<>> => Underway(taken + 1)'
  BY <1>1 DEF Underway
<1>8. \A n \in 1..typed : Parted(n)' =>
        (Parted(n) /\ ~Underway(n)) \/ n \in ns \/ Underway(n)'
  BY <1>1, <1>5, <1>6 DEF Underway
<1>9. at' # "drain" /\ Queue /\ PartedAreLoose
  BY <1>1 DEF Pairing
<1>10. PartedAreLoose'
  BY <1>1, <1>8, <1>9, Settles
<1>11. FencedByItsOwn'
  <2> SUFFICES ASSUME cmds # <<>> PROVE Unread(taken + 1)' => (taken + 1)' \in loose'
    BY <1>1 DEF FencedByItsOwn
  <2>1. PICK n \in 1..typed : n = taken + 1 /\ (taken + 1)' = n
    BY <1>1, <1>2
  <2>2. CASE h = n
    BY <1>3, <2>1, <2>2
  <2>3. CASE h # n
    <3>1. n \in ns
      BY <1>4, <2>1, <2>3
    <3>2. n > taken'
      BY <1>1, <1>2, <2>1
    <3> QED
      BY <1>1, <2>1, <3>1, <3>2 DEF Parts
  <2> QED
    BY <2>2, <2>3
<1>12. DrainsToItsOwn' /\ Since'
  BY <1>1 DEF Pairing, DrainsToItsOwn, Since
<1> QED
  BY <1>10, <1>11, <1>12 DEF Pairing

\* A command taken unfenced has its fence still to come, or is loose.
LEMMA TakeCommandKeeps == ASSUME Queue, Pairing, TakeCommand PROVE Pairing'
<1>1. /\ Takes /\ at = "session" /\ Parts({}) /\ UNCHANGED era
      /\ taken' = taken + 1 /\ typed' = typed /\ cmds # <<>>
      /\ UNCHANGED <<reader, data>>
  BY DEF TakeCommand, InSession, Take, Takes
<1>2. taken \in Nat /\ typed = taken + 1
  BY <1>1, Waiting
<1>3. \A n : Unread(n)' <=> Unread(n)
  BY <1>1, UnreadAfterTaking
<1>4. PICK m \in 1..typed : m = taken + 1
  BY <1>2
<1>5. \A n \in 1..typed : n # m => (Parted(n)' <=> Parted(n))
  BY <1>1, <1>2, <1>3, <1>4 DEF Parted
<1>6. \A n \in 1..typed : n # m => ~Underway(n)
  BY <1>1, <1>4 DEF Underway
<1>7. CASE fenced
  <2>1. at' = "act" /\ ~fenced'
    BY <1>7 DEF TakeCommand, Leave, Forget
  <2>2. Unread(m) => m \in loose
    BY <1>4, <1>7 DEF Pairing, FencedByItsOwn
  <2>3. PartedAreLoose'
    <3> SUFFICES ASSUME NEW n \in 1..typed, Parted(n)' PROVE n \in loose'
      BY <1>1 DEF PartedAreLoose
    <3>1. n \in loose
      <4>1. CASE n = m
        BY <1>1, <1>2, <1>3, <1>4, <2>2, <4>1 DEF Parted
      <4>2. CASE n # m
        BY <1>5, <1>6, <4>2 DEF Pairing, PartedAreLoose
      <4> QED
        BY <4>1, <4>2
    <3>2. n > taken' \/ Unread(n)'
      BY DEF Parted
    <3> QED
      BY <1>1, <3>1, <3>2 DEF Parts
  <2> QED
    BY <2>1, <2>3, OutsideSessions DEF Pairing, Sessions
<1>8. CASE ~fenced
  <2>1. at' = "drain" /\ fenced' = fenced
    BY <1>8 DEF TakeCommand
  <2>2. loose \subseteq loose' /\ loose' \subseteq loose
    BY <1>1, <2>1 DEF Parts
  <2>3. \A n \in 1..typed : ~Underway(n)
    BY <1>1, <1>8 DEF Underway
  <2>4. PartedAreLoose'
    <3> SUFFICES ASSUME NEW n \in 1..typed, Parted(n)', ~Underway(n)' PROVE n \in loose'
      BY <1>1 DEF PartedAreLoose
    <3>1. n # m
      BY <1>1, <1>4, <2>1 DEF Underway
    <3> QED
      BY <1>5, <2>2, <2>3, <3>1 DEF Pairing, PartedAreLoose
  <2>5. loose' = {} => Unread(m)
    <3>1. Parted(m) => m \in loose
      BY <2>3 DEF Pairing, PartedAreLoose
    <3> QED
      BY <1>2, <1>4, <2>2, <3>1 DEF Parted
  <2>6. DrainsToItsOwn'
    <3>1. Unread(m)' /\ taken' = m => Unread(taken)'
      OBVIOUS
    <3> QED
      BY <1>1, <1>2, <1>3, <1>4, <2>5, <3>1 DEF DrainsToItsOwn
  <2>7. FencedByItsOwn' /\ Since'
    BY <1>1, <1>2, <1>8, <2>1 DEF Pairing, FencedByItsOwn, Since
  <2> QED
    BY <2>4, <2>6, <2>7 DEF Pairing
<1> QED
  BY <1>7, <1>8

LEMMA DrainKeysKeeps == ASSUME Queue, Pairing, DrainKeys PROVE Pairing'
<1>1. /\ Reads /\ ~Head(data).fence /\ at = "drain" /\ at' = "drain"
      /\ UNCHANGED <<taken, typed, loose, era, fenced>>
  BY DEF DrainKeys, InSession, Read, Reads
<1>2. \A n \in Nat : (Unread(n)' <=> Unread(n)) /\ (Parted(n)' <=> Parted(n))
  BY <1>1, KeyIsNoFence
<1>3. PartedAreLoose'
  BY <1>1, <1>2 DEF Pairing, PartedAreLoose, Underway
<1>4. DrainsToItsOwn'
  <2>1. PICK n \in Nat : n = taken
    BY Waiting
  <2> QED
    BY <1>1, <1>2, <2>1 DEF Pairing, DrainsToItsOwn
<1>5. FencedByItsOwn' /\ Since'
  BY <1>1 DEF Pairing, FencedByItsOwn, Since
<1> QED
  BY <1>3, <1>4, <1>5 DEF Pairing

LEMMA DrainFenceKeeps == ASSUME Queue, Pairing, DrainFence PROVE Pairing'
<1> DEFINE ns == IF Head(data).at # taken THEN {taken, Head(data).at} ELSE {}
<1>1. /\ Reads /\ Head(data).fence /\ at = "drain" /\ at' = "act" /\ ~fenced'
      /\ Parts(ns) /\ UNCHANGED <<taken, typed>>
  BY DEF DrainFence, InSession, Read, Reads, Leave, Forget
<1>2. taken \in Nat /\ typed \in Nat
  BY Waiting
<1>3. PICK h \in 0..typed :
        /\ Head(data).at = h /\ ~Unread(h)'
        /\ \A n \in Nat : n # h => (Unread(n)' <=> Unread(n))
  BY <1>1, FenceReadOnce
<1>4. ns = IF h # taken THEN {taken, h} ELSE {}
  BY <1>3
<1> HIDE DEF ns
<1>5. \A n \in 1..typed : n # h /\ n # taken /\ Parted(n)' => Parted(n) /\ ~Underway(n)
  BY <1>1, <1>2, <1>3 DEF Parted, Underway
<1>6. \A n \in 1..typed : n = taken /\ Parted(n)' => n \in ns
  BY <1>1, <1>2, <1>3, <1>4 DEF Parted
<1>7. \A n \in 1..typed : n = h /\ Parted(n)' => n \in ns
  BY <1>1, <1>2, <1>3, <1>4 DEF Parted
<1>8. \A n \in 1..typed : Parted(n)' =>
        (Parted(n) /\ ~Underway(n)) \/ n \in ns \/ Underway(n)'
  BY <1>5, <1>6, <1>7
<1>9. at' # "drain" /\ Queue /\ PartedAreLoose
  BY <1>1 DEF Pairing
<1>10. PartedAreLoose'
  BY <1>1, <1>8, <1>9, Settles
<1> QED
  BY <1>1, <1>10, OutsideSessions DEF Pairing, Sessions

LEMMA DrainLateKeeps == ASSUME Queue, Pairing, DrainLate PROVE Pairing'
<1>1. /\ Rests /\ at = "drain" /\ at' = "act" /\ ~fenced' /\ Parts({taken})
  BY DEF DrainLate, InSession, keyboard, Rests, Leave, Forget
<1>2. typed' = typed /\ at' # "drain" /\ Queue /\ PartedAreLoose
  BY <1>1 DEF Rests, Pairing
<1>3. \A n : Parted(n)' <=> Parted(n)
  BY <1>1 DEF Rests, Parted, Unread
<1>4. \A n \in 1..typed : Parted(n)' =>
        (Parted(n) /\ ~Underway(n)) \/ n \in {taken} \/ Underway(n)'
  BY <1>1, <1>3 DEF Underway
<1>5. PartedAreLoose'
  BY <1>1, <1>2, <1>4, Settles
<1> QED
  BY <1>1, <1>5, OutsideSessions DEF Pairing, Sessions

----------------------------------------------------------------------------
(* Where keys go. *)

\* With no command loose, a key at the head of the queue was typed after the
\* commands this session began after, and before any other.
LEMMA HeadIsForTheSession ==
    ASSUME Queue, Pairing, data # <<>>, ~Head(data).fence, loose = {},
           (at = "session" /\ ~fenced) \/ at = "drain"
    PROVE  Head(data).at = era
<1>1. data \in Seq(Chunk) /\ typed \in Nat
  BY DEF Queue, Shape
<1>2. /\ Head(data) = data[1] /\ 1 \in DOMAIN data /\ Head(data) \in Chunk
      /\ DOMAIN data = 1..Len(data) /\ Len(data) \in Nat
  BY <1>1, TailOf
<1>3. PICK k \in 0..typed : k = Head(data).at /\ (reader = "fencing" => k < typed)
  BY <1>1, <1>2, Kinds DEF Queue, Ordered
<1>4. taken \in Nat /\ typed \in {taken, taken + 1}
  BY Waiting
<1>5. ~Unread(k)
  <2>1. ASSUME NEW i \in DOMAIN data, data[i] = Fence(k) PROVE FALSE
    <3>1. data[i] \in Chunk
      BY <1>1, <1>2, ElementOfSeq
    <3>2. IsFence(data[i]) /\ data[i].at = k
      BY <2>1, <3>1, Kinds DEF IsFence
    <3>3. i # 1
      BY <1>2, <2>1, <3>1, <3>2, Kinds
    <3>4. 1 < i
      BY <1>2, <3>3
    <3>5. data[1].at < data[i].at
      BY <1>2, <3>2, <3>4 DEF Queue, Ordered
    <3> QED
      BY <1>2, <1>3, <3>2, <3>5
  <2> QED
    BY <1>1, <1>3, <2>1, UnreadIs
<1>6. \A n \in 1..typed : n > k => Unread(n)
  BY <1>2, <1>3 DEF Queue, Followed
<1>7. \A n \in 1..typed : Parted(n) => Underway(n)
  BY DEF Pairing, PartedAreLoose
<1>8. CASE at = "session" /\ ~fenced
  <2>1. \A n \in 1..typed : ~Parted(n)
    BY <1>7, <1>8 DEF Underway
  <2>2. ~(k > taken)
    BY <1>1, <1>3, <1>4, <1>5, <2>1 DEF Parted
  <2>3. ~(k < taken)
    <3> SUFFICES ASSUME k < taken PROVE FALSE
      OBVIOUS
    <3>1. taken \in 1..typed /\ taken > k
      BY <1>3, <1>4
    <3> QED
      BY <1>4, <1>6, <2>1, <3>1 DEF Parted
  <2>4. k = taken
    BY <1>3, <1>4, <2>2, <2>3
  <2> QED
    BY <1>3, <1>8, <2>4 DEF Pairing, Since
<1>9. CASE at = "drain"
  <2>1. taken > 0 /\ Unread(taken) /\ era = taken - 1
    BY <1>9 DEF Pairing, DrainsToItsOwn, Since
  <2>2. \A n \in 1..typed : n # taken => ~Parted(n)
    BY <1>7, <1>9 DEF Underway
  <2>3. k # taken
    BY <1>5, <2>1
  <2>4. ~(k > taken)
    BY <1>3, <1>4, <1>5, <2>2, <2>3 DEF Parted
  <2>5. ~(k < taken - 1)
    <3> SUFFICES ASSUME k < taken - 1 PROVE FALSE
      OBVIOUS
    <3>1. PICK n \in 1..typed : n = taken - 1
      BY <1>3, <1>4
    <3> QED
      BY <1>3, <1>4, <1>6, <2>2, <3>1 DEF Parted
  <2>6. k = taken - 1
    BY <1>3, <1>4, <2>3, <2>4, <2>5
  <2> QED
    BY <1>3, <1>4, <2>1, <2>6
<1> QED
  BY <1>8, <1>9

----------------------------------------------------------------------------
(* The theorem. *)

LEMMA InitIInv == Init => IInv
<1> SUFFICES ASSUME Init PROVE IInv
  OBVIOUS
<1>1. data = <<>> /\ cmds = <<>> /\ typed = 0 /\ taken = 0 /\ reader = "reading"
  BY DEF Init, KeyboardInit
<1>2. <<>> \in Seq(Chunk) /\ <<>> \in Seq(Commands) /\ Len(<<>>) = 0 /\ DOMAIN <<>> = {}
  BY EmptySeq
<1>3. Queue
  BY <1>1, <1>2 DEF Queue, Shape, Ordered, Followed
<1>4. Pairing
  BY <1>1 DEF Init, Pairing, PartedAreLoose, FencedByItsOwn, DrainsToItsOwn, Since
<1>5. KeysGoWhereTyped
  BY DEF Init, KeysGoWhereTyped
<1> QED
  BY <1>3, <1>4, <1>5 DEF IInv

LEMMA IInvKept == ASSUME IInv, [Next]_vars PROVE IInv'
<1>1. Queue /\ Pairing /\ KeysGoWhereTyped
  BY DEF IInv
<1>2. Queue'
  BY <1>1, KeyboardSteps, QueueKept
<1>3. Pairing'
  BY <1>1, StepKinds, QuietKeeps, TypingKeeps, PromptReadingKeeps, PromptTakingKeeps,
     OutputEndsKeeps, SendKeysKeeps, SeeFenceKeeps, TakeCommandKeeps, DrainKeysKeeps,
     DrainFenceKeeps, DrainLateKeeps
<1>4. ASSUME sent' = sent PROVE KeysGoWhereTyped'
  BY <1>1, <1>4 DEF KeysGoWhereTyped
<1>5. ASSUME SendKeys \/ DrainKeys PROVE KeysGoWhereTyped'
  <2>1. data # <<>> /\ ~Head(data).fence /\ ((at = "session" /\ ~fenced) \/ at = "drain")
    BY <1>5 DEF SendKeys, DrainKeys, InSession, Listening
  <2>2. sent' = sent \/ Sends
    BY <1>5 DEF SendKeys, DrainKeys
  <2>3. loose = {} => Head(data).at = era
    BY <1>1, <2>1, HeadIsForTheSession
  <2>4. Sends => KeysGoWhereTyped'
    <3>1. CASE loose = {}
      BY <2>3, <3>1 DEF Sends, KeysGoWhereTyped
    <3>2. CASE loose # {}
      <4>1. (loose # {}) = TRUE
        BY <3>2
      <4>2. Sends => sent' = [typed |-> Head(data).at, to |-> era, loose |-> TRUE]
        BY <4>1 DEF Sends
      <4> QED
        BY <4>2 DEF KeysGoWhereTyped
    <3> QED
      BY <3>1, <3>2
  <2> QED
    BY <1>4, <2>2, <2>4
<1>6. SendKeys \/ DrainKeys \/ sent' = sent
  BY StepKinds DEF Quiet, JustTypes, PromptReads, PromptTakes, OutputEnds, SeeFence, TakeCommand,
     DrainFence, DrainLate
<1>7. KeysGoWhereTyped'
  BY <1>4, <1>5, <1>6
<1> QED
  BY <1>2, <1>3, <1>7 DEF IInv

LEMMA Invariance == Spec => []IInv
<1>1. IInv /\ [Next]_vars => IInv'
  BY IInvKept
<1> QED
  BY InitIInv, <1>1, PTL DEF Spec

\* A chunk goes to the service it was typed at, unless a command has been parted
\* from its fence, for any number of keys and commands, any tabs and whatever
\* happens in the daemon (attachclient.go:terminalInput, runSession, drainToFence).
THEOREM KeysGoWhereTypedAlways == Spec => []KeysGoWhereTyped
<1>1. IInv => KeysGoWhereTyped
  BY DEF IInv
<1> QED
  BY Invariance, <1>1, PTL

\* Whatever is at the head of the queue, the fences of all the commands typed
\* after it are still to be read: two channels, and one order
\* (attachclient.go:terminalInput.run).
THEOREM FencesInOrder ==
    Spec => [](data # <<>> => \A n \in 1..typed : n > Head(data).at => Unread(n))
<1>1. IInv => (data # <<>> => \A n \in 1..typed : n > Head(data).at => Unread(n))
  <2> SUFFICES ASSUME IInv, data # <<>>, NEW n \in 1..typed, n > Head(data).at PROVE Unread(n)
    OBVIOUS
  <2>1. data \in Seq(Chunk)
    BY DEF IInv, Queue, Shape
  <2>2. Head(data) = data[1] /\ 1 \in DOMAIN data
    BY <2>1, TailOf
  <2> QED
    BY <2>2 DEF IInv, Queue, Followed
<1> QED
  BY Invariance, <1>1, PTL

----------------------------------------------------------------------------
(* What is on the terminal. *)

\* The names that frames on their way tell of.
Told(frames) == {frames[i].to : i \in {j \in DOMAIN frames : frames[j].kind = "renamed"}}

Lists == tabs \in Seq(Service) /\ stream \in Seq(Frames)

\* Nothing is attached but in a session, and what is attached is on the terminal.
Linked ==
    /\ at \notin Sessions \cup {"over"} =>
         renamedTo = NoName /\ Told(stream) = {} /\ on = NoName
    /\ on # NoName => on \in screen

\* The terminal shows one service, and of the names the client may yet go by there
\* is no other's.
Recognised ==
    screen # {} /\ ~usurped /\ at # "over" =>
        /\ \E n \in Service : screen \subseteq {n}
        /\ Heeded \cap Names(tabs) \subseteq screen

\* The terminal is clear only on the way to a replay, under the list, or once a
\* prompt has handed over a command.
Prepared ==
    screen = {} => \/ handed
                   \/ at \in {"pick", "over"}
                   \/ first /\ replay /\ at \in {"top", "redial", "look", "attach"}

ScreenInv == Lists /\ Linked /\ Recognised /\ Prepared

\* The places of a list, and what is in them.
LEMMA NamesAre ==
    ASSUME NEW s \in Seq(Service)
    PROVE  /\ DOMAIN s = 1..Len(s) /\ Len(s) \in Nat
           /\ \A i \in DOMAIN s : s[i] \in Names(s) /\ s[i] \in Service
           /\ \A x \in Names(s) : x \in Service /\ \E i \in DOMAIN s : s[i] = x
<1>1. DOMAIN s = 1..Len(s) /\ Len(s) \in Nat
  BY LenProperties
<1>2. \A i \in DOMAIN s : s[i] \in Service
  BY <1>1, ElementOfSeq
<1> QED
  BY <1>1, <1>2 DEF Names

\* A renaming takes the one name away and gives the other.
LEMMA RenamedIs ==
    ASSUME NEW s \in Seq(Service), NEW n, NEW m \in Service
    PROVE  /\ Renamed(s, n, m) \in Seq(Service)
           /\ \A x \in Names(Renamed(s, n, m)) : x = m \/ (x \in Names(s) /\ x # n)
<1>1. DOMAIN s = 1..Len(s) /\ Len(s) \in Nat /\ \A i \in DOMAIN s : s[i] \in Service
  BY NamesAre
<1>2. \A i \in 1..Len(s) : (IF s[i] = n THEN m ELSE s[i]) \in Service
  BY <1>1
<1>3. [i \in 1..Len(s) |-> IF s[i] = n THEN m ELSE s[i]] \in Seq(Service)
  BY <1>1, <1>2, IsASeq
<1>4. Renamed(s, n, m) = [i \in 1..Len(s) |-> IF s[i] = n THEN m ELSE s[i]]
  BY <1>1 DEF Renamed
<1> QED
  BY <1>1, <1>3, <1>4 DEF Names

\* Pieces of a list hold names of the list.
LEMMA PieceIs ==
    ASSUME NEW s \in Seq(Service), NEW a \in 1..(Len(s) + 1), NEW b \in (a - 1)..Len(s)
    PROVE  /\ SubSeq(s, a, b) \in Seq(Service) /\ Len(SubSeq(s, a, b)) = b - a + 1
           /\ Names(SubSeq(s, a, b)) \subseteq Names(s)
<1>1. Len(s) \in Nat /\ \A i \in 1..Len(s) : s[i] \in Service /\ s[i] \in Names(s)
  BY NamesAre
<1>2. /\ SubSeq(s, a, b) \in Seq(Service)
      /\ Len(SubSeq(s, a, b)) = b - a + 1
      /\ \A i \in 1..(b - a + 1) : SubSeq(s, a, b)[i] = s[a + i - 1]
  BY SubSeqProperties
<1>3. DOMAIN SubSeq(s, a, b) = 1..(b - a + 1)
  BY <1>2, LenProperties
<1>4. \A i \in 1..(b - a + 1) : a + i - 1 \in 1..Len(s)
  BY <1>1
<1> QED
  BY <1>1, <1>2, <1>3, <1>4 DEF Names

\* One list after another.
LEMMA JoinedAre ==
    ASSUME NEW s \in Seq(Service), NEW t \in Seq(Service)
    PROVE  /\ s \o t \in Seq(Service) /\ Len(s \o t) = Len(s) + Len(t)
           /\ Names(s \o t) = Names(s) \cup Names(t)
<1> DEFINE w == s \o t
<1>1. /\ w \in Seq(Service) /\ Len(w) = Len(s) + Len(t)
      /\ \A i \in 1..(Len(s) + Len(t)) : w[i] = IF i <= Len(s) THEN s[i] ELSE t[i - Len(s)]
  BY ConcatProperties
<1> HIDE DEF w
<1>2. /\ DOMAIN w = 1..(Len(s) + Len(t)) /\ DOMAIN s = 1..Len(s) /\ DOMAIN t = 1..Len(t)
      /\ Len(s) \in Nat /\ Len(t) \in Nat
  BY <1>1, LenProperties
<1>3. Names(w) \subseteq Names(s) \cup Names(t)
  <2> SUFFICES ASSUME NEW i \in DOMAIN w PROVE w[i] \in Names(s) \cup Names(t)
    BY DEF Names
  <2>1. CASE i <= Len(s)
    BY <1>1, <1>2, <2>1 DEF Names
  <2>2. CASE ~(i <= Len(s))
    <3>1. i - Len(s) \in DOMAIN t /\ w[i] = t[i - Len(s)]
      BY <1>1, <1>2, <2>2
    <3> QED
      BY <3>1 DEF Names
  <2> QED
    BY <2>1, <2>2
<1>4. Names(s) \cup Names(t) \subseteq Names(w)
  <2>1. \A i \in DOMAIN s : i \in DOMAIN w /\ w[i] = s[i]
    BY <1>1, <1>2
  <2>2. \A i \in DOMAIN t : i + Len(s) \in DOMAIN w /\ w[i + Len(s)] = t[i]
    BY <1>1, <1>2
  <2> QED
    BY <2>1, <2>2 DEF Names
<1>5. w \in Seq(Service) /\ Len(w) = Len(s) + Len(t) /\ Names(w) = Names(s) \cup Names(t)
  BY <1>1, <1>3, <1>4
<1> QED
  BY <1>5 DEF w

\* A removal and a move of a tab bring no name in.
LEMMA WithoutIs ==
    ASSUME NEW s \in Seq(Service), NEW n
    PROVE  /\ Without(s, n) \in Seq(Service) /\ Names(Without(s, n)) \subseteq Names(s)
           /\ n \in Names(s) => Len(Without(s, n)) = Len(s) - 1
<1>1. CASE n \notin Names(s)
  BY <1>1 DEF Without
<1>2. CASE n \in Names(s)
  <2>1. PICK i \in 1..Len(s) : i = Place(s, n)
    BY <1>2, NamesAre DEF Place
  <2>2. Len(s) \in Nat
    BY NamesAre
  <2>3. /\ SubSeq(s, 1, i - 1) \in Seq(Service) /\ Names(SubSeq(s, 1, i - 1)) \subseteq Names(s)
        /\ Len(SubSeq(s, 1, i - 1)) = i - 1
    <3>1. 1 \in 1..(Len(s) + 1) /\ i - 1 \in (1 - 1)..Len(s) /\ (i - 1) - 1 + 1 = i - 1
      BY <2>2
    <3> QED
      BY <3>1, PieceIs
  <2>4. /\ SubSeq(s, i + 1, Len(s)) \in Seq(Service)
        /\ Names(SubSeq(s, i + 1, Len(s))) \subseteq Names(s)
        /\ Len(SubSeq(s, i + 1, Len(s))) = Len(s) - i
    <3>1. i + 1 \in 1..(Len(s) + 1) /\ Len(s) \in ((i + 1) - 1)..Len(s) /\ Len(s) - (i + 1) + 1 = Len(s) - i
      BY <2>2
    <3> QED
      BY <3>1, PieceIs
  <2>5. Without(s, n) = SubSeq(s, 1, i - 1) \o SubSeq(s, i + 1, Len(s))
    BY <1>2, <2>1 DEF Without
  <2>6. Len(Without(s, n)) = Len(s) - 1
    <3>1. Len(SubSeq(s, 1, i - 1) \o SubSeq(s, i + 1, Len(s))) = (i - 1) + (Len(s) - i)
      BY <2>3, <2>4, JoinedAre
    <3>2. (i - 1) + (Len(s) - i) = Len(s) - 1
      BY <2>2
    <3> QED
      BY <2>5, <3>1, <3>2
  <2> QED
    BY <2>3, <2>4, <2>5, <2>6, JoinedAre
<1> QED
  BY <1>1, <1>2

LEMMA MovedIs ==
    ASSUME NEW s \in Seq(Service), NEW n, NEW right
    PROVE  Moved(s, n, right) \in Seq(Service) /\ Names(Moved(s, n, right)) \subseteq Names(s)
<1>1. ASSUME NEW to \in DOMAIN s, n \in Names(s)
      PROVE  PutAt(s, n, to) \in Seq(Service) /\ Names(PutAt(s, n, to)) \subseteq Names(s)
  <2> DEFINE rest == Without(s, n)
  <2>1. rest \in Seq(Service) /\ Names(rest) \subseteq Names(s) /\ Len(rest) = Len(s) - 1
    BY <1>1, WithoutIs
  <2>2. Len(s) \in Nat /\ to \in 1..Len(s)
    BY NamesAre
  <2>3. PutAt(s, n, to) = SubSeq(rest, 1, to - 1) \o <<n>> \o SubSeq(rest, to, Len(rest))
    <3>1. (IF to < 1 THEN 1 ELSE IF to > Len(s) THEN Len(s) ELSE to) = to
      BY <2>2
    <3> QED
      BY <1>1, <3>1, Zenon DEF PutAt
  <2> HIDE DEF rest
  <2>4. SubSeq(rest, 1, to - 1) \in Seq(Service) /\ Names(SubSeq(rest, 1, to - 1)) \subseteq Names(rest)
    <3>1. 1 \in 1..(Len(rest) + 1) /\ to - 1 \in (1 - 1)..Len(rest)
      BY <2>1, <2>2
    <3> QED
      BY <2>1, <3>1, PieceIs
  <2>5. /\ SubSeq(rest, to, Len(rest)) \in Seq(Service)
        /\ Names(SubSeq(rest, to, Len(rest))) \subseteq Names(rest)
    <3>1. to \in 1..(Len(rest) + 1) /\ Len(rest) \in (to - 1)..Len(rest)
      BY <2>1, <2>2
    <3> QED
      BY <2>1, <3>1, PieceIs
  <2>6. <<n>> \in Seq(Service) /\ Names(<<n>>) = {n}
    BY <1>1, NamesAre DEF Names
  <2>7. /\ SubSeq(rest, 1, to - 1) \o <<n>> \in Seq(Service)
        /\ Names(SubSeq(rest, 1, to - 1) \o <<n>>) \subseteq Names(s)
    BY <1>1, <2>1, <2>4, <2>6, JoinedAre
  <2>8. /\ (SubSeq(rest, 1, to - 1) \o <<n>>) \o SubSeq(rest, to, Len(rest)) \in Seq(Service)
        /\ Names((SubSeq(rest, 1, to - 1) \o <<n>>) \o SubSeq(rest, to, Len(rest))) \subseteq Names(s)
    BY <2>1, <2>5, <2>7, JoinedAre
  <2> QED
    BY <2>3, <2>8
<1> QED
  BY <1>1 DEF Moved

\* What frames tell of: nothing new is read from the rest of them, and what is
\* added tells of what it says.
LEMMA ToldIs ==
    ASSUME NEW q \in Seq(Frames)
    PROVE  /\ q # <<>> => /\ Tail(q) \in Seq(Frames) /\ Told(Tail(q)) \subseteq Told(q)
                          /\ Head(q) \in Frames /\ (Head(q).kind = "renamed" => Head(q).to \in Told(q))
           /\ \A f \in Frames : /\ Append(q, f) \in Seq(Frames)
                                /\ Told(Append(q, f)) \subseteq
                                     Told(q) \cup (IF f.kind = "renamed" THEN {f.to} ELSE {})
           /\ \A f \in Frames : q \o <<f>> = Append(q, f)
<1>1. DOMAIN q = 1..Len(q) /\ Len(q) \in Nat /\ \A i \in 1..Len(q) : q[i] \in Frames
  BY LenProperties, ElementOfSeq
<1>2. ASSUME q # <<>>
      PROVE  /\ Tail(q) \in Seq(Frames) /\ Told(Tail(q)) \subseteq Told(q)
             /\ Head(q) \in Frames /\ (Head(q).kind = "renamed" => Head(q).to \in Told(q))
  <2>1. Len(q) # 0 /\ Head(q) = q[1] /\ Tail(q) \in Seq(Frames) /\ Len(Tail(q)) = Len(q) - 1
        /\ \A i \in 1..Len(Tail(q)) : Tail(q)[i] = q[i + 1]
    BY <1>2, EmptySeq, HeadTailProperties
  <2>2. DOMAIN Tail(q) = 1..(Len(q) - 1)
    BY <2>1, LenProperties
  <2>3. \A i \in DOMAIN Tail(q) : i + 1 \in DOMAIN q /\ Tail(q)[i] = q[i + 1]
    BY <1>1, <2>1, <2>2
  <2>4. 1 \in DOMAIN q
    BY <1>1, <2>1
  <2> QED
    BY <1>1, <2>1, <2>3, <2>4 DEF Told
<1>3. ASSUME NEW f \in Frames
      PROVE  /\ Append(q, f) \in Seq(Frames)
             /\ Told(Append(q, f)) \subseteq Told(q) \cup (IF f.kind = "renamed" THEN {f.to} ELSE {})
             /\ q \o <<f>> = Append(q, f)
  <2>1. /\ Append(q, f) \in Seq(Frames) /\ Len(Append(q, f)) = Len(q) + 1
        /\ Append(q, f)[Len(q) + 1] = f /\ \A i \in 1..Len(q) : Append(q, f)[i] = q[i]
    BY AppendProperties
  <2>2. DOMAIN Append(q, f) = 1..(Len(q) + 1)
    BY <2>1, LenProperties
  <2>3. \A i \in DOMAIN Append(q, f) : Append(q, f)[i] = f \/ (i \in DOMAIN q /\ Append(q, f)[i] = q[i])
    BY <1>1, <2>1, <2>2
  <2>4. q \o <<f>> = Append(q, f)
    BY AppendIsConcat
  <2> QED
    BY <2>1, <2>3, <2>4 DEF Told
<1> QED
  BY <1>2, <1>3

\* What a step does to the names and to the terminal.
Outer == at \notin Sessions \cup {"over"}
NoMore == tabs' \in Seq(Service) /\ Names(tabs)' \subseteq Names(tabs)

Stands ==
    /\ UNCHANGED <<tabs, stream, on, service, renamedTo, screen, usurped>>
    /\ at = "over" => at' = "over"
    /\ at' \in Sessions \cup {"over"} \/ Outer
Rearranges ==
    Outer /\ UNCHANGED <<stream, on, service, renamedTo, screen, usurped>> /\ NoMore
Clears ==
    Outer /\ UNCHANGED <<stream, on, renamedTo>> /\ tabs' \in Seq(Service) /\ screen' = {}
Quits ==
    /\ at' = "over" /\ tabs' \in Seq(Service) /\ stream' \in {stream, <<>>}
    /\ on' \in {on, NoName} /\ screen' = screen
Departs ==
    /\ at \in Sessions /\ at' = "act" /\ UNCHANGED <<tabs, screen, usurped>>
    /\ renamedTo' = NoName /\ on' = NoName /\ stream' = <<>> /\ service' \in Heeded

\* The name under which a session is left is one that its client has been told.
LEMMA Left ==
    ASSUME NEW o, NEW n \in Heeded \cup {NoName}, Leave(o, n), at \in Sessions,
           UNCHANGED <<tabs, screen, usurped>>
    PROVE  Departs
BY DEF Leave, Forget, Departs, Heeded

LEMMA SessionMakes ==
    ASSUME ScreenInv, Session
    PROVE  Stands \/ Quits \/ Departs \/ PumpRenamed
<1> USE DEF InSession, link, place, daemon, display, Sessions
<1>1. renamedTo \in Heeded /\ service \in Heeded /\ tabs \in Seq(Service) /\ stream \in Seq(Frames)
  BY DEF Heeded, ScreenInv, Lists
<1>2. CASE OutputEnds
  <2>1. CASE Head(stream).kind = "reset"
    BY <1>1, <1>2, <2>1 DEF OutputEnds, Quits, Over
  <2>2. CASE Head(stream).kind # "reset"
    BY <1>1, <1>2, <2>2, Left DEF OutputEnds
  <2> QED
    BY <2>1, <2>2
<1>3. CASE SendKeys
  <2>1. CASE on # NoName
    BY <1>3, <2>1 DEF SendKeys, Stands
  <2>2. CASE on = NoName
    <3>1. \/ Leave("disconnected", renamedTo)
          \/ Over /\ stream' = <<>> /\ UNCHANGED on
      BY <1>3, <2>2 DEF SendKeys
    <3>2. at \in Sessions /\ UNCHANGED <<tabs, screen, usurped>>
      BY <1>3 DEF SendKeys
    <3>3. CASE Over /\ stream' = <<>> /\ UNCHANGED on
      BY <1>1, <3>2, <3>3 DEF Quits, Over
    <3>4. CASE Leave("disconnected", renamedTo)
      BY <1>1, <3>2, <3>4, Left
    <3> QED
      BY <3>1, <3>3, <3>4
  <2> QED
    BY <2>1, <2>2
<1>4. CASE TakeCommand
  <2>1. CASE fenced
    BY <1>1, <1>4, <2>1, Left DEF TakeCommand
  <2>2. CASE ~fenced
    BY <1>4, <2>2 DEF TakeCommand, Stands
  <2> QED
    BY <2>1, <2>2
<1>5. CASE DrainFence \/ DrainLate
  BY <1>1, <1>5, Left DEF DrainFence, DrainLate
<1>6. CASE SeeFence \/ TerminalEnds \/ DrainKeys
  BY <1>6 DEF SeeFence, TerminalEnds, DrainKeys, Stands
<1> QED
  BY <1>2, <1>3, <1>4, <1>5, <1>6 DEF Session

LEMMA DispatchMakes ==
    ASSUME ScreenInv, Dispatch
    PROVE  Stands \/ Rearranges \/ Clears \/ Quits
<1> USE DEF Does, link, place, daemon, display, local, Sessions, Outer, Stay, GoTo, Again, Clear, Over
<1>1. tabs \in Seq(Service) /\ Names(tabs) \subseteq Service
  BY NamesAre DEF ScreenInv, Lists
<1>2. \A n : Without(tabs, n) \in Seq(Service)
  BY <1>1, WithoutIs
<1>3. CASE Detach \/ StayOnDead \/ Reattach \/ AskOpens \/ RemoveLooks \/ FinishLooks
  BY <1>3 DEF Detach, StayOnDead, Reattach, AskOpens, RemoveLooks, FinishLooks, Stands
<1>4. CASE \E forward \in BOOLEAN : Switch(forward)
  BY <1>1, <1>4 DEF Switch, Stands, Clears
<1>5. CASE \E i \in 1..9 : GoToTab(i)
  BY <1>1, <1>5 DEF GoToTab, Stands, Clears
<1>6. CASE \E right \in BOOLEAN : Move(right)
  BY <1>1, <1>6, MovedIs DEF Move, Rearranges, NoMore
<1>7. CASE Redraw \/ ListOpens
  BY <1>1, <1>7 DEF Redraw, ListOpens, Stands, Clears
<1>8. CASE Revive
  BY <1>8 DEF Revive, Stands
<1>9. CASE Create
  <2> DEFINE free == Service \ Names(tabs)
             n == CHOOSE m \in free : TRUE
  <2>1. CASE Answers /\ free # {}
    <3>1. n \in Service /\ tabs' = Append(tabs, n)
      BY <1>9, <2>1 DEF Create
    <3>2. tabs' \in Seq(Service)
      BY <1>1, <3>1, AppendProperties
    <3> QED
      BY <1>9, <2>1, <3>2 DEF Create, Clears
  <2>2. CASE ~(Answers /\ free # {})
    BY <1>9, <2>2 DEF Create, Stands
  <2> QED
    BY <2>1, <2>2
<1>10. CASE Remove
  BY <1>1, <1>2, <1>10 DEF Remove, Drops, Clears, Quits
<1>11. CASE Finish
  BY <1>1, <1>2, <1>11 DEF Finish, Drops, Clears, Quits
<1> QED
  BY <1>3, <1>4, <1>5, <1>6, <1>7, <1>8, <1>9, <1>10, <1>11 DEF Dispatch

LEMMA PromptsMake ==
    ASSUME ScreenInv, Prompts
    PROVE  Stands \/ Clears \/ (\E m \in Service : AskRenames(m))
<1> USE DEF Prompt, link, place, daemon, display, local, Sessions, Outer, Stay, GoTo, Again, Clear
<1>1. tabs \in Seq(Service)
  BY DEF ScreenInv, Lists
<1>2. CASE Pick \/ PickTimesOut
  BY <1>1, <1>2 DEF Pick, PickTimesOut, Clears
<1>3. CASE PickCommand \/ PickFence
  BY <1>1, <1>3 DEF PickCommand, PickFence, HandsOver, Stands, Clears
<1>4. CASE AskReads \/ DeadReads \/ AskEnds
  BY <1>4 DEF AskReads, DeadReads, AskEnds, Stands
<1>5. CASE AskCommand \/ DeadCommand
  BY <1>5 DEF AskCommand, DeadCommand, HandsOver, Stands
<1> QED
  BY <1>2, <1>3, <1>4, <1>5 DEF Prompts

LEMMA ScreenSteps ==
    ASSUME ScreenInv, [Next]_vars
    PROVE  \/ Stands \/ Rearranges \/ Clears \/ Quits \/ Departs
           \/ PumpRenamed \/ Attach \/ DaemonGoes
           \/ \E n \in Service, b \in BOOLEAN : ServiceEnds(n, b)
           \/ \E n, m \in Service : RenamedElsewhere(n, m)
           \/ \E m \in Service : AskRenames(m)
<1> USE DEF daemon, link, place, local, ghosts, display, Sessions, Outer
<1>1. CASE UNCHANGED vars
  BY <1>1 DEF vars, Stands
<1>2. CASE User
  BY <1>2 DEF User, Stands
<1>3. CASE World
  BY <1>3 DEF World, DaemonComes, Stands
<1>4. CASE Loop
  BY <1>4 DEF Loop, Top, Redialled, Returns, GivesUp, Look, Stands, Over
<1> QED
  BY <1>1, <1>2, <1>3, <1>4, SessionMakes, DispatchMakes, PromptsMake DEF Next

\* With a terminal that shows anything, a name its client may go by is a service's
\* own while no new names are added and no new ones are heeded.
LEMMA NothingNew ==
    ASSUME ScreenInv, NoMore, Heeded' \subseteq Heeded \cup {NoName},
           UNCHANGED <<screen, usurped>>, at = "over" => at' = "over"
    PROVE  Recognised'
<1>1. NoName \notin Names(tabs)
  BY NamesAre, AttachClientAssumption DEF ScreenInv, Lists
<1> QED
  BY <1>1 DEF ScreenInv, Recognised, NoMore

LEMMA QuietScreenKept ==
    ASSUME ScreenInv, Stands \/ Rearranges \/ Clears \/ Quits \/ Departs
    PROVE  Lists' /\ Linked' /\ Recognised'
<1>1. Lists /\ Linked /\ Recognised /\ <<>> \in Seq(Frames) /\ Told(<<>>) = {}
  BY EmptySeq DEF ScreenInv, Told
<1>2. ASSUME UNCHANGED <<stream, service, renamedTo>> PROVE Heeded' = Heeded
  BY <1>2 DEF Heeded
<1>3. CASE Stands
  BY <1>1, <1>2, <1>3 DEF Stands, Lists, Linked, Recognised, Outer
<1>4. CASE Rearranges
  BY <1>1, <1>2, <1>4, NothingNew DEF Rearranges, NoMore, Lists, Linked, Outer
<1>5. CASE Clears
  BY <1>1, <1>5 DEF Clears, Lists, Linked, Recognised, Outer
<1>6. CASE Quits
  BY <1>1, <1>6 DEF Quits, Lists, Linked, Recognised
<1>7. CASE Departs
  <2>1. Heeded' \subseteq Heeded \cup {NoName}
    BY <1>7, EmptySeq DEF Departs, Heeded
  <2> QED
    BY <1>1, <1>7, <2>1, NothingNew DEF Departs, NoMore, Lists, Linked, Sessions
<1> QED
  BY <1>3, <1>4, <1>5, <1>6, <1>7

\* Heeded, and what the frames tell of.
LEMMA HeededIs == Heeded = {service, renamedTo} \cup Told(stream)
BY DEF Heeded, Told

LEMMA PumpKeepsScreen == ASSUME ScreenInv, PumpRenamed PROVE Lists' /\ Linked' /\ Recognised'
<1> USE DEF daemon, link, place, ghosts, display
<1>1. Lists /\ Linked /\ stream # <<>> /\ Head(stream).kind = "renamed"
  BY DEF ScreenInv, PumpRenamed
<1>2. Tail(stream) \in Seq(Frames) /\ Told(Tail(stream)) \subseteq Told(stream) /\ Head(stream).to \in Told(stream)
  BY <1>1, ToldIs DEF Lists
<1>3. stream' = Tail(stream) /\ renamedTo' = Head(stream).to /\ at \in Sessions
      /\ UNCHANGED <<tabs, on, service, screen, usurped, at>>
  BY DEF PumpRenamed, Sessions
<1>4. Heeded' \subseteq Heeded \cup {NoName}
  <2>1. Heeded' = {service', renamedTo'} \cup Told(stream')
    BY HeededIs DEF Heeded, Told
  <2> QED
    BY <1>2, <1>3, <2>1, HeededIs
<1>5. Recognised'
  BY <1>3, <1>4, NothingNew DEF NoMore, ScreenInv, Lists
<1> QED
  BY <1>1, <1>2, <1>3, <1>5 DEF Lists, Linked

\* What an end or a loss adds to the stream tells of no name.
LEMMA EndsAdd ==
    ASSUME NEW k \in {"finished", "eof", "reset"}, stream \in Seq(Frames)
    PROVE  /\ Append(stream, [kind |-> k]) \in Seq(Frames)
           /\ Told(Append(stream, [kind |-> k])) \subseteq Told(stream)
           /\ stream \o <<[kind |-> k]>> = Append(stream, [kind |-> k])
<1>1. [kind |-> k] \in Frames /\ [kind |-> k].kind # "renamed"
  BY DEF Frames
<1> QED
  BY <1>1, ToldIs

LEMMA EndKeepsScreen ==
    ASSUME ScreenInv, NEW n \in Service, NEW b \in BOOLEAN, ServiceEnds(n, b)
    PROVE  Lists' /\ Linked' /\ Recognised'
<1> USE DEF daemon, link, place, local, ghosts, display
<1>1. Lists /\ Linked /\ n # NoName
  BY AttachClientAssumption DEF ScreenInv
<1>2. UNCHANGED <<tabs, at, service, renamedTo, screen, usurped>> /\ on' = (IF on = n THEN NoName ELSE on)
      /\ stream' = (IF on = n THEN Append(stream, [kind |-> "finished"]) ELSE stream)
  BY <1>1, EndsAdd DEF ServiceEnds, Tells, Ends, Lists
<1>3. stream' \in Seq(Frames) /\ Told(stream') \subseteq Told(stream) /\ (on # n => stream' = stream)
  BY <1>1, <1>2, EndsAdd DEF Lists
<1>4. Heeded' = {service', renamedTo'} \cup Told(stream')
  BY DEF Heeded, Told
<1>5. Recognised'
  BY <1>2, <1>3, <1>4, HeededIs, NothingNew DEF NoMore, ScreenInv, Lists
<1>6. Told(stream)' = Told(stream')
  BY DEF Told
<1> QED
  BY <1>1, <1>2, <1>3, <1>5, <1>6 DEF Lists, Linked

LEMMA LossKeepsScreen == ASSUME ScreenInv, DaemonGoes PROVE Lists' /\ Linked' /\ Recognised'
<1> USE DEF daemon, link, place, local, ghosts, display
<1>1. Lists /\ Linked
  BY DEF ScreenInv
<1>2. /\ UNCHANGED <<tabs, at, service, renamedTo, screen, usurped>> /\ on' = NoName
      /\ \E k \in {"finished", "eof", "reset"} :
           stream' = (IF on = NoName THEN stream ELSE Append(stream, [kind |-> k]))
  BY DEF DaemonGoes
<1>3. stream' \in Seq(Frames) /\ Told(stream') \subseteq Told(stream) /\ (on = NoName => stream' = stream)
  BY <1>1, <1>2, EndsAdd DEF Lists
<1>4. Heeded' = {service', renamedTo'} \cup Told(stream')
  BY DEF Heeded, Told
<1>5. Recognised'
  BY <1>2, <1>3, <1>4, HeededIs, NothingNew DEF NoMore, ScreenInv, Lists
<1>6. Told(stream)' = Told(stream')
  BY DEF Told
<1> QED
  BY <1>1, <1>2, <1>3, <1>5, <1>6 DEF Lists, Linked

\* A rename that the client did not ask for: it is told if it is attached, and
\* otherwise goes by the old name, which nobody has, or another has taken.
LEMMA RenameKeepsScreen ==
    ASSUME ScreenInv, NEW n \in Service, NEW m \in Service, RenamedElsewhere(n, m)
    PROVE  Lists' /\ Linked' /\ Recognised'
<1> USE DEF daemon, link, place, local, ghosts, display
<1>1. Lists /\ Linked /\ Recognised /\ n # NoName /\ m # NoName /\ m # n
  BY AttachClientAssumption DEF ScreenInv, RenamedElsewhere
<1>2. /\ UNCHANGED <<at, service, renamedTo>> /\ tabs' = Renamed(tabs, n, m)
      /\ screen' = Called(screen, n, m) /\ on' = (IF on = n THEN m ELSE on)
      /\ usurped' = (usurped \/ (m \in Heeded /\ screen \ {n} # {}))
      /\ stream' = (IF on = n THEN stream \o <<[kind |-> "renamed", to |-> m]>> ELSE stream)
  BY DEF RenamedElsewhere, Tells
<1>3. /\ tabs' \in Seq(Service)
      /\ \A x \in Names(tabs)' : x = m \/ (x \in Names(tabs) /\ x # n)
  BY <1>1, <1>2, RenamedIs DEF Lists
<1>4. /\ stream' \in Seq(Frames) /\ Told(stream)' \subseteq Told(stream) \cup {m}
      /\ on # n => stream' = stream
  <2>1. [kind |-> "renamed", to |-> m] \in Frames /\ [kind |-> "renamed", to |-> m].to = m
    BY DEF Frames
  <2>2. /\ Append(stream, [kind |-> "renamed", to |-> m]) \in Seq(Frames)
        /\ Told(Append(stream, [kind |-> "renamed", to |-> m])) \subseteq Told(stream) \cup {m}
        /\ stream \o <<[kind |-> "renamed", to |-> m]>> = Append(stream, [kind |-> "renamed", to |-> m])
    BY <1>1, <2>1, ToldIs DEF Lists
  <2>3. Told(stream)' = Told(stream')
    BY DEF Told
  <2> QED
    BY <1>1, <1>2, <2>2, <2>3 DEF Lists
<1>5. on' # NoName => on' \in screen'
  BY <1>1, <1>2 DEF Linked, Called
<1>6. Linked'
  <2>1. ASSUME at \notin Sessions \cup {"over"} PROVE renamedTo = NoName /\ Told(stream)' = {} /\ on' = NoName
    <3>1. on = NoName /\ renamedTo = NoName /\ Told(stream) = {} /\ stream' = stream
      BY <1>1, <1>4, <2>1 DEF Linked
    <3>2. Told(stream)' = Told(stream')
      BY DEF Told
    <3> QED
      BY <1>1, <1>2, <3>1, <3>2
  <2> QED
    BY <1>2, <1>5, <2>1 DEF Linked
<1>7. Recognised'
  <2> SUFFICES ASSUME screen' # {}, ~usurped', at # "over"
               PROVE  /\ \E x \in Service : screen' \subseteq {x}
                      /\ \A x \in Heeded' : x \in Names(tabs)' => x \in screen'
    BY <1>2 DEF Recognised
  <2>1. screen # {} /\ ~usurped
    BY <1>2 DEF Called
  <2>2. /\ \A x \in Heeded : x \in Names(tabs) => x \in screen
        /\ \E x \in Service : screen \subseteq {x}
    BY <1>1, <2>1 DEF Recognised
  <2>3. Heeded' \subseteq Heeded \cup {m} /\ (on # n => Heeded' = Heeded)
    <3>1. Heeded' = {service, renamedTo} \cup Told(stream)'
      BY <1>2, HeededIs DEF Heeded, Told
    <3>2. on # n => Told(stream)' = Told(stream)
      BY <1>4 DEF Told
    <3> QED
      BY <1>4, <3>1, <3>2, HeededIs
  <2>4. CASE n \in screen
    <3>1. screen = {n} /\ screen' = {m}
      BY <1>2, <2>2, <2>4 DEF Called
    <3> QED
      BY <1>3, <2>2, <2>3, <3>1
  <2>5. CASE n \notin screen
    <3>1. screen' = screen /\ on # n
      BY <1>1, <1>2, <2>5 DEF Called, Linked
    <3>2. m \notin Heeded
      BY <1>2, <2>1, <2>5
    <3> QED
      BY <1>3, <2>2, <2>3, <3>1, <3>2
  <2> QED
    BY <2>4, <2>5
<1> QED
  BY <1>3, <1>4, <1>6, <1>7 DEF Lists

\* A rename the client asked for is of the service it shows.
LEMMA AskKeepsScreen ==
    ASSUME ScreenInv, NEW m \in Service, AskRenames(m)
    PROVE  Lists' /\ Linked' /\ Recognised'
<1> USE DEF daemon, link, place, local, ghosts, display, Prompt
<1>1. /\ Lists /\ Linked /\ Recognised /\ at = "ask" /\ at' = "top"
      /\ renamedTo = NoName /\ Told(stream) = {} /\ on = NoName
  BY DEF ScreenInv, AskRenames, Linked, Sessions
<1>2. UNCHANGED <<stream, renamedTo, on, usurped>>
  BY DEF AskRenames
<1>3. Told(stream)' = {} /\ Heeded = {service, NoName} /\ Heeded' = {service', NoName}
  <2>1. Told(stream)' = Told(stream) /\ Heeded' = {service', renamedTo'} \cup Told(stream)'
    BY <1>2 DEF Told, Heeded
  <2> QED
    BY <1>1, <1>2, <2>1, HeededIs
<1>4. Linked'
  BY <1>1, <1>2, <1>3 DEF Linked
<1>5. CASE Answers /\ service \in Names(tabs) /\ m \notin Names(tabs)
  <2>1. tabs' = Renamed(tabs, service, m) /\ screen' = Called(screen, service, m) /\ service' = m
    BY <1>5 DEF AskRenames
  <2>2. /\ tabs' \in Seq(Service)
        /\ \A x \in Names(tabs)' : x = m \/ (x \in Names(tabs) /\ x # service)
    BY <1>1, <2>1, RenamedIs DEF Lists
  <2>3. Recognised'
    <3> SUFFICES ASSUME screen' # {}, ~usurped'
                 PROVE  /\ \E x \in Service : screen' \subseteq {x}
                        /\ \A x \in Heeded' : x \in Names(tabs)' => x \in screen'
      BY DEF Recognised
    <3>1. screen = {service}
      <4>1. screen # {} /\ ~usurped /\ at # "over"
        BY <1>1, <1>2, <2>1 DEF Called
      <4> QED
        BY <1>1, <1>3, <1>5, <4>1 DEF Recognised
    <3>2. screen' = {m}
      BY <2>1, <3>1 DEF Called
    <3>3. NoName \notin Names(tabs)'
      BY <2>2, NamesAre, AttachClientAssumption
    <3> QED
      BY <1>3, <2>1, <3>2, <3>3
  <2> QED
    BY <1>1, <1>2, <1>4, <2>2, <2>3 DEF Lists
<1>6. CASE ~(Answers /\ service \in Names(tabs) /\ m \notin Names(tabs))
  <2>1. UNCHANGED <<tabs, screen, service>>
    BY <1>6 DEF AskRenames
  <2> QED
    BY <1>1, <1>2, <1>3, <1>4, <2>1, NothingNew DEF Lists, NoMore
<1> QED
  BY <1>5, <1>6

\* An attach that succeeds shows the service it asked for, whose name nobody else has.
LEMMA AttachKeepsScreen == ASSUME ScreenInv, Attach PROVE Lists' /\ Linked' /\ Recognised'
<1> USE DEF daemon, link, place, local, ghosts, display
<1>1. /\ Lists /\ Linked /\ Recognised /\ at = "attach"
      /\ renamedTo = NoName /\ Told(stream) = {} /\ on = NoName
  BY DEF ScreenInv, Attach, Linked, Sessions
<1>2. UNCHANGED <<tabs, service, renamedTo, usurped>>
  BY DEF Attach
<1>3. Names(tabs) \subseteq Service /\ NoName \notin Service
  BY <1>1, NamesAre, AttachClientAssumption DEF Lists
<1>4. CASE conn = "idle" /\ service \in Names(tabs)
  <2>1. /\ at' = "session" /\ screen' = screen \cup {service}
        /\ on' = (IF service \in live THEN service ELSE NoName)
        /\ stream' = (IF service \in live THEN <<>> ELSE Ends)
    BY <1>4 DEF Attach
  <2>2. <<>> \in Seq(Frames) /\ Ends \in Seq(Frames) /\ Told(<<>>) = {} /\ Told(Ends) = {}
    <3>1. [kind |-> "finished"] \in Frames
      BY DEF Frames
    <3>2. Ends \in Seq(Frames) /\ DOMAIN Ends = {1} /\ Ends[1].kind = "finished"
      BY <3>1 DEF Ends
    <3> QED
      BY <3>2, EmptySeq DEF Told
  <2>3. stream' \in Seq(Frames) /\ Told(stream)' = {} /\ Heeded' = {service, NoName}
    <3>1. Told(stream)' = Told(stream') /\ Heeded' = {service', renamedTo'} \cup Told(stream')
      BY DEF Told, Heeded
    <3> QED
      BY <1>1, <1>2, <2>1, <2>2, <3>1
  <2>4. Recognised'
    <3> SUFFICES ASSUME ~usurped PROVE screen' = {service}
      BY <1>2, <1>3, <1>4, <2>3 DEF Recognised
    <3>1. screen = {} \/ screen = {service}
      BY <1>1, <1>4, HeededIs DEF Recognised
    <3> QED
      BY <2>1, <3>1
  <2> QED
    BY <1>1, <1>2, <2>1, <2>3, <2>4 DEF Lists, Linked, Sessions
<1>5. CASE ~(conn = "idle" /\ service \in Names(tabs))
  BY <1>1, <1>2, <1>5, EmptySeq DEF Attach, Over, Lists, Linked, Recognised
<1> QED
  BY <1>4, <1>5

LEMMA PreparedKept == ASSUME ScreenInv, [Next]_vars PROVE Prepared'
<1> USE DEF daemon, link, place, again, local, plan, ghosts, display, Prepared
<1>1. Prepared
  BY DEF ScreenInv
<1>2. CASE UNCHANGED vars
  BY <1>1, <1>2 DEF vars
<1>3. CASE User
  BY <1>1, <1>3 DEF User
<1>4. CASE World
  <2>1. ASSUME NEW n \in Service, NEW m \in Service, RenamedElsewhere(n, m) PROVE Prepared'
    <3>1. screen' = {} => screen = {}
      BY <2>1 DEF RenamedElsewhere, Called
    <3> QED
      BY <1>1, <2>1, <3>1 DEF RenamedElsewhere
  <2> QED
    BY <1>1, <1>4, <2>1 DEF World, ServiceEnds, DaemonGoes, DaemonComes
<1>5. CASE Session
  <2> USE DEF InSession, Leave
  <2>1. CASE PumpRenamed
    BY <1>1, <2>1 DEF PumpRenamed
  <2>2. CASE OutputEnds \/ SendKeys
    BY <1>1, <2>2 DEF OutputEnds, SendKeys, Over
  <2>3. CASE SeeFence \/ TakeCommand \/ TerminalEnds
    BY <1>1, <2>3 DEF SeeFence, TakeCommand, TerminalEnds
  <2>4. CASE DrainKeys \/ DrainFence \/ DrainLate
    BY <1>1, <2>4 DEF DrainKeys, DrainFence, DrainLate
  <2> QED
    BY <1>5, <2>1, <2>2, <2>3, <2>4 DEF Session
<1>6. CASE Dispatch
  <2> USE DEF Does, Stay, GoTo, Again, Clear, Over
  <2>1. CASE Detach \/ StayOnDead \/ Reattach \/ AskOpens \/ RemoveLooks \/ FinishLooks
    BY <1>1, <2>1 DEF Detach, StayOnDead, Reattach, AskOpens, RemoveLooks, FinishLooks
  <2>2. CASE \E forward \in BOOLEAN : Switch(forward)
    BY <1>1, <2>2 DEF Switch
  <2>3. CASE \E i \in 1..9 : GoToTab(i)
    BY <1>1, <2>3 DEF GoToTab
  <2>4. CASE \E right \in BOOLEAN : Move(right)
    BY <1>1, <2>4 DEF Move
  <2>5. CASE Redraw \/ ListOpens
    BY <1>1, <2>5 DEF Redraw, ListOpens
  <2>6. CASE Revive \/ Create
    BY <1>1, <2>6 DEF Revive, Create
  <2>7. CASE Remove \/ Finish
    BY <1>1, <2>7 DEF Remove, Finish
  <2> QED
    BY <1>6, <2>1, <2>2, <2>3, <2>4, <2>5, <2>6, <2>7 DEF Dispatch
<1>7. CASE Prompts
  <2> USE DEF Prompt, Stay, GoTo, Again, Clear, HandsOver
  <2>1. CASE Pick \/ PickTimesOut \/ PickCommand \/ PickFence
    BY <1>1, <2>1 DEF Pick, PickTimesOut, PickCommand, PickFence
  <2>2. CASE AskReads \/ AskEnds \/ AskCommand \/ DeadReads \/ DeadCommand
    BY <1>1, <2>2 DEF AskReads, AskEnds, AskCommand, DeadReads, DeadCommand
  <2>3. CASE \E m \in Service : AskRenames(m)
    BY <1>1, <2>3 DEF AskRenames
  <2> QED
    BY <1>7, <2>1, <2>2, <2>3 DEF Prompts
<1>8. CASE Loop
  <2>1. CASE Attach
    BY <2>1 DEF Attach, Over
  <2>2. CASE Top \/ Redialled \/ Returns \/ GivesUp \/ Look
    BY <1>1, <2>2 DEF Top, Redialled, Returns, GivesUp, Look, Over
  <2> QED
    BY <1>8, <2>1, <2>2 DEF Loop
<1> QED
  BY <1>2, <1>3, <1>4, <1>5, <1>6, <1>7, <1>8 DEF Next

LEMMA ScreenInvKept == ASSUME ScreenInv, [Next]_vars PROVE ScreenInv'
<1>1. Lists' /\ Linked' /\ Recognised'
  BY ScreenSteps, QuietScreenKept, PumpKeepsScreen, AttachKeepsScreen, LossKeepsScreen,
     EndKeepsScreen, RenameKeepsScreen, AskKeepsScreen
<1> QED
  BY <1>1, PreparedKept DEF ScreenInv

LEMMA InitScreenInv == Init => ScreenInv
<1> SUFFICES ASSUME Init PROVE ScreenInv
  OBVIOUS
<1>1. tabs \in Seq(Service) /\ stream = <<>>
  BY AttachClientAssumption DEF Init
<1> QED
  BY <1>1, EmptySeq DEF Init, ScreenInv, Lists, Linked, Recognised, Prepared, Told, Sessions

\* An attach comes to a terminal that shows nothing of another service, and, unless
\* a prompt was up, one that is the service's own, for any number of services, keys,
\* commands and events (attachclient.go:AttachLoopWith, showService, replay).
THEOREM ScreenIsTheServicesAlways == Spec => ScreenIsTheServices
<1> DEFINE Shows ==
      Attach /\ at' = "session" =>
         \/ usurped
         \/ /\ screen \subseteq {service}
            /\ ~(first /\ replay) /\ service \notin screen => handed
<1>1. ScreenInv => Shows
  <2> SUFFICES ASSUME ScreenInv, Attach, at' = "session", ~usurped
               PROVE  /\ screen \subseteq {service}
                      /\ ~(first /\ replay) /\ service \notin screen => handed
    OBVIOUS
  <2>1. at = "attach" /\ service \in Names(tabs)
    BY DEF Attach, Over
  <2>2. screen # {} => screen = {service}
    BY <2>1, HeededIs DEF ScreenInv, Recognised
  <2>3. screen = {} => handed \/ (first /\ replay)
    BY <2>1 DEF ScreenInv, Prepared
  <2> QED
    BY <2>2, <2>3
<1>2. ScreenInv /\ [Next]_vars => ScreenInv'
  BY ScreenInvKept
<1>3. ScreenInv => [Shows]_vars
  BY <1>1
<1>4. Spec => []ScreenInv
  BY InitScreenInv, <1>2, PTL DEF Spec
<1> QED
  BY <1>3, <1>4, PTL DEF ScreenIsTheServices

=============================================================================
