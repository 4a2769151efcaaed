---------------------------- MODULE AttachSession ----------------------------
(***************************************************************************)
(* The daemon's side of `gozellij attach` (internal/daemon/attach.go): one  *)
(* connection served by three goroutines - the main one, which reads the    *)
(* client's input; the pump, which writes the service's output; and the     *)
(* watcher, which tells the client of renames and of the service's end -    *)
(* over the service's OutputBuffer and its StatusWatchers.                  *)
(*                                                                         *)
(* Around them: the service writes, is renamed, ends, is started again or   *)
(* is removed; the client types, reads, or goes away.                       *)
(***************************************************************************)
EXTENDS OutputBuffer

CONSTANTS Names,       \* names the service may have
          Newlines     \* offsets of the bytes that are newlines

VARIABLES name,     \* the service's name
          ended,    \* Status.Ended of its current supervisor
          removed,  \* it is no longer in the fabric
          main,     \* pc of each session's main goroutine
          pump,     \* pc of its pump
          watcher,  \* pc of its watcher
          conn,     \* "up", "gone" (the client hung up), "closed" (its stream ended)
            \* or "refused" (it typed at a service that was removed)
          hand,     \* the chunk its pump is writing, Nothing for none
          seen,     \* bytes the client was sent, in order
          lagTold,  \* the client was told that output was dropped
          endTold,  \* the client was told that the service ended
          known,    \* the service's name as far as the client was told
          wake,     \* the session's watch channel: "none", "empty", "token", "closed"
          viewers   \* sessions counted by Server.watching

sessionVars == <<main, pump, watcher, conn, hand, seen, lagTold, endTold, known, wake, viewers>>
serviceVars == <<name, ended, removed>>
vars == <<bufferVars, serviceVars, sessionVars>>

Viewers == Subs

SessionTypeOK ==
    /\ name \in Names
    /\ ended \in BOOLEAN
    /\ removed \in BOOLEAN
    /\ main \in [Viewers -> {"idle", "found", "counted", "subscribed", "reading", "joining",
                             "stopping", "leaving"}]
    /\ pump \in [Viewers -> {"off", "ranging", "holding", "done"}]
    /\ watcher \in [Viewers -> {"off", "started", "checking", "waiting", "ending",
                                "detaching", "done"}]
    /\ conn \in [Viewers -> {"up", "gone", "closed", "refused"}]
    /\ hand \in [Viewers -> Chunk]
    /\ seen \in [Viewers -> Seq(Nat)]
    /\ lagTold \in [Viewers -> BOOLEAN]
    /\ endTold \in [Viewers -> BOOLEAN]
    /\ known \in [Viewers -> Names]
    /\ wake \in [Viewers -> {"none", "empty", "token", "closed"}]
    /\ viewers \subseteq Viewers

TypeOK == BufferTypeOK /\ SessionTypeOK

Init ==
    /\ BufferInit({})
    /\ name \in Names
    /\ ended = FALSE
    /\ removed = FALSE
    /\ main = [v \in Viewers |-> "idle"]
    /\ pump = [v \in Viewers |-> "off"]
    /\ watcher = [v \in Viewers |-> "off"]
    /\ conn = [v \in Viewers |-> "up"]
    /\ hand = [v \in Viewers |-> Nothing]
    /\ seen = [v \in Viewers |-> <<>>]
    /\ lagTold = [v \in Viewers |-> FALSE]
    /\ endTold = [v \in Viewers |-> FALSE]
    /\ known = [v \in Viewers |-> name]
    /\ wake = [v \in Viewers |-> "none"]
    /\ viewers = {}

----------------------------------------------------------------------------
(* The service. *)

\* Notify: a token in every registered channel that holds none.
Notified == [v \in Viewers |-> IF wake[v] = "empty" THEN "token" ELSE wake[v]]

Output(n) ==
    /\ Write(n)
    /\ UNCHANGED <<serviceVars, sessionVars>>

\* Supervisor.rename: the new name, then the notification.
Rename(to) ==
    /\ ~removed /\ ~closed
    /\ to # name
    /\ name' = to
    /\ wake' = Notified
    /\ UNCHANGED <<bufferVars, ended, removed, main, pump, watcher, conn, hand, seen,
                   lagTold, endTold, known, viewers>>

\* The supervision loop ends; or a start replaces the supervisor of an ended
\* service, keeping its buffer and its watchers.
End(b) ==
    /\ ~removed /\ ~closed
    /\ ended # b
    /\ ended' = b
    /\ wake' = Notified
    /\ UNCHANGED <<bufferVars, name, removed, main, pump, watcher, conn, hand, seen,
                   lagTold, endTold, known, viewers>>

\* Fabric.Remove: stopped, its buffer closed, then taken out of the fabric.
\* A service that was never started ends nowhere: nobody is notified.
RemoveCloses ==
    /\ ~closed
    /\ CloseBuffer
    /\ UNCHANGED <<serviceVars, sessionVars>>

RemoveForgets ==
    /\ closed /\ ~removed
    /\ removed' = TRUE
    /\ UNCHANGED <<bufferVars, name, ended, sessionVars>>

----------------------------------------------------------------------------
(* The main goroutine. *)

\* fab.Output and fab.Follow, by the name the client asked with.
Lookup(v) ==
    /\ main[v] = "idle"
    /\ ~removed
    /\ main' = [main EXCEPT ![v] = "found"]
    /\ known' = [known EXCEPT ![v] = name]
    /\ conn' = [conn EXCEPT ![v] = "up"]
    /\ seen' = [seen EXCEPT ![v] = <<>>]
    /\ lagTold' = [lagTold EXCEPT ![v] = FALSE]
    /\ endTold' = [endTold EXCEPT ![v] = FALSE]
    /\ pump' = [pump EXCEPT ![v] = "off"]
    /\ watcher' = [watcher EXCEPT ![v] = "off"]
    /\ wake' = [wake EXCEPT ![v] = "none"]
    /\ UNCHANGED <<bufferVars, serviceVars, hand, viewers>>

Count(v) ==
    /\ main[v] = "found"
    /\ main' = [main EXCEPT ![v] = "counted"]
    /\ viewers' = viewers \cup {v}
    /\ UNCHANGED <<bufferVars, serviceVars, pump, watcher, conn, hand, seen, lagTold,
                   endTold, known, wake>>

\* ReplayStart: from after the first newline, if there is one.
ReplayStart(b) ==
    LET ends == {k \in 1..Len(b) : b[k] \in Newlines}
        first == CHOOSE k \in ends : \A j \in ends : k <= j
    IN  IF ends = {} THEN b ELSE SubSeq(b, first + 1, Len(b))

\* What a client that asked for a replay is sent: the ring, cut to a line once
\* it has wrapped.
Replay == IF written > size THEN ReplayStart(Snapshot) ELSE Snapshot

\* The subscription and the snapshot, under one lock; refused once closed.
Subscribe(v) ==
    /\ main[v] = "counted"
    /\ \/ /\ Attach(v)
          /\ main' = [main EXCEPT ![v] = "subscribed"]
          /\ \E r \in {<<>>, Replay} : seen' = [seen EXCEPT ![v] = r]
       \/ /\ closed
          /\ main' = [main EXCEPT ![v] = "leaving"]
          /\ UNCHANGED <<bufferVars, seen>>
    /\ UNCHANGED <<serviceVars, pump, watcher, conn, hand, lagTold, endTold, known, wake,
                   viewers>>

\* The reply and the replay are written; the watch is registered and the two
\* other goroutines start.
Serve(v) ==
    /\ main[v] = "subscribed"
    /\ conn[v] = "up"
    /\ main' = [main EXCEPT ![v] = "reading"]
    /\ wake' = [wake EXCEPT ![v] = "empty"]
    /\ watcher' = [watcher EXCEPT ![v] = "started"]
    /\ pump' = [pump EXCEPT ![v] = "ranging"]
    /\ UNCHANGED <<bufferVars, serviceVars, conn, hand, seen, lagTold, endTold, known,
                   viewers>>

\* Writing the reply failed: the deferred Detach runs before the deferred leave.
ServeFails(v) ==
    /\ main[v] = "subscribed"
    /\ conn[v] # "up"
    /\ Detach(v)
    /\ main' = [main EXCEPT ![v] = "leaving"]
    /\ UNCHANGED <<serviceVars, pump, watcher, conn, hand, seen, lagTold, endTold, known,
                   wake, viewers>>

\* Closing a connection the client has not already left.
Hung(v) == [conn EXCEPT ![v] = IF @ = "up" THEN "closed" ELSE @]

\* Mutant: the pump is waited for before the subscriber is detached.
EndInputNoDetach(v, how) ==
    /\ main[v] = "reading"
    /\ conn' = [conn EXCEPT ![v] = how]
    /\ main' = [main EXCEPT ![v] = "joining"]
    /\ UNCHANGED <<bufferVars, serviceVars, pump, watcher, hand, seen, lagTold, endTold,
                   known, wake, viewers>>

\* readInput has returned: attach closes the connection and detaches.
EndInput(v, how) ==
    /\ main[v] = "reading"
    /\ conn' = [conn EXCEPT ![v] = how]
    /\ Detach(v)
    /\ main' = [main EXCEPT ![v] = "joining"]
    /\ UNCHANGED <<serviceVars, pump, watcher, hand, seen, lagTold, endTold, known, wake,
                   viewers>>

\* The read fails: the client is gone, or the pump closed the connection.
InputEnds(v) == conn[v] # "up" /\ EndInput(v, conn[v])

\* Input for a service that is no longer there ends the attach.
InputRefused(v) == conn[v] = "up" /\ removed /\ EndInput(v, "refused")

\* <-done: the pump is finished; only then is the watch stopped.
PumpJoined(v) ==
    /\ main[v] = "joining"
    /\ pump[v] = "done"
    /\ main' = [main EXCEPT ![v] = "stopping"]
    /\ wake' = [wake EXCEPT ![v] = "closed"]
    /\ UNCHANGED <<bufferVars, serviceVars, pump, watcher, conn, hand, seen, lagTold,
                   endTold, known, viewers>>

WatcherJoined(v) ==
    /\ main[v] = "stopping"
    /\ watcher[v] = "done"
    /\ main' = [main EXCEPT ![v] = "leaving"]
    /\ UNCHANGED <<bufferVars, serviceVars, pump, watcher, conn, hand, seen, lagTold,
                   endTold, known, wake, viewers>>

\* The deferred leaving(), last.
Leave(v) ==
    /\ main[v] = "leaving"
    /\ main' = [main EXCEPT ![v] = "idle"]
    /\ viewers' = viewers \ {v}
    /\ UNCHANGED <<bufferVars, serviceVars, pump, watcher, conn, hand, seen, lagTold,
                   endTold, known, wake>>

----------------------------------------------------------------------------
(* The pump. *)

Receive(v) ==
    /\ pump[v] = "ranging"
    /\ Take(v)
    /\ hand' = [hand EXCEPT ![v] = Head(sub[v].ch)]
    /\ pump' = [pump EXCEPT ![v] = "holding"]
    /\ UNCHANGED <<serviceVars, main, watcher, conn, seen, lagTold, endTold, known, wake,
                   viewers>>

\* The chunk reaches the client; a reader that lagged meanwhile is told and cut.
Deliver(v) ==
    /\ pump[v] = "holding"
    /\ conn[v] = "up"
    /\ Consumed(v, hand[v].hi - hand[v].lo)
    /\ seen' = [seen EXCEPT ![v] = @ \o Bytes(hand[v].lo, hand[v].hi)]
    /\ hand' = [hand EXCEPT ![v] = Nothing]
    /\ IF sub[v].lagged
       THEN /\ lagTold' = [lagTold EXCEPT ![v] = TRUE]
            /\ pump' = [pump EXCEPT ![v] = "done"]
            /\ conn' = Hung(v)
       ELSE /\ pump' = [pump EXCEPT ![v] = "ranging"]
            /\ UNCHANGED <<lagTold, conn>>
    /\ UNCHANGED <<serviceVars, main, watcher, endTold, known, wake, viewers>>

DeliverFails(v) ==
    /\ pump[v] = "holding"
    /\ conn[v] # "up"
    /\ hand' = [hand EXCEPT ![v] = Nothing]
    /\ pump' = [pump EXCEPT ![v] = "done"]
    /\ UNCHANGED <<bufferVars, serviceVars, main, watcher, conn, seen, lagTold, endTold,
                   known, wake, viewers>>

\* The channel ends; on the way out a client that lagged is told so.
PumpEnds(v) ==
    /\ pump[v] = "ranging"
    /\ StreamEnded(v)
    /\ lagTold' = [lagTold EXCEPT ![v] = @ \/ (sub[v].lagged /\ conn[v] = "up")]
    /\ pump' = [pump EXCEPT ![v] = "done"]
    /\ conn' = Hung(v)
    /\ UNCHANGED <<bufferVars, serviceVars, main, watcher, hand, seen, endTold, known, wake,
                   viewers>>

----------------------------------------------------------------------------
(* The watcher. *)

\* Handle.Name: the name it has, or one it was last seen under once removed.
NameNow(v) == IF removed THEN {known[v], name} ELSE {name}

\* Mutant: the first thing the watcher does is wait for a change.
WaitFirst(v) ==
    /\ watcher[v] = "started"
    /\ watcher' = [watcher EXCEPT ![v] = "waiting"]
    /\ UNCHANGED <<bufferVars, serviceVars, main, pump, conn, hand, seen, lagTold, endTold,
                   known, wake, viewers>>

\* renamed(), before the first check and after every wake-up.
TellRenamed(v) ==
    /\ watcher[v] = "started"
    /\ \E n \in NameNow(v) : known' = [known EXCEPT ![v] = n]
    /\ watcher' = [watcher EXCEPT ![v] = "checking"]
    /\ UNCHANGED <<bufferVars, serviceVars, main, pump, conn, hand, seen, lagTold, endTold,
                   wake, viewers>>

\* finished(): the loop has ended, or the service is not there to ask.
CheckFinished(v) ==
    /\ watcher[v] = "checking"
    /\ watcher' = [watcher EXCEPT ![v] = IF ended \/ removed THEN "ending" ELSE "waiting"]
    /\ UNCHANGED <<bufferVars, serviceVars, main, pump, conn, hand, seen, lagTold, endTold,
                   known, wake, viewers>>

Woken(v) ==
    /\ watcher[v] = "waiting"
    /\ \/ /\ wake[v] = "token"
          /\ wake' = [wake EXCEPT ![v] = "empty"]
          /\ watcher' = [watcher EXCEPT ![v] = "started"]
       \/ /\ wake[v] = "closed"
          /\ watcher' = [watcher EXCEPT ![v] = "done"]
          /\ UNCHANGED wake
    /\ UNCHANGED <<bufferVars, serviceVars, main, pump, conn, hand, seen, lagTold, endTold,
                   known, viewers>>

\* A rename and the end can be one wake-up, so the name is looked at again.
TellFinished(v) ==
    /\ watcher[v] = "ending"
    /\ \E n \in NameNow(v) : known' = [known EXCEPT ![v] = n]
    /\ endTold' = [endTold EXCEPT ![v] = @ \/ conn[v] = "up"]
    /\ watcher' = [watcher EXCEPT ![v] = "detaching"]
    /\ UNCHANGED <<bufferVars, serviceVars, main, pump, conn, hand, seen, lagTold, wake,
                   viewers>>

\* Mutant: the connection is closed, whatever the pump still has queued.
HangUpFinished(v) ==
    /\ watcher[v] = "detaching"
    /\ conn' = Hung(v)
    /\ watcher' = [watcher EXCEPT ![v] = "done"]
    /\ UNCHANGED <<bufferVars, serviceVars, main, pump, hand, seen, lagTold, endTold, known,
                   wake, viewers>>

\* Ending the stream rather than the connection lets the pump drain its queue.
DetachFinished(v) ==
    /\ watcher[v] = "detaching"
    /\ Detach(v)
    /\ watcher' = [watcher EXCEPT ![v] = "done"]
    /\ UNCHANGED <<serviceVars, main, pump, conn, hand, seen, lagTold, endTold, known, wake,
                   viewers>>

----------------------------------------------------------------------------

HangUp(v) ==
    /\ main[v] # "idle"
    /\ conn[v] = "up"
    /\ conn' = [conn EXCEPT ![v] = "gone"]
    /\ UNCHANGED <<bufferVars, serviceVars, main, pump, watcher, hand, seen, lagTold,
                   endTold, known, wake, viewers>>

Session(v) ==
    \/ Count(v) \/ Subscribe(v) \/ Serve(v) \/ ServeFails(v)
    \/ InputEnds(v) \/ PumpJoined(v) \/ WatcherJoined(v) \/ Leave(v)

Pump(v) == Receive(v) \/ Deliver(v) \/ DeliverFails(v) \/ PumpEnds(v)

Watcher(v) ==
    TellRenamed(v) \/ CheckFinished(v) \/ Woken(v) \/ TellFinished(v) \/ DetachFinished(v)

Service ==
    \/ \E n \in 1..MaxChunk : Output(n)
    \/ \E to \in Names : Rename(to)
    \/ \E b \in BOOLEAN : End(b)
    \/ RemoveCloses \/ RemoveForgets

Next ==
    \/ Service
    \/ \E v \in Viewers :
         Lookup(v) \/ HangUp(v) \/ InputRefused(v) \/ Session(v) \/ Pump(v) \/ Watcher(v)

\* Every goroutine that can run does, and the client reads what it is sent.
\* Nothing obliges the service to write, end or be renamed, nor a client to go.
Fairness ==
    /\ WF_vars(RemoveForgets)
    /\ \A v \in Viewers :
         WF_vars(Session(v)) /\ WF_vars(Pump(v)) /\ WF_vars(Watcher(v))

Spec == Init /\ [][Next]_vars /\ Fairness

----------------------------------------------------------------------------

Serving(v) == main[v] \in {"reading", "joining", "stopping"}

\* The offset the client's view has reached.
Position(v) == IF seen[v] = <<>> THEN sub[v].from ELSE seen[v][Len(seen[v])] + 1

\* What the client has been sent is one unbroken piece of the stream, and what
\* its pump holds and its channel queues carries straight on from there
\* (Attach takes the snapshot and the subscription under one lock).
NoGap ==
    \A v \in Viewers :
        main[v] \in {"subscribed", "reading"} /\ pump[v] # "done" =>
            /\ \A k \in 1..(Len(seen[v]) - 1) : seen[v][k+1] = seen[v][k] + 1
            /\ Chained(sub[v], StreamEnd(v))
            /\ pump[v] = "holding" => hand[v].lo = Position(v)
            /\ LET at == IF pump[v] = "holding" THEN hand[v].hi ELSE Position(v)
               IN  at = IF sub[v].ch = <<>> THEN StreamEnd(v) ELSE sub[v].ch[1].lo

\* A client whose stream the daemon cut was sent every byte written before the
\* cut - the last line of a shell that exited among them - or was told that
\* output was dropped (watchForExit, pumpOutput).
CompleteOrTold ==
    \A v \in Viewers :
        Serving(v) /\ pump[v] = "done" /\ conn[v] = "closed" /\ ~lagTold[v] =>
            Position(v) = sub[v].upTo

\* A client being served hears of every rename that lasts, one made before its
\* watch was registered included.
RenameTold ==
    \A v \in Viewers :
        main[v] = "reading" /\ known[v] # name
            ~> known[v] = name \/ main[v] # "reading" \/ removed

\* An attach to a service that has ended, or that was removed, comes to an end,
\* and so does one whose client went away: no goroutine waits for another.
SessionEnds ==
    \A v \in Viewers :
        /\ main[v] = "reading" /\ conn[v] # "up" ~> main[v] = "idle"
        /\ main[v] = "reading" /\ closed ~> main[v] = "idle"
        /\ main[v] = "reading" /\ ended ~> main[v] = "idle" \/ ~ended

=============================================================================
