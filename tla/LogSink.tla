------------------------------- MODULE LogSink -------------------------------
(***************************************************************************)
(* The disk writer of one service's output (internal/fabric/logfile.go):    *)
(* a subscriber of the OutputBuffer that appends what it receives to a      *)
(* file, attaches again when it has fallen behind, moves to another file    *)
(* when the service is renamed, and puts the file down when the service is  *)
(* removed.                                                                 *)
(*                                                                         *)
(* The writer's goroutine (LogSink.run) runs beside the goroutine that      *)
(* drains the terminal into the buffer and beside the one serving a rename  *)
(* or a removal.  Those two hold the service's lifecycle lock, so there is  *)
(* one of them at a time.  A rename makes its new LogSink once the old one  *)
(* has finished, so the same variables serve both.  The file is the         *)
(* sequence of stream offsets in it; rotation is modelled apart.            *)
(***************************************************************************)
EXTENDS OutputBuffer

CONSTANT MaxMoves  \* bound: renames in a behaviour

ASSUME MovesAssumption == MaxMoves \in Nat

VARIABLES writer,    \* pc of LogSink.run, or of the openLogSink that precedes it
          cur,       \* LogSink.sub
          next,      \* the subscriber a re-attach returned, before it is cur
          snap,      \* the interval of offsets its snapshot covers
          chunk,     \* the chunk being written
          flushed,   \* LogSink.flushed
          closing,   \* LogSink.closing
          disk,      \* offsets in the file, in file order
          said,      \* bytes admitted missing: noted in the file or counted as dropped
          sink,      \* the buffer knows the writer (OutputBuffer.sink # nil)
          ctl,       \* pc of the rename or removal under way
          ctlSub,    \* the subscriber LogSink.Close read under l.mu
          moves,     \* renames so far
          timedOut,  \* a Close gave up waiting, and said so
          late       \* history: a close fell between a re-attach and its catch-up

fileVars == <<flushed, disk, said>>
ctlVars  == <<sink, ctl, ctlSub, moves, timedOut>>
sinkVars == <<bufferVars, writer, cur, next, snap, chunk, fileVars, closing, ctlVars, late>>

SinkTypeOK ==
    /\ BufferTypeOK
    /\ writer \in {"resuming", "draining", "writing", "lagging", "attached", "detaching",
                   "catching", "done"}
    /\ cur \in Subs /\ next \in Subs /\ ctlSub \in Subs
    /\ snap \in Chunk /\ chunk \in Chunk
    /\ flushed \in 0..MaxWritten
    /\ closing \in BOOLEAN
    /\ disk \in Seq(0..MaxWritten)
    /\ said \in 0..MaxWritten
    /\ sink \in BOOLEAN
    /\ ctl \in {"idle", "closing", "detaching", "waiting", "moving", "resuming",
                "deleting", "removed"}
    /\ moves \in 0..MaxMoves
    /\ timedOut \in BOOLEAN
    /\ late \in BOOLEAN

\* A buffer just made, whose sink attached to it while it was still empty.
SinkInit ==
    /\ \E i \in Subs : /\ BufferInit({i})
                       /\ cur = i /\ next = i /\ ctlSub = i
    /\ writer = "draining"
    /\ snap = Nothing /\ chunk = Nothing
    /\ flushed = 0 /\ disk = <<>> /\ said = 0
    /\ closing = FALSE
    /\ sink = TRUE /\ ctl = "idle" /\ moves = 0 /\ timedOut = FALSE
    /\ late = FALSE

----------------------------------------------------------------------------
(* The service writes. *)

ServiceWrites(n) ==
    /\ Write(n)
    /\ UNCHANGED <<writer, cur, next, snap, chunk, fileVars, closing, ctlVars, late>>

----------------------------------------------------------------------------
(* LogSink.run. *)

ReceiveChunk ==
    /\ writer = "draining"
    /\ Take(cur)
    /\ chunk' = Head(sub[cur].ch)
    /\ writer' = "writing"
    /\ UNCHANGED <<cur, next, snap, fileVars, closing, ctlVars, late>>

\* emit: the first k of the bytes from lo to hi reach the file and the rest are
\* counted as dropped - none are when the disk takes writes.
Emit(lo, hi, k) ==
    /\ disk' = disk \o Bytes(lo, lo + k)
    /\ said' = said + (hi - lo - k)

\* Mutant: what a failed write did not keep is written again by the next one.
EmitChunkKeepsOffset(k) ==
    /\ Emit(chunk.lo, chunk.hi, k)
    /\ flushed' = flushed + k

\* A chunk goes to the file, and counts as flushed whatever became of it.
EmitChunk(k) ==
    /\ Emit(chunk.lo, chunk.hi, k)
    /\ flushed' = flushed + (chunk.hi - chunk.lo)

WriteChunk ==
    /\ writer = "writing"
    /\ \E k \in 0..(chunk.hi - chunk.lo) : EmitChunk(k)
    /\ Consumed(cur, chunk.hi - chunk.lo)
    /\ chunk' = Nothing
    /\ writer' = "draining"
    /\ UNCHANGED <<cur, next, snap, closing, ctlVars, late>>

\* The channel has ended: closed, or recoverable because the writer lagged.
StreamEnds ==
    /\ writer = "draining"
    /\ StreamEnded(cur)
    /\ writer' = IF closing \/ ~sub[cur].lagged THEN "done" ELSE "lagging"
    /\ UNCHANGED <<bufferVars, cur, next, snap, chunk, fileVars, closing, ctlVars, late>>

\* The ring's contents at an attach, as offsets (RingIsTail).
RingInterval == [lo |-> written - size, hi |-> written]

\* Attaching again, unless the buffer has been closed meanwhile.
Reattach ==
    /\ writer = "lagging"
    /\ IF closed
       THEN /\ writer' = "done"
            /\ UNCHANGED <<bufferVars, next, snap>>
       ELSE /\ \E i \in Subs \ {cur} : Attach(i) /\ next' = i
            /\ snap' = RingInterval
            /\ writer' = "attached"
    /\ UNCHANGED <<cur, chunk, fileVars, closing, ctlVars, late>>

\* Mutant: whether the writer was closed meanwhile is not looked at.
InstallBlind ==
    /\ writer = "attached"
    /\ cur' = next
    /\ writer' = "catching"
    /\ UNCHANGED <<bufferVars, next, snap, chunk, fileVars, closing, ctlVars, late>>

\* The new subscriber becomes the writer's, under the lock closing is read by.
Install ==
    /\ writer = "attached"
    /\ cur' = next
    /\ writer' = IF closing THEN "detaching" ELSE "catching"
    /\ UNCHANGED <<bufferVars, next, snap, chunk, fileVars, closing, ctlVars, late>>

\* Closed meanwhile: the new subscriber is detached and drained, with no
\* catching up to where it starts.
DetachNext ==
    /\ writer = "detaching"
    /\ Detach(cur)
    /\ writer' = "draining"
    /\ late' = TRUE
    /\ UNCHANGED <<cur, next, snap, chunk, fileVars, closing, ctlVars>>

\* catchUp: what the snapshot has that the file does not; what neither has is
\* noted in the file.
CatchUp(k) ==
    /\ IF flushed >= snap.hi THEN UNCHANGED <<disk, said>>
       ELSE IF flushed >= snap.lo THEN Emit(flushed, snap.hi, k)
       ELSE /\ disk' = disk \o Bytes(snap.lo, snap.lo + k)
            /\ said' = said + (snap.hi - flushed - k)
    /\ flushed' = snap.hi

\* How much of a snapshot there is to write.
Fresher == IF flushed >= snap.hi THEN 0
           ELSE snap.hi - (IF flushed >= snap.lo THEN flushed ELSE snap.lo)

CatchesUpLag ==
    /\ writer = "catching"
    /\ \E k \in 0..Fresher : CatchUp(k)
    /\ writer' = "draining"
    /\ UNCHANGED <<bufferVars, cur, next, snap, chunk, closing, ctlVars, late>>

----------------------------------------------------------------------------
(* A rename (MoveLog, moveTo) or a removal (OutputBuffer.Close, removeLogs). *)

MoveLog ==
    /\ ctl = "idle" /\ sink /\ ~closed
    /\ moves < MaxMoves
    /\ moves' = moves + 1
    /\ ctl' = "closing"
    /\ UNCHANGED <<bufferVars, writer, cur, next, snap, chunk, fileVars, closing, sink,
                   ctlSub, timedOut, late>>

\* OutputBuffer.Close ends every stream, then closes the sink it knows of.
Remove ==
    /\ ctl = "idle" /\ ~closed
    /\ CloseBuffer
    /\ ctl' = IF sink THEN "closing" ELSE "deleting"
    /\ UNCHANGED <<writer, cur, next, snap, chunk, fileVars, closing, sink, ctlSub, moves,
                   timedOut, late>>

\* LogSink.Close: closing is set and the subscriber read under l.mu ...
CloseAsk ==
    /\ ctl = "closing"
    /\ closing' = TRUE
    /\ ctlSub' = cur
    /\ ctl' = "detaching"
    /\ UNCHANGED <<bufferVars, writer, cur, next, snap, chunk, fileVars, sink, moves,
                   timedOut, late>>

\* ... and that subscriber detached under o.mu.
CloseDetach ==
    /\ ctl = "detaching"
    /\ Detach(ctlSub)
    /\ ctl' = "waiting"
    /\ UNCHANGED <<writer, cur, next, snap, chunk, fileVars, closing, sink, ctlSub, moves,
                   timedOut, late>>

\* Mutant: nothing waits for the writer.
CloseWaitNot ==
    /\ ctl = "waiting"
    /\ ctl' = IF closed THEN "deleting" ELSE "moving"
    /\ UNCHANGED <<bufferVars, writer, cur, next, snap, chunk, fileVars, closing, sink,
                   ctlSub, moves, timedOut, late>>

\* The writer has put the file down.
CloseDone ==
    /\ ctl = "waiting"
    /\ writer = "done"
    /\ ctl' = IF closed THEN "deleting" ELSE "moving"
    /\ UNCHANGED <<bufferVars, writer, cur, next, snap, chunk, fileVars, closing, sink,
                   ctlSub, moves, timedOut, late>>

\* Five seconds pass first.  A rename then leaves the log where it is, with
\* nothing writing it from then on; a removal goes ahead, and says so.
CloseTimesOut ==
    /\ ctl = "waiting"
    /\ writer # "done"
    /\ timedOut' = TRUE
    /\ ctl' = IF closed THEN "deleting" ELSE "idle"
    /\ sink' = (sink /\ closed)
    /\ UNCHANGED <<bufferVars, writer, cur, next, snap, chunk, fileVars, closing, ctlSub,
                   moves, late>>

\* The files renamed, or left where they are and reported, a new writer opens
\* and resumes at the offset the old one reached.
OpenMoved ==
    /\ ctl = "moving"
    /\ \E i \in Subs : Attach(i) /\ cur' = i
    /\ snap' = RingInterval
    /\ closing' = FALSE
    /\ writer' = "resuming"
    /\ ctl' = "resuming"
    /\ UNCHANGED <<next, chunk, fileVars, sink, ctlSub, moves, timedOut, late>>

\* The file will not open: the buffer is left with no writer.
OpenFails ==
    /\ ctl = "moving"
    /\ sink' = FALSE
    /\ ctl' = "idle"
    /\ UNCHANGED <<bufferVars, writer, cur, next, snap, chunk, fileVars, closing, ctlSub,
                   moves, timedOut, late>>

\* openLogSink's catchUp, and SetSink; then the new writer's goroutine runs.
CatchesUpMove ==
    /\ ctl = "resuming"
    /\ \E k \in 0..Fresher : CatchUp(k)
    /\ writer' = "draining"
    /\ ctl' = "idle"
    /\ UNCHANGED <<bufferVars, cur, next, snap, chunk, closing, sink, ctlSub, moves,
                   timedOut, late>>

\* removeLogs, unless the log is to be kept.
DeleteLogs ==
    /\ ctl = "deleting"
    /\ ctl' = "removed"
    /\ UNCHANGED <<bufferVars, writer, cur, next, snap, chunk, fileVars, closing, sink,
                   ctlSub, moves, timedOut, late>>

----------------------------------------------------------------------------

Run == \/ ReceiveChunk \/ WriteChunk \/ StreamEnds \/ Reattach \/ Install \/ DetachNext
       \/ CatchesUpLag

Ctl == \/ CloseAsk \/ CloseDetach \/ CloseDone \/ OpenMoved \/ OpenFails \/ CatchesUpMove
       \/ DeleteLogs

SinkNext ==
    \/ \E n \in 1..MaxChunk : ServiceWrites(n)
    \/ Run
    \/ MoveLog \/ Remove \/ Ctl \/ CloseTimesOut

\* Both goroutines run; a disk that hangs for ever is not assumed away by the
\* safety properties, only by these.
SinkSpec == SinkInit /\ [][SinkNext]_sinkVars /\ WF_sinkVars(Run) /\ WF_sinkVars(Ctl)

----------------------------------------------------------------------------

\* A writer that has finished because the service was removed has kept every
\* byte or admitted it missing, unless it had fallen behind.
AllKeptOrSaid ==
    writer = "done" /\ closed /\ sink /\ ctl # "moving" /\ ~late /\ ~sub[cur].lagged =>
        Len(disk) + said = written

\* Each step that advances the log advances a Transcript.
Log == INSTANCE Transcript WITH kept <- disk, said <- said, upTo <- flushed

KeepsTranscript == Log!Init /\ [][late \/ Log!Advance]_<<disk, said, flushed>>

\* Once the log's files are deleted nothing is written any more, unless a Close
\* gave up waiting and said so: `rm` does not report deleting a transcript
\* that is being written back.
DeletedStaysDeleted == [][ctl = "removed" /\ ~timedOut => UNCHANGED disk]_sinkVars

\* A writer told to close does, wherever in its loop it was told.
CloseFinishes == closing ~> writer = "done"

=============================================================================
