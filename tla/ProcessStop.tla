---------------------------- MODULE ProcessStop ----------------------------
(***************************************************************************)
(* Stopping one process of a service (internal/fabric/process.go): the      *)
(* leader, what it has started, the process group and the cgroup they are   *)
(* reached by, the goroutine that reaps the leader, and the callers of      *)
(* Process.Stop, of which there are two as a matter of course, the          *)
(* supervisor and its loop.                                                *)
(*                                                                         *)
(* A signal that may be ignored is only a request: a member may exit at any *)
(* time and for any reason.  Timers count down in ticks, and may be late.   *)
(***************************************************************************)
EXTENDS Naturals

CONSTANTS Leader,       \* the process of Process.pid
          Kids,         \* what it may come to start: a bound
          Stoppers,     \* callers of Stop
          NoOne,        \* stopMu is free
          Grace,        \* StopGrace
          HangupAfter,  \* hangupAfter
          DrainGrace,   \* DrainGrace
          DrainAbandon  \* DrainAbandon

ASSUME ProcessStopAssumption ==
    /\ Leader \notin Kids /\ NoOne \notin Stoppers
    /\ {Grace, HangupAfter, DrainGrace, DrainAbandon} \subseteq Nat

VARIABLES st,       \* of each member: "none", "live", "dying" once SIGKILLed, "gone"
          group,    \* in the leader's process group
          inside,   \* in the cgroup; the leader is, if the run has one at all
          holds,    \* has the terminal open
          drained,  \* the reader of the terminal has stopped
          reap,     \* pc of Process.reap
          reapLeft, \* its timer
          stop,     \* pc of each caller of Stop
          mu,       \* who has stopMu
          left,     \* time to the deadline of the stop that has it
          hang,     \* time to its SIGHUP
          owed,     \* history: members that were there when it looked, and not asked since
          late      \* history: a stop did not ask the group, since the leader was reaped

members == <<st, group, inside, holds>>
reaper == <<drained, reap, reapLeft>>
stopper == <<stop, mu, left, hang>>
vars == <<members, reaper, stopper, owed, late>>

Members == {Leader} \cup Kids
Alive == {m \in Members : st[m] \in {"live", "dying"}}
Live == {m \in Members : st[m] = "live"}

\* Process.reaped; Process.exited, with done closed.
Reaped == reap # "waiting"
Done == reap = "done"

TypeOK ==
    /\ st \in [Members -> {"none", "live", "dying", "gone"}]
    /\ group \subseteq Members /\ inside \subseteq Members
    /\ holds \subseteq Members /\ owed \subseteq Members
    /\ drained \in BOOLEAN /\ late \in BOOLEAN
    /\ reap \in {"waiting", "draining", "closed", "done"}
    /\ reapLeft \in Nat
    /\ stop \in [Stoppers -> {"idle", "looking", "term", "cgroup", "asking", "hangup", "grace",
                              "emptying", "sweeping", "waiting"}]
    /\ left \in Nat /\ hang \in Nat
    /\ mu \in Stoppers \cup {NoOne}

\* The leader and what it may have started by now.  There is no cgroup, or it
\* was born in one, or it was moved there after the others were born.
Init ==
    /\ \E kids \in SUBSET Kids :
         /\ st = [m \in Members |-> IF m = Leader \/ m \in kids THEN "live" ELSE "none"]
         /\ group = {Leader} \cup kids /\ holds = {Leader} \cup kids
         /\ inside \in {{}, {Leader}, {Leader} \cup kids}
    /\ owed = {} /\ late = FALSE
    /\ drained = FALSE /\ reap = "waiting" /\ reapLeft = 0
    /\ stop = [c \in Stoppers |-> "idle"] /\ mu = NoOne
    /\ left = 0 /\ hang = 0

----------------------------------------------------------------------------
(* The members, and time. *)

Fork(m, k) ==
    /\ st[m] = "live" /\ st[k] = "none"
    /\ st' = [st EXCEPT ![k] = "live"]
    /\ group' = IF m \in group THEN group \cup {k} ELSE group
    /\ inside' = IF m \in inside THEN inside \cup {k} ELSE inside
    /\ holds' = IF m \in holds THEN holds \cup {k} ELSE holds
    /\ UNCHANGED <<reaper, stopper, owed, late>>

\* The leader leads its session already.
Setsid(k) ==
    /\ st[k] = "live" /\ k \in group
    /\ group' = group \ {k}
    /\ UNCHANGED <<st, inside, holds, reaper, stopper, owed, late>>

LetTerminalGo(m) ==
    /\ st[m] = "live" /\ m \in holds
    /\ holds' = holds \ {m}
    /\ UNCHANGED <<st, group, inside, reaper, stopper, owed, late>>

Exit(m) ==
    /\ m \in Alive
    /\ st' = [st EXCEPT ![m] = "gone"]
    /\ holds' = holds \ {m}
    /\ UNCHANGED <<group, inside, reaper, stopper, owed, late>>

Die(m) == st[m] = "dying" /\ Exit(m)

Less(t) == IF t = 0 THEN 0 ELSE t - 1

Tick ==
    /\ reapLeft' = Less(reapLeft)
    /\ left' = Less(left)
    /\ hang' = Less(hang)
    /\ <<reapLeft', left', hang'>> # <<reapLeft, left, hang>>
    /\ UNCHANGED <<members, drained, reap, stop, mu, owed, late>>

----------------------------------------------------------------------------
(* drain and reap. *)

\* The reader stops when nobody has the terminal open; closing the master does
\* not wake it, but what is written afterwards does.
DrainEnds ==
    /\ ~drained /\ holds = {}
    /\ drained' = TRUE
    /\ UNCHANGED <<members, reap, reapLeft, stopper, owed, late>>

DrainWoken ==
    /\ ~drained /\ reap = "closed"
    /\ drained' = TRUE
    /\ UNCHANGED <<members, reap, reapLeft, stopper, owed, late>>

ReapWaited ==
    /\ reap = "waiting" /\ st[Leader] = "gone"
    /\ reap' = "draining" /\ reapLeft' = DrainGrace
    /\ UNCHANGED <<members, drained, stopper, owed, late>>

ReapDrained ==
    /\ reap \in {"draining", "closed"} /\ drained
    /\ reap' = "done" /\ reapLeft' = 0
    /\ UNCHANGED <<members, drained, stopper, owed, late>>

ReapCloses ==
    /\ reap = "draining" /\ reapLeft = 0
    /\ reap' = "closed" /\ reapLeft' = DrainAbandon
    /\ UNCHANGED <<members, drained, stopper, owed, late>>

\* Mutant: the reader is waited for without limit.
ReapAbandonsNot ==
    /\ reap = "closed" /\ reapLeft = 0 /\ drained
    /\ reap' = "done"
    /\ UNCHANGED <<members, drained, reapLeft, stopper, owed, late>>

ReapAbandons ==
    /\ reap = "closed" /\ reapLeft = 0
    /\ reap' = "done"
    /\ UNCHANGED <<members, drained, reapLeft, stopper, owed, late>>

Reap == ReapWaited \/ ReapDrained \/ ReapCloses \/ ReapAbandons

----------------------------------------------------------------------------
(* Stop. *)

Goto(c, from, to) == stop[c] = from /\ stop' = [stop EXCEPT ![c] = to]

Lock(c) ==
    /\ mu = NoOne /\ Goto(c, "idle", "looking")
    /\ mu' = c
    /\ UNCHANGED <<members, reaper, left, hang, owed, late>>

\* The grace is the service's: one deadline for all of it.
Look(c) ==
    /\ Goto(c, "looking", IF Done THEN "asking" ELSE "term")
    /\ left' = Grace
    /\ owed' = Live
    /\ UNCHANGED <<members, reaper, hang, mu, late>>

\* stopSignal: nothing is sent once the leader is reaped, its pid being free.
AskGroup(c) ==
    /\ Goto(c, "term", "cgroup")
    /\ owed' = IF Reaped THEN owed ELSE owed \ group
    /\ late' = (late \/ Reaped)
    /\ UNCHANGED <<members, reaper, left, hang, mu>>

\* signalCgroup, of those the group's signal is taken to have reached or not.
AskRest(c) ==
    /\ Goto(c, "cgroup", "hangup")
    /\ owed' = owed \ (inside \ group)
    /\ hang' = HangupAfter
    /\ UNCHANGED <<members, reaper, left, mu, late>>

AskAll(c) ==
    /\ Goto(c, "asking", "emptying")
    /\ owed' = owed \ inside
    /\ UNCHANGED <<members, reaper, left, hang, mu, late>>

\* Mutant: a leader that ends in time ends the stop.
LeaderEndedUnswept(c) ==
    /\ Done
    /\ Goto(c, "hangup", "waiting") \/ Goto(c, "grace", "waiting")
    /\ UNCHANGED <<members, reaper, left, hang, mu, owed, late>>

LeaderEnded(c) ==
    /\ Done
    /\ Goto(c, "hangup", "emptying") \/ Goto(c, "grace", "emptying")
    /\ UNCHANGED <<members, reaper, left, hang, mu, owed, late>>

\* SIGHUP asks again.
HangUp(c) ==
    /\ hang = 0 /\ Goto(c, "hangup", "grace")
    /\ UNCHANGED <<members, reaper, left, hang, mu, owed, late>>

Killed(targets) ==
    st' = [m \in Members |-> IF m \in targets /\ st[m] = "live" THEN "dying" ELSE st[m]]

KillGroup(c) ==
    /\ left = 0 /\ Goto(c, "grace", "emptying")
    /\ Killed(IF Reaped THEN {} ELSE group)
    /\ UNCHANGED <<group, inside, holds, reaper, left, hang, mu, owed, late>>

\* waitCgroupEmpty: at once without a cgroup.
Emptied(c) ==
    /\ Goto(c, "emptying", "sweeping")
    /\ Leader \notin inside \/ Alive \cap inside = {} \/ left = 0
    /\ UNCHANGED <<members, reaper, left, hang, mu, owed, late>>

Sweep(c) ==
    /\ Goto(c, "sweeping", "waiting")
    /\ Killed(inside)
    /\ UNCHANGED <<group, inside, holds, reaper, left, hang, mu, owed, late>>

Return(c) ==
    /\ Done /\ Goto(c, "waiting", "idle")
    /\ mu' = NoOne
    /\ left' = 0 /\ hang' = 0 /\ owed' = {}
    /\ UNCHANGED <<members, reaper, late>>

Stop(c) ==
    \/ Look(c) \/ AskGroup(c) \/ AskRest(c) \/ AskAll(c) \/ LeaderEnded(c) \/ HangUp(c)
    \/ KillGroup(c) \/ Emptied(c) \/ Sweep(c) \/ Return(c)

----------------------------------------------------------------------------
Next ==
    \/ \E m \in Members : Exit(m) \/ LetTerminalGo(m) \/ \E k \in Kids : Fork(m, k)
    \/ \E k \in Kids : Setsid(k)
    \/ Tick \/ DrainEnds \/ DrainWoken \/ Reap
    \/ \E c \in Stoppers : Lock(c) \/ Stop(c)

\* Timers expire, SIGKILL kills, and the daemon's goroutines run.
Fairness ==
    /\ WF_vars(Tick) /\ WF_vars(DrainEnds) /\ WF_vars(Reap)
    /\ \A m \in Members : WF_vars(Die(m))
    /\ \A c \in Stoppers : WF_vars(Stop(c))

Spec == Init /\ [][Next]_vars /\ Fairness

----------------------------------------------------------------------------
(* Properties. *)

Kills(m) == st[m] = "live" /\ st'[m] = "dying"

\* A member of the cgroup other than the leader goes on.
KidsGoOn == (Live \cap inside) \ {Leader} # {}

Promise == INSTANCE StoppedProcess
    WITH Callers <- Stoppers, leader <- IF Done THEN "gone" ELSE "live", kids <- KidsGoOn,
         stopping <- {c \in Stoppers : stop[c] # "idle"}

\* Stop keeps the promise a StoppedProcess makes: it returns only when the leader's
\* end has been reported and nothing that was in its cgroup goes on, and nothing is
\* born there any more, however promptly the leader ended (the "always sweep" of
\* Process.Stop).
KeepsPromise == Promise!Spec

\* The leader itself has by then ended, not only been reported, and is not alive
\* in the cgroup either.
StopIsComplete ==
    [][\A c \in Stoppers : stop[c] = "waiting" /\ stop'[c] = "idle" =>
         st[Leader] = "gone" /\ Live \cap inside = {}]_vars

\* No member is killed before the whole grace period of the stop that kills it,
\* whoever of leader and children ends first and however many callers there are.
GraceIsWhole == [][\A m \in Members : Kills(m) => mu # NoOne /\ left = 0]_vars

\* And none that was there when the stop began is killed without having been
\* asked.  Void once a stop fell between the reaping of the leader and the
\* report of its exit.
AskedFirst ==
    [][~late => \A m \in Members : Kills(m) => m \notin owed]_vars

\* Every stop returns, terminal held open or not (DrainAbandon).
StopReturns == mu # NoOne ~> mu = NoOne

=============================================================================
