----------------------------- MODULE Supervisor -----------------------------
(***************************************************************************)
(* The supervision loop (internal/fabric/supervisor.go) of every supervisor *)
(* a service has had, each with the process it looks after.  A service is   *)
(* given a fresh supervisor whenever it is started after its loop ended, so *)
(* two may be at work at once: the one being stopped and its successor.     *)
(*                                                                         *)
(* A process is its leader and the rest of its cgroup ("kids").  What       *)
(* Process.Stop does inside - signals, the grace period, the sweep - is     *)
(* abstracted to its outcome: it returns once both are gone.                *)
(***************************************************************************)
EXTENDS RestartTracker, FiniteSets

CONSTANTS Sups,        \* identities of supervisors
          MaxRestarts  \* bound: restarts counted by one supervisor

ASSUME SupervisorAssumption == MaxRestarts \in Nat

VARIABLES loop,    \* pc of Supervisor.run
          st,      \* the Status each publishes
          pol,     \* restart policy in its copy of the definition
          tracker, \* its RestartTracker
          cancel,  \* its context is cancelled
          cur,     \* Supervisor.cur is set
          leader,  \* "none", "live" or "gone": the process itself
          kids,    \* the rest of its cgroup is not empty
          asked    \* somebody is in Process.Stop for it

supVars == <<loop, st, pol, tracker, cancel, cur, leader, kids, asked>>

Status ==
    [state    : {"stopped", "running", "backing-off", "failed", "exited"},
     pid      : BOOLEAN,   \* Pid # 0
     started  : BOOLEAN,
     ended    : BOOLEAN,
     deadline : BOOLEAN]   \* NextRestart is set

NewStatus == [state |-> "stopped", pid |-> FALSE, started |-> FALSE, ended |-> FALSE,
              deadline |-> FALSE]

Live(s) == st[s].started /\ ~st[s].ended

SupTypeOK ==
    /\ loop \in [Sups -> {"idle", "top", "spawned", "current", "waiting", "stopping",
                          "reaped", "unspawned", "deciding", "backoff", "ending", "done"}]
    /\ st \in [Sups -> Status]
    /\ pol \in [Sups -> Policies]
    /\ tracker \in [Sups -> [delay : 0..BackoffMax, restarts : 0..MaxRestarts]]
    /\ cancel \in [Sups -> BOOLEAN]
    /\ cur \in [Sups -> BOOLEAN]
    /\ leader \in [Sups -> {"none", "live", "gone"}]
    /\ kids \in [Sups -> BOOLEAN]
    /\ asked \in [Sups -> BOOLEAN]

SupInit ==
    /\ loop = [s \in Sups |-> "idle"]
    /\ st = [s \in Sups |-> NewStatus]
    /\ pol = [s \in Sups |-> "no"]
    /\ tracker = [s \in Sups |-> Reset]
    /\ cancel = [s \in Sups |-> FALSE]
    /\ cur = [s \in Sups |-> FALSE]
    /\ leader = [s \in Sups |-> "none"]
    /\ kids = [s \in Sups |-> FALSE]
    /\ asked = [s \in Sups |-> FALSE]

Goto(s, pc) == loop' = [loop EXCEPT ![s] = pc]

\* setStatus: one snapshot is published in place of another.
SetStatus(s, state, pid, deadline) ==
    st' = [st EXCEPT ![s] = [state |-> state, pid |-> pid, started |-> st[s].started,
                             ended |-> st[s].ended, deadline |-> deadline]]

----------------------------------------------------------------------------
(* The process. *)

\* It starts something of its own, and that may end by itself.
Fork(s) ==
    /\ leader[s] = "live"
    /\ kids' = [kids EXCEPT ![s] = TRUE]
    /\ UNCHANGED <<loop, st, pol, tracker, cancel, cur, leader, asked>>

\* It exits, by itself or because it was asked, and is reaped.
Exit(s) ==
    /\ leader[s] = "live"
    /\ leader' = [leader EXCEPT ![s] = "gone"]
    /\ UNCHANGED <<loop, st, pol, tracker, cancel, cur, kids, asked>>

\* What it started is gone.
KidsExit(s) ==
    /\ kids[s]
    /\ kids' = [kids EXCEPT ![s] = FALSE]
    /\ UNCHANGED <<loop, st, pol, tracker, cancel, cur, leader, asked>>

\* Process.Stop of s has done all it does.
ProcessStopped(s) == leader[s] # "live" /\ ~kids[s]

----------------------------------------------------------------------------
(* The loop. *)

\* The head of the loop, cancelled.
TopCancelled(s) ==
    /\ loop[s] = "top" /\ cancel[s]
    /\ SetStatus(s, "stopped", FALSE, st[s].deadline)
    /\ Goto(s, "ending")
    /\ UNCHANGED <<pol, tracker, cancel, cur, leader, kids, asked>>

\* The spawn works.  Whatever an earlier process left behind is nobody's now.
Spawn(s) ==
    /\ loop[s] = "top" /\ ~cancel[s]
    /\ leader' = [leader EXCEPT ![s] = "live"]
    /\ kids' = [kids EXCEPT ![s] = FALSE]
    /\ Goto(s, "spawned")
    /\ UNCHANGED <<st, pol, tracker, cancel, cur, asked>>

\* RestartTracker.Died; the count of restarts stops at its bound.
Counted(t, ranFor) ==
    LET died == Died(t, ranFor)
    IN  [delay    |-> died.delay,
         restarts |-> IF died.restarts < MaxRestarts THEN died.restarts ELSE MaxRestarts]

\* nextBackoff, and its delay published with the state it belongs to.
BackOff(s, ranFor) ==
    /\ tracker' = [tracker EXCEPT ![s] = Counted(tracker[s], ranFor)]
    /\ SetStatus(s, "backing-off", FALSE, TRUE)

\* The spawn fails, and that is reported ...
SpawnFails(s) ==
    /\ loop[s] = "top" /\ ~cancel[s]
    /\ SetStatus(s, st[s].state, FALSE, st[s].deadline)
    /\ Goto(s, "unspawned")
    /\ UNCHANGED <<pol, tracker, cancel, cur, leader, kids, asked>>

\* ... and tried again only under "always".
SpawnVerdict(s) ==
    /\ loop[s] = "unspawned"
    /\ IF pol[s] = "always"
       THEN BackOff(s, 0) /\ Goto(s, "backoff")
       ELSE /\ SetStatus(s, "failed", st[s].pid, st[s].deadline)
            /\ Goto(s, "ending")
            /\ UNCHANGED tracker
    /\ UNCHANGED <<pol, cancel, cur, leader, kids, asked>>

SetCurrent(s) ==
    /\ loop[s] = "spawned"
    /\ cur' = [cur EXCEPT ![s] = TRUE]
    /\ Goto(s, "current")
    /\ UNCHANGED <<st, pol, tracker, cancel, leader, kids, asked>>

PublishRunning(s) ==
    /\ loop[s] = "current"
    /\ SetStatus(s, "running", TRUE, FALSE)
    /\ Goto(s, "waiting")
    /\ UNCHANGED <<pol, tracker, cancel, cur, leader, kids, asked>>

\* The select: the process is done, or the context is.
Exited(s) ==
    /\ loop[s] = "waiting"
    /\ leader[s] = "gone"
    /\ Goto(s, "reaped")
    /\ UNCHANGED <<st, pol, tracker, cancel, cur, leader, kids, asked>>

\* Mutant: the process is stopped only where Supervisor.Stop found it.
CancelledWhereFound(s) ==
    /\ loop[s] = "waiting" /\ cancel[s] /\ asked[s]
    /\ Goto(s, "stopping")
    /\ UNCHANGED <<st, pol, tracker, cancel, cur, leader, kids, asked>>

Cancelled(s) ==
    /\ loop[s] = "waiting" /\ cancel[s]
    /\ asked' = [asked EXCEPT ![s] = TRUE]
    /\ Goto(s, "stopping")
    /\ UNCHANGED <<st, pol, tracker, cancel, cur, leader, kids>>

LoopStopped(s) ==
    /\ loop[s] = "stopping"
    /\ ProcessStopped(s)
    /\ Goto(s, "reaped")
    /\ UNCHANGED <<st, pol, tracker, cancel, cur, leader, kids, asked>>

\* Close, and cur is let go of.
LetGo(s) ==
    /\ loop[s] = "reaped"
    /\ cur' = [cur EXCEPT ![s] = FALSE]
    /\ leader' = [leader EXCEPT ![s] = "none"]
    /\ Goto(s, "deciding")
    /\ UNCHANGED <<st, pol, tracker, cancel, kids, asked>>

\* Where it goes from here is worked out before the exit is published.
Decide(s) ==
    /\ loop[s] = "deciding"
    /\ \E exit \in Exits :
         IF ~cancel[s] /\ ShouldRestart(pol[s], exit)
         THEN (\E ranFor \in {0, StableAfter} : BackOff(s, ranFor)) /\ Goto(s, "backoff")
         ELSE /\ SetStatus(s, IF cancel[s] THEN "stopped"
                              ELSE IF exit = "clean" THEN "exited" ELSE "failed",
                           FALSE, st[s].deadline)
              /\ Goto(s, "ending")
              /\ UNCHANGED tracker
    /\ UNCHANGED <<pol, cancel, cur, leader, kids, asked>>

\* waitBackoff: the delay passes, or the wait is cancelled.
BackoffOver(s) ==
    /\ loop[s] = "backoff"
    /\ Goto(s, "top")
    /\ UNCHANGED <<st, pol, tracker, cancel, cur, leader, kids, asked>>

BackoffCancelled(s) ==
    /\ loop[s] = "backoff" /\ cancel[s]
    /\ SetStatus(s, "stopped", st[s].pid, FALSE)
    /\ Goto(s, "ending")
    /\ UNCHANGED <<pol, tracker, cancel, cur, leader, kids, asked>>

\* The deferred setStatus, and then close(done).  The tracker is not read again.
PublishEnded(s) ==
    /\ loop[s] = "ending"
    /\ st' = [st EXCEPT ![s].ended = TRUE]
    /\ tracker' = [tracker EXCEPT ![s] = Reset]
    /\ Goto(s, "done")
    /\ UNCHANGED <<pol, cancel, cur, leader, kids, asked>>

Loop(s) ==
    \/ TopCancelled(s) \/ Spawn(s) \/ SpawnFails(s) \/ SpawnVerdict(s)
    \/ SetCurrent(s) \/ PublishRunning(s)
    \/ Exited(s) \/ Cancelled(s) \/ LoopStopped(s) \/ LetGo(s) \/ Decide(s)
    \/ BackoffOver(s) \/ BackoffCancelled(s) \/ PublishEnded(s)

World(s) == Fork(s) \/ Exit(s) \/ KidsExit(s)

----------------------------------------------------------------------------
(* What the fabric does to a supervisor. *)

\* NewSupervisor, on an identity nothing refers to any more.
Create(s, policy) ==
    /\ loop' = [loop EXCEPT ![s] = "idle"]
    /\ st' = [st EXCEPT ![s] = NewStatus]
    /\ pol' = [pol EXCEPT ![s] = policy]
    /\ tracker' = [tracker EXCEPT ![s] = Reset]
    /\ cancel' = [cancel EXCEPT ![s] = FALSE]
    /\ asked' = [asked EXCEPT ![s] = FALSE]
    /\ UNCHANGED <<cur, leader, kids>>

\* Supervisor.Start; ErrAlreadyStarted changes nothing.
Launch(s) ==
    IF st[s].started THEN UNCHANGED supVars
    ELSE /\ st' = [st EXCEPT ![s].started = TRUE]
         /\ Goto(s, "top")
         /\ UNCHANGED <<pol, tracker, cancel, cur, leader, kids, asked>>

\* Supervisor.Stop, the part before it waits.  Reading cur and cancelling are
\* one step: no restart delay passes between the two.
StopAsk(s) ==
    IF ~st[s].started THEN UNCHANGED supVars
    ELSE /\ cancel' = [cancel EXCEPT ![s] = TRUE]
         /\ asked' = IF cur[s] THEN [asked EXCEPT ![s] = TRUE] ELSE asked
         /\ UNCHANGED <<loop, st, pol, tracker, cur, leader, kids>>

\* It has returned.
StopReturns(s) ==
    /\ asked' = [asked EXCEPT ![s] = FALSE]
    /\ UNCHANGED <<loop, st, pol, tracker, cancel, cur, leader, kids>>

\* Supervisor.redefine.
Redefine(s, policy) ==
    /\ pol' = [pol EXCEPT ![s] = policy]
    /\ UNCHANGED <<loop, st, tracker, cancel, cur, leader, kids, asked>>

\* Mutant: only the loop is waited for.
StopOverLoopOnly(s) == ~st[s].started \/ loop[s] = "done"

\* What Supervisor.Stop waits for: the loop, and the process it found.
StopOver(s) == ~st[s].started \/ (loop[s] = "done" /\ (asked[s] => ProcessStopped(s)))

=============================================================================
