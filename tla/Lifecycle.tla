------------------------------ MODULE Lifecycle ------------------------------
(***************************************************************************)
(* What the fabric does with one service (internal/fabric/fabric.go): the   *)
(* operations clients ask for, each under the service's lifecycle lock and  *)
(* in the steps the code takes, beside the supervision loops, the           *)
(* definition on disk, and a daemon that may crash and load that again.     *)
(***************************************************************************)
EXTENDS Supervisor

CONSTANTS Clients,  \* the goroutines that serve requests
          Offered,  \* the restart policies requests name
          NoOne     \* nobody holds the lock; no supervisor is installed

ASSUME LifecycleAssumption ==
    /\ NoOne \notin Clients /\ NoOne \notin Sups
    /\ Offered \subseteq Policies

VARIABLES def,        \* the definition in the registry
          installed,  \* Fabric.sups of this service
          lock,       \* who holds the lifecycle lock
          op,         \* what each client's request asks for
          step,       \* how far it is
          mine,       \* the supervisor the step works on
          wish        \* history: "down" since a stop was reported done

fabricVars == <<def, installed, lock, op, step, mine, wish>>
vars == <<supVars, fabricVars>>

Definition == [exists : BOOLEAN, enabled : BOOLEAN, policy : Policies]

Undefined == [exists |-> FALSE, enabled |-> FALSE, policy |-> "no"]

Requests == {"add", "start", "stop", "restart", "ensure", "update", "remove"}

FabricTypeOK ==
    /\ def \in Definition
    /\ installed \in Sups \cup {NoOne}
    /\ lock \in Clients \cup {NoOne}
    /\ op \in [Clients -> Requests \cup {"none"}]
    /\ step \in [Clients -> {"idle", "begin", "start", "check", "launch", "stop",
                             "ask", "wait", "enable", "redefine", "forget", "delete"}]
    /\ mine \in [Clients -> Sups \cup {NoOne}]
    /\ wish \in {"any", "down"}

TypeOK == SupTypeOK /\ FabricTypeOK

Init ==
    /\ SupInit
    /\ def = Undefined
    /\ installed = NoOne
    /\ lock = NoOne
    /\ op = [c \in Clients |-> "none"]
    /\ step = [c \in Clients |-> "idle"]
    /\ mine = [c \in Clients |-> NoOne]
    /\ wish = "any"

----------------------------------------------------------------------------
(* Steps every operation is made of. *)

\* An identity no loop, no client and no map entry refers to.
Spare(s) == /\ loop[s] \in {"idle", "done"} /\ leader[s] = "none"
            /\ s # installed
            /\ \A c \in Clients : mine[c] # s

At(c, where) == step[c] = where

Then(c, where) == step' = [step EXCEPT ![c] = where]

\* A stop that is reported done holds until somebody asks for something else.
Outdate(what) == IF what \in {"stop", "update"} THEN wish ELSE "any"

\* A request gets the service's lock.  One still waiting for it has no effect.
Acquire(c, what) ==
    /\ At(c, "idle")
    /\ lock = NoOne
    /\ lock' = c
    /\ op' = [op EXCEPT ![c] = what]
    /\ Then(c, "begin")
    /\ wish' = Outdate(what)
    /\ UNCHANGED <<supVars, def, installed, mine>>

\* The reply is written and the lock let go of.
Return(c) ==
    /\ lock' = NoOne
    /\ op' = [op EXCEPT ![c] = "none"]
    /\ Then(c, "idle")
    /\ mine' = [mine EXCEPT ![c] = NoOne]

\* The request is answered with an error, having changed nothing in this step.
Refuse(c) ==
    /\ Return(c)
    /\ UNCHANGED <<supVars, def, installed, wish>>

\* Where a definition is written or deleted, which may fail; setEnabled writes
\* only what changes.  Reading one back is taken to succeed.
WritingStep(c) ==
    \/ At(c, "begin") /\ op[c] = "add" /\ ~def.exists
    \/ At(c, "begin") /\ op[c] = "update" /\ def.exists
    \/ At(c, "begin") /\ op[c] = "stop" /\ installed # NoOne /\ def.enabled
    \/ At(c, "begin") /\ op[c] = "ensure" /\ ~(def.exists /\ installed # NoOne /\ Live(installed))
    \/ (At(c, "start") \/ At(c, "enable")) /\ installed # NoOne /\ def.exists /\ ~def.enabled
    \/ At(c, "delete")

DiskFails(c) == WritingStep(c) /\ Refuse(c)

\* NewSupervisor for the definition d, put in the map.
Install(d) ==
    \E s \in Sups :
        /\ Spare(s)
        /\ Create(s, d.policy)
        /\ installed' = s

----------------------------------------------------------------------------
(* startLocked. *)

\* The supervisor is looked up and the desired state recorded.
StartEnable(c) ==
    /\ At(c, "start")
    /\ installed # NoOne /\ def.exists
    /\ def' = [def EXCEPT !.enabled = TRUE]
    /\ Then(c, "check")
    /\ UNCHANGED <<supVars, installed, lock, op, mine, wish>>

StartUnknown(c) ==
    /\ At(c, "start")
    /\ installed = NoOne \/ ~def.exists
    /\ Refuse(c)

\* A supervisor that is not looking after the service any more is replaced.
StartCheck(c) ==
    /\ At(c, "check")
    /\ IF Live(installed)
       THEN UNCHANGED <<supVars, installed>>
       ELSE Install(def)
    /\ mine' = [mine EXCEPT ![c] = installed']
    /\ Then(c, "launch")
    /\ UNCHANGED <<def, lock, op, wish>>

StartLaunch(c) ==
    /\ At(c, "launch")
    /\ Launch(mine[c])
    /\ Return(c)
    /\ UNCHANGED <<def, installed, wish>>

----------------------------------------------------------------------------
(* Add, Ensure, Update. *)

BeginStart(c) ==
    /\ At(c, "begin") /\ op[c] = "start"
    /\ Then(c, "start")
    /\ UNCHANGED <<supVars, def, installed, lock, op, mine, wish>>

\* addLocked: the definition first, then a supervisor, then the start if asked.
AddNew(c, enabled, policy) ==
    /\ def' = [exists |-> TRUE, enabled |-> enabled, policy |-> policy]
    /\ IF installed = NoOne THEN Install(def') ELSE UNCHANGED <<supVars, installed>>
    /\ IF enabled THEN Then(c, "start") /\ UNCHANGED <<lock, op, mine>> ELSE Return(c)
    /\ UNCHANGED wish

Add(c) ==
    /\ At(c, "begin") /\ op[c] = "add"
    /\ IF def.exists THEN Refuse(c)
       ELSE \E enabled \in BOOLEAN, policy \in Offered : AddNew(c, enabled, policy)

\* Ensure: left alone while live; otherwise defined, or redefined in place, and
\* started.
Ensure(c) ==
    /\ At(c, "begin") /\ op[c] = "ensure"
    /\ \E policy \in Offered :
         IF def.exists /\ installed # NoOne /\ Live(installed)
         THEN Refuse(c)
         ELSE AddNew(c, TRUE, policy)

\* Update: the policy changes on disk, and then in the supervisor's copy.
Update(c) ==
    /\ At(c, "begin") /\ op[c] = "update"
    /\ IF def.exists
       THEN /\ \E policy \in Offered : def' = [def EXCEPT !.policy = policy]
            /\ Then(c, "redefine")
            /\ UNCHANGED <<supVars, installed, lock, op, mine, wish>>
       ELSE Refuse(c)

UpdateRedefine(c) ==
    /\ At(c, "redefine")
    /\ IF installed # NoOne THEN Redefine(installed, def.policy) ELSE UNCHANGED supVars
    /\ Return(c)
    /\ UNCHANGED <<def, installed, wish>>

----------------------------------------------------------------------------
(* Stop, Restart, Remove. *)

\* Mutant: the desired state is left as it was.
StopKeepsEnabled(c) ==
    /\ At(c, "begin") /\ op[c] = "stop"
    /\ IF installed # NoOne /\ def.exists
       THEN /\ mine' = [mine EXCEPT ![c] = installed]
            /\ Then(c, "ask")
            /\ UNCHANGED <<supVars, def, installed, lock, op, wish>>
       ELSE Refuse(c)

\* Stop records that the service should stay stopped, and then stops it.
Stop(c) ==
    /\ At(c, "begin") /\ op[c] = "stop"
    /\ IF installed # NoOne /\ def.exists
       THEN /\ def' = [def EXCEPT !.enabled = FALSE]
            /\ mine' = [mine EXCEPT ![c] = installed]
            /\ Then(c, "ask")
            /\ UNCHANGED <<supVars, installed, lock, op, wish>>
       ELSE Refuse(c)

\* Restart installs the successor, built from the definition on disk or from
\* the old supervisor's when there is none, before the old one is stopped.
Restart(c) ==
    /\ At(c, "begin") /\ op[c] = "restart"
    /\ IF installed # NoOne
       THEN /\ mine' = [mine EXCEPT ![c] = installed]
            /\ Install([policy |-> IF def.exists THEN def.policy ELSE pol[installed]])
            /\ Then(c, "ask")
            /\ UNCHANGED <<def, lock, op, wish>>
       ELSE Refuse(c)

\* Remove: with no supervisor only the definition goes.
Remove(c) ==
    /\ At(c, "begin") /\ op[c] = "remove"
    /\ mine' = [mine EXCEPT ![c] = installed]
    /\ Then(c, IF installed = NoOne THEN "delete" ELSE "ask")
    /\ UNCHANGED <<supVars, def, installed, lock, op, wish>>

\* Supervisor.Stop, in the three operations: asking ...
Ask(c) ==
    /\ At(c, "ask")
    /\ StopAsk(mine[c])
    /\ Then(c, "wait")
    /\ UNCHANGED <<def, installed, lock, op, mine, wish>>

\* Mutant: nothing waits for the old process to be gone.
WaitedNot(c) ==
    /\ At(c, "wait")
    /\ op[c] \in {"restart", "remove"}
    /\ Then(c, IF op[c] = "restart" THEN "enable" ELSE "forget")
    /\ UNCHANGED <<supVars, def, installed, lock, op, mine, wish>>

\* ... and having waited.
Waited(c) ==
    /\ At(c, "wait")
    /\ StopOver(mine[c])
    /\ \/ /\ op[c] = "stop"
          /\ Return(c)
          /\ wish' = "down"
       \/ /\ op[c] \in {"restart", "remove"}
          /\ Then(c, IF op[c] = "restart" THEN "enable" ELSE "forget")
          /\ UNCHANGED <<lock, op, mine, wish>>
    /\ StopReturns(mine[c])
    /\ UNCHANGED <<def, installed>>

RestartEnable(c) ==
    /\ At(c, "enable")
    /\ IF def.exists
       THEN /\ def' = [def EXCEPT !.enabled = TRUE]
            /\ mine' = [mine EXCEPT ![c] = installed]
            /\ Then(c, "launch")
            /\ UNCHANGED <<supVars, installed, lock, op, wish>>
       ELSE Refuse(c)

\* The buffer is closed and the service leaves the map ...
RemoveForget(c) ==
    /\ At(c, "forget")
    /\ installed' = NoOne
    /\ Then(c, "delete")
    /\ UNCHANGED <<supVars, def, lock, op, mine, wish>>

\* ... and its definition goes.
RemoveDelete(c) ==
    /\ At(c, "delete")
    /\ def' = Undefined
    /\ Return(c)
    /\ UNCHANGED <<supVars, installed, wish>>

----------------------------------------------------------------------------
(* The daemon crashes, its processes with it, and Load brings back what the  *)
(* registry says.                                                            *)

CrashAndLoad ==
    /\ \E s \in Sups :
         /\ loop' = [t \in Sups |-> IF t = s /\ def.exists /\ def.enabled THEN "top" ELSE "idle"]
         /\ st' = [t \in Sups |->
                     [NewStatus EXCEPT !.started = t = s /\ def.exists /\ def.enabled]]
         /\ pol' = [t \in Sups |-> IF t = s THEN def.policy ELSE "no"]
         /\ installed' = IF def.exists THEN s ELSE NoOne
    /\ tracker' = [t \in Sups |-> Reset]
    /\ cancel' = [t \in Sups |-> FALSE]
    /\ cur' = [t \in Sups |-> FALSE]
    /\ leader' = [t \in Sups |-> "none"]
    /\ kids' = [t \in Sups |-> FALSE]
    /\ asked' = [t \in Sups |-> FALSE]
    /\ lock' = NoOne
    /\ op' = [c \in Clients |-> "none"]
    /\ step' = [c \in Clients |-> "idle"]
    /\ mine' = [c \in Clients |-> NoOne]
    /\ UNCHANGED <<def, wish>>

----------------------------------------------------------------------------

Serve(c) ==
    \/ BeginStart(c) \/ StartEnable(c) \/ StartUnknown(c) \/ StartCheck(c) \/ StartLaunch(c)
    \/ Add(c) \/ Ensure(c) \/ Update(c) \/ UpdateRedefine(c)
    \/ Stop(c) \/ Restart(c) \/ Remove(c) \/ Ask(c) \/ Waited(c)
    \/ RestartEnable(c) \/ RemoveForget(c) \/ RemoveDelete(c)

Next ==
    \/ \E s \in Sups : (Loop(s) \/ World(s)) /\ UNCHANGED fabricVars
    \/ \E c \in Clients : Serve(c) \/ DiskFails(c) \/ \E what \in Requests : Acquire(c, what)
    \/ CrashAndLoad

\* Goroutines run; a process that Process.Stop was called for dies, and so does
\* what it started, because the grace period ends in SIGKILL and cgroup.kill.
Fairness ==
    /\ \A s \in Sups :
         /\ WF_vars(Loop(s) /\ UNCHANGED fabricVars)
         /\ WF_vars(asked[s] /\ (Exit(s) \/ (leader[s] # "live" /\ KidsExit(s)))
                    /\ UNCHANGED fabricVars)
    /\ \A c \in Clients : WF_vars(Serve(c))

Spec == Init /\ [][Next]_vars /\ Fairness

----------------------------------------------------------------------------

\* There are never two copies of the service running (startLocked, Restart).
OneCopy == \A s, t \in Sups : leader[s] = "live" /\ leader[t] = "live" => s = t

\* A copy that runs is one the fabric knows of: the installed supervisor's, or
\* that of the one a restart is stopping.
NoneLost ==
    \A s \in Sups :
        leader[s] = "live" => s = installed \/ \E c \in Clients : mine[c] = s /\ lock = c

\* A service stopped on purpose stays stopped, over a crash too.
StaysStopped ==
    wish = "down" => \A s \in Sups : leader[s] # "live" /\ loop[s] \in {"idle", "done"}

\* When a stop returns, what the process it stopped had started is gone as well.
StopIsWhole ==
    [][\A c \in Clients :
         At(c, "wait") /\ At(c, "idle")' /\ op[c] = "stop" /\ st[mine[c]].started
           => leader'[mine[c]] # "live" /\ (asked[mine[c]] => ~kids'[mine[c]])]_vars

\* Whatever is being looked after is what the registry says should run.
DesiredIsRecorded ==
    lock = NoOne /\ installed # NoOne /\ Live(installed) => def.exists /\ def.enabled

\* While a restart is under way nobody who asks is told the service has ended.
RestartIsNotTheEnd ==
    \A c \in Clients :
        op[c] = "restart" /\ step[c] \in {"wait", "enable", "launch"}
            => ~st[installed].ended

\* Every request that has the lock is answered, so the lock comes free again: no
\* operation waits for a loop that waits for it.
Answered == \A c \in Clients : step[c] # "idle" ~> step[c] = "idle"

\* A service that is always to be restarted is spawned again, unless it is stopped
\* or redefined meanwhile, or the daemon crashes.
ComesBack ==
    \A s \in Sups :
        loop[s] = "reaped" /\ pol[s] = "always"
            ~> \/ loop[s] \in {"spawned", "unspawned"}
               \/ cancel[s] \/ pol[s] # "always" \/ loop[s] = "idle"

=============================================================================
