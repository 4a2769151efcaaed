-------------------------- MODULE Lifecycle_proofs --------------------------
(***************************************************************************)
(* That one service is looked after by one supervisor at a time, for any    *)
(* number of clients and of supervisors, every restart policy and every     *)
(* choice of delays.  Liveness stays with the model checker.                *)
(***************************************************************************)
EXTENDS Lifecycle, TLAPS

\* The loop of s is at work.
Busy(s) == loop[s] \notin {"idle", "done"}

\* The published status says where the loop is, and a process is up only while
\* its loop knows of it.
LoopInv ==
    \A s \in Sups :
        /\ st[s].started <=> loop[s] # "idle"
        /\ st[s].ended <=> loop[s] = "done"
        /\ leader[s] = "live" => loop[s] \in {"spawned", "current", "waiting", "stopping"}

\* A client is in the middle of a request exactly while it holds the lock.
LockInv == \A c \in Clients : step[c] # "idle" <=> lock = c

\* What an operation may count on at each of its steps.
StepInv ==
    \A c \in Clients :
        /\ step[c] \in {"ask", "wait"} =>
             /\ op[c] \in {"stop", "restart", "remove"}
             /\ mine[c] \in Sups
             /\ op[c] # "restart" => mine[c] = installed
             /\ op[c] = "restart" => mine[c] # installed
             /\ op[c] = "stop" => ~def.enabled
        /\ step[c] \in {"ask", "wait", "enable", "launch"} /\ op[c] = "restart" =>
             installed \in Sups /\ loop[installed] = "idle"
        /\ step[c] = "enable" => op[c] = "restart"
        /\ step[c] = "forget" => op[c] = "remove" /\ installed \in Sups /\ ~Busy(installed)
        /\ step[c] = "delete" => op[c] = "remove" /\ installed = NoOne
        /\ step[c] \in {"start", "check", "launch"} => op[c] \notin {"stop", "update"}
        /\ step[c] \in {"start", "check"} => op[c] # "restart"
        /\ step[c] \in {"check", "launch"} =>
             installed \in Sups /\ def.exists /\ def.enabled
        /\ step[c] = "launch" => mine[c] = installed

\* A loop at work is the installed supervisor's, which the registry wants up
\* unless a stop is under way, or one that a restart is waiting for.
BusyInv ==
    \A s \in Sups : Busy(s) =>
        \/ /\ s = installed
           /\ \/ def.exists /\ def.enabled
              \/ \E c \in Clients : op[c] = "stop" /\ step[c] \in {"ask", "wait"}
        \/ \E c \in Clients : mine[c] = s /\ op[c] = "restart" /\ step[c] \in {"ask", "wait"}

\* After a stop nothing is at work, nor will be when the registry is loaded.
WishInv ==
    wish = "down" =>
        /\ ~def.enabled
        /\ \A s \in Sups : ~Busy(s)
        /\ \A c \in Clients : step[c] # "idle" => op[c] \in {"stop", "update"}

IInv == TypeOK /\ LoopInv /\ LockInv /\ StepInv /\ BusyInv /\ WishInv

----------------------------------------------------------------------------
(* Types. *)

\* The next delay is no longer than the longest (RestartTracker.Died).
LEMMA DelayBounded == \A d \in 0..BackoffMax : NextDelay(d) \in 0..BackoffMax
BY BackoffAssumption DEF NextDelay

\* The tracker keeps its type when a death is counted.
LEMMA BackOffTyped ==
    ASSUME SupTypeOK, NEW s \in Sups, NEW ranFor \in Nat, BackOff(s, ranFor)
    PROVE  tracker' \in [Sups -> [delay : 0..BackoffMax, restarts : 0..MaxRestarts]]
           /\ st' \in [Sups -> Status]
<1> DEFINE old == IF ranFor >= StableAfter THEN Reset ELSE tracker[s]
<1>1. old \in [delay : 0..BackoffMax, restarts : 0..MaxRestarts]
  BY BackoffAssumption, SupervisorAssumption DEF SupTypeOK, Reset
<1>2. Counted(tracker[s], ranFor) \in [delay : 0..BackoffMax, restarts : 0..MaxRestarts]
  <2>1. NextDelay(old.delay) \in 0..BackoffMax
    BY <1>1, DelayBounded
  <2>2. old.restarts + 1 \in Nat
    BY <1>1
  <2>3. Died(tracker[s], ranFor) = [delay |-> NextDelay(old.delay), restarts |-> old.restarts + 1]
    BY DEF Died
  <2> HIDE DEF old
  <2> QED
    BY <2>1, <2>2, <2>3, SupervisorAssumption DEF Counted
<1>3. st' \in [Sups -> Status]
  BY DEF BackOff, SetStatus, SupTypeOK, Status
<1> QED
  BY <1>2, <1>3 DEF BackOff, SupTypeOK

\* A step of a loop or of a process keeps the types.
LEMMA SupTyped ==
    ASSUME SupTypeOK, NEW s \in Sups, Loop(s) \/ World(s)
    PROVE  SupTypeOK'
<1> USE DEF SupTypeOK, Goto, SetStatus
<1>1. CASE TopCancelled(s)
  BY <1>1 DEF TopCancelled, Status
<1>2. CASE Spawn(s)
  BY <1>2 DEF Spawn
<1>3. CASE SpawnFails(s)
  BY <1>3 DEF SpawnFails, Status
<1>4. CASE SpawnVerdict(s)
  <2>1. CASE pol[s] = "always"
    BY <1>4, <2>1, BackOffTyped DEF SpawnVerdict
  <2>2. CASE pol[s] # "always"
    <3>1. st[s].pid \in BOOLEAN /\ st[s].deadline \in BOOLEAN
      BY DEF Status
    <3>2. st' \in [Sups -> Status]
      BY <1>4, <2>2, <3>1, SMTT(40) DEF SpawnVerdict, Status
    <3> QED
      BY <1>4, <2>2, <3>2 DEF SpawnVerdict
  <2> QED
    BY <2>1, <2>2
<1>5. CASE SetCurrent(s)
  BY <1>5 DEF SetCurrent
<1>6. CASE PublishRunning(s)
  BY <1>6 DEF PublishRunning, Status
<1>7. CASE Exited(s)
  BY <1>7 DEF Exited
<1>8. CASE Cancelled(s)
  BY <1>8 DEF Cancelled
<1>9. CASE LoopStopped(s)
  BY <1>9 DEF LoopStopped
<1>10. CASE LetGo(s)
  BY <1>10 DEF LetGo
<1>11. CASE Decide(s)
  <2>1. ASSUME NEW ranFor \in {0, StableAfter}, BackOff(s, ranFor), Goto(s, "backoff")
        PROVE  SupTypeOK'
    <3>1. ranFor \in Nat
      BY BackoffAssumption
    <3> QED
      BY <1>11, <2>1, <3>1, BackOffTyped DEF Decide
  <2>2. ASSUME NEW state \in {"stopped", "exited", "failed"},
               SetStatus(s, state, FALSE, st[s].deadline), Goto(s, "ending"), UNCHANGED tracker
        PROVE  SupTypeOK'
    BY <1>11, <2>2 DEF Decide, Status
  <2> QED
    BY <1>11, <2>1, <2>2 DEF Decide
<1>12. CASE BackoffOver(s)
  BY <1>12 DEF BackoffOver
<1>13. CASE BackoffCancelled(s)
  BY <1>13 DEF BackoffCancelled, Status
<1>14. CASE PublishEnded(s)
  <2>1. st' \in [Sups -> Status]
    BY <1>14, ZenonT(40) DEF PublishEnded, Status
  <2>2. Reset \in [delay : 0..BackoffMax, restarts : 0..MaxRestarts]
    BY BackoffAssumption, SupervisorAssumption DEF Reset
  <2> QED
    BY <1>14, <2>1, <2>2 DEF PublishEnded
<1>15. CASE World(s)
  BY <1>15 DEF World, Fork, Exit, KidsExit
<1> QED
  BY <1>1, <1>2, <1>3, <1>4, <1>5, <1>6, <1>7, <1>8, <1>9, <1>10, <1>11, <1>12, <1>13,
     <1>14, <1>15 DEF Loop

----------------------------------------------------------------------------
(* The loops. *)

\* Publishing a state, with no process left, says nothing of where the loop is.
LEMMA Republished ==
    ASSUME SupTypeOK, LoopInv, NEW s \in Sups, Busy(s), leader[s] # "live", leader' = leader,
           NEW state, NEW pid, NEW deadline, SetStatus(s, state, pid, deadline),
           NEW pc \in {"backoff", "ending"}, Goto(s, pc)
    PROVE  LoopInv' /\ \A t \in Sups : ~Busy(t) => loop'[t] = loop[t]
BY DEF SupTypeOK, Status, LoopInv, Busy, Goto, SetStatus

\* A step of a loop or of a process keeps LoopInv, and sets no other loop, and no
\* loop that is not at work, going.
LEMMA LoopKept ==
    ASSUME SupTypeOK, LoopInv, NEW s \in Sups, Loop(s) \/ World(s)
    PROVE  /\ LoopInv'
           /\ \A t \in Sups : ~Busy(t) => loop'[t] = loop[t]
<1> USE DEF SupTypeOK, Status, LoopInv, Busy, Goto, SetStatus
<1>1. CASE TopCancelled(s)
  BY <1>1 DEF TopCancelled
<1>2. CASE Spawn(s)
  BY <1>2 DEF Spawn
<1>3. CASE SpawnFails(s)
  BY <1>3 DEF SpawnFails
<1>4. CASE SpawnVerdict(s)
  <2>1. Busy(s) /\ leader[s] # "live" /\ leader' = leader
    BY <1>4 DEF SpawnVerdict
  <2> HIDE DEF Goto, SetStatus, Busy, LoopInv, SupTypeOK
  <2>2. CASE pol[s] = "always"
    BY <1>4, <2>1, <2>2, Republished DEF SpawnVerdict, BackOff
  <2>3. CASE pol[s] # "always"
    BY <1>4, <2>1, <2>3, Republished DEF SpawnVerdict
  <2> QED
    BY <2>2, <2>3
<1>5. CASE SetCurrent(s)
  BY <1>5 DEF SetCurrent
<1>6. CASE PublishRunning(s)
  BY <1>6 DEF PublishRunning
<1>7. CASE Exited(s)
  BY <1>7 DEF Exited
<1>8. CASE Cancelled(s)
  BY <1>8 DEF Cancelled
<1>9. CASE LoopStopped(s)
  BY <1>9 DEF LoopStopped, ProcessStopped
<1>10. CASE LetGo(s)
  BY <1>10 DEF LetGo
<1>11. CASE Decide(s)
  <2>1. Busy(s) /\ leader[s] # "live" /\ leader' = leader
    BY <1>11 DEF Decide
  <2> HIDE DEF Goto, SetStatus, Busy, LoopInv, SupTypeOK
  <2> QED
    BY <1>11, <2>1, Republished DEF Decide, BackOff
<1>12. CASE BackoffOver(s)
  BY <1>12 DEF BackoffOver
<1>13. CASE BackoffCancelled(s)
  BY <1>13 DEF BackoffCancelled
<1>14. CASE PublishEnded(s)
  BY <1>14, SMTT(30) DEF PublishEnded
<1>15. CASE World(s)
  BY <1>15 DEF World, Fork, Exit, KidsExit
<1> QED
  BY <1>1, <1>2, <1>3, <1>4, <1>5, <1>6, <1>7, <1>8, <1>9, <1>10, <1>11, <1>12, <1>13,
     <1>14, <1>15 DEF Loop

----------------------------------------------------------------------------
(* The invariant. *)

\* A fabric with no service and no request satisfies the inductive invariant.
LEMMA InitIInv == Init => IInv
<1> SUFFICES ASSUME Init PROVE IInv
  OBVIOUS
<1>1. SupTypeOK
  BY BackoffAssumption, SupervisorAssumption
     DEF Init, SupInit, SupTypeOK, NewStatus, Status, Reset, Policies
<1>2. TypeOK
  BY <1>1 DEF Init, TypeOK, FabricTypeOK, Definition, Policies, Undefined
<1>3. LoopInv /\ \A s \in Sups : ~Busy(s)
  BY DEF Init, SupInit, LoopInv, NewStatus, Busy
<1>4. LockInv /\ StepInv
  BY LifecycleAssumption DEF Init, LockInv, StepInv
<1> QED
  BY <1>2, <1>3, <1>4 DEF Init, IInv, BusyInv, WishInv

\* The loops by themselves.
LEMMA LoopsKeepIInv ==
    ASSUME IInv, NEW s \in Sups, Loop(s) \/ World(s), UNCHANGED fabricVars
    PROVE  IInv'
<1>1. SupTypeOK' /\ LoopInv' /\ \A t \in Sups : ~Busy(t) => loop'[t] = loop[t]
  BY SupTyped, LoopKept DEF IInv, TypeOK
<1>2. \A t \in Sups : Busy(t)' => Busy(t)
  BY <1>1 DEF Busy
<1>3. \A t \in Sups : loop[t] = "idle" => loop'[t] = "idle"
  BY <1>1 DEF Busy
<1>4. TypeOK' /\ LockInv'
  BY <1>1 DEF IInv, TypeOK, FabricTypeOK, LockInv, fabricVars
<1>5. StepInv'
  BY <1>2, <1>3 DEF IInv, StepInv, fabricVars
<1>6. BusyInv' /\ WishInv'
  BY <1>2 DEF IInv, BusyInv, WishInv, fabricVars
<1> QED
  BY <1>1, <1>4, <1>5, <1>6 DEF IInv

\* What the fabric does to supervisors.
LEMMA InstallTyped ==
    ASSUME SupTypeOK, NEW d, d.policy \in Policies, Install(d)
    PROVE  SupTypeOK' /\ installed' \in Sups
<1>1. PICK s \in Sups : Spare(s) /\ Create(s, d.policy) /\ installed' = s
  BY DEF Install
<1>2. NewStatus \in Status
  BY DEF NewStatus, Status
<1>3. Reset \in [delay : 0..BackoffMax, restarts : 0..MaxRestarts]
  BY BackoffAssumption, SupervisorAssumption DEF Reset
<1> QED
  BY <1>1, <1>2, <1>3 DEF Create, SupTypeOK

\* Supervisor.Start keeps the types of the loops.
LEMMA LaunchTyped ==
    ASSUME SupTypeOK, NEW s \in Sups, Launch(s)
    PROVE  SupTypeOK'
<1>1. CASE st[s].started
  BY <1>1 DEF Launch, SupTypeOK, supVars
<1>2. CASE ~st[s].started
  <2>1. /\ st' = [st EXCEPT ![s].started = TRUE]
        /\ loop' = [loop EXCEPT ![s] = "top"]
        /\ UNCHANGED <<pol, tracker, cancel, cur, leader, kids, asked>>
    BY <1>2 DEF Launch, Goto
  <2>2. st' \in [Sups -> Status]
    BY <2>1, ZenonT(40) DEF SupTypeOK, Status
  <2> QED
    BY <2>1, <2>2 DEF SupTypeOK
<1> QED
  BY <1>1, <1>2

\* Supervisor.Stop, asked and returned from, keeps the types of the loops.
LEMMA StopTyped ==
    ASSUME SupTypeOK, NEW s \in Sups, StopAsk(s) \/ StopReturns(s)
    PROVE  SupTypeOK'
<1>1. CASE StopAsk(s)
  BY <1>1 DEF StopAsk, SupTypeOK, supVars
<1>2. CASE StopReturns(s)
  BY <1>2 DEF StopReturns, SupTypeOK
<1> QED
  BY <1>1, <1>2

\* What the fabric does to its own state.
LEMMA FabricTyped ==
    ASSUME IInv, NEW c \in Clients, Serve(c)
    PROVE  TypeOK'
<1> USE DEF IInv, TypeOK, FabricTypeOK, Definition, At, Then
<1>1. ASSUME Return(c), UNCHANGED <<supVars, def, installed, wish>>
      PROVE  TypeOK'
  BY <1>1 DEF Return, SupTypeOK, supVars
<1>2. CASE BeginStart(c)
  BY <1>2 DEF BeginStart, SupTypeOK, supVars
<1>3. CASE StartEnable(c)
  BY <1>3 DEF StartEnable, SupTypeOK, supVars
<1>4. CASE StartUnknown(c)
  BY <1>1, <1>4 DEF StartUnknown, Refuse
<1>5. CASE StartCheck(c)
  <2>1. SupTypeOK' /\ installed' \in Sups
    BY <1>5, InstallTyped DEF StartCheck, StepInv, SupTypeOK, supVars
  <2> QED
    BY <1>5, <2>1 DEF StartCheck
<1>6. CASE StartLaunch(c)
  <2>1. SupTypeOK'
    BY <1>6, LaunchTyped DEF StartLaunch, StepInv
  <2> QED
    BY <1>6, <2>1 DEF StartLaunch, Return
<1>7. ASSUME NEW enabled \in BOOLEAN, NEW policy \in Offered, AddNew(c, enabled, policy)
      PROVE  TypeOK'
  <2>1. def' \in Definition /\ def'.policy \in Policies
    BY <1>7, LifecycleAssumption DEF AddNew
  <2>2. SupTypeOK' /\ installed' \in Sups \cup {NoOne}
    BY <1>7, <2>1, InstallTyped DEF AddNew, SupTypeOK, supVars
  <2> QED
    BY <1>7, <2>1, <2>2 DEF AddNew, Return
<1>8. CASE Add(c)
  BY <1>1, <1>7, <1>8 DEF Add, Refuse
<1>9. CASE Ensure(c)
  BY <1>1, <1>7, <1>9 DEF Ensure, Refuse
<1>10. CASE Update(c)
  BY <1>1, <1>10, LifecycleAssumption DEF Update, Refuse, SupTypeOK, supVars
<1>11. CASE UpdateRedefine(c)
  <2>1. SupTypeOK'
    BY <1>11 DEF UpdateRedefine, Redefine, SupTypeOK, supVars
  <2> QED
    BY <1>11, <2>1 DEF UpdateRedefine, Return
<1>12. CASE Stop(c)
  <2>1. CASE installed # NoOne /\ def.exists
    <3>1. SupTypeOK'
      BY <1>12, <2>1 DEF Stop, SupTypeOK, supVars
    <3> QED
      BY <1>12, <2>1, <3>1, ZenonT(40) DEF Stop
  <2>2. CASE ~(installed # NoOne /\ def.exists)
    BY <1>1, <1>12, <2>2 DEF Stop, Refuse
  <2> QED
    BY <2>1, <2>2
<1>13. CASE Restart(c)
  <2>1. CASE installed # NoOne
    <3>1. (IF def.exists THEN def.policy ELSE pol[installed]) \in Policies
      BY <2>1 DEF SupTypeOK
    <3>2. SupTypeOK' /\ installed' \in Sups
      BY <1>13, <2>1, <3>1, InstallTyped DEF Restart
    <3> QED
      BY <1>13, <2>1, <3>2 DEF Restart
  <2> QED
    BY <1>1, <1>13, <2>1 DEF Restart, Refuse
<1>14. CASE Remove(c)
  BY <1>14 DEF Remove, SupTypeOK, supVars
<1>15. CASE Ask(c)
  <2>1. SupTypeOK'
    BY <1>15, StopTyped DEF Ask, StepInv
  <2> QED
    BY <1>15, <2>1 DEF Ask
<1>16. CASE Waited(c)
  <2>1. SupTypeOK'
    BY <1>16, StopTyped DEF Waited, StepInv
  <2> QED
    BY <1>16, <2>1 DEF Waited, Return
<1>17. CASE RestartEnable(c)
  <2>1. CASE def.exists
    <3>1. SupTypeOK'
      BY <1>17, <2>1 DEF RestartEnable, SupTypeOK, supVars
    <3> QED
      BY <1>17, <2>1, <3>1, ZenonT(40) DEF RestartEnable
  <2>2. CASE ~def.exists
    BY <1>1, <1>17, <2>2 DEF RestartEnable, Refuse
  <2> QED
    BY <2>1, <2>2
<1>18. CASE RemoveForget(c)
  BY <1>18 DEF RemoveForget, SupTypeOK, supVars
<1>19. CASE RemoveDelete(c)
  BY <1>19 DEF RemoveDelete, Return, Undefined, Policies, SupTypeOK,
     supVars
<1> QED
  BY <1>2, <1>3, <1>4, <1>5, <1>6, <1>8, <1>9, <1>10, <1>11, <1>12, <1>13, <1>14, <1>15,
     <1>16, <1>17, <1>18, <1>19 DEF Serve

\* A request that is answered with an error, before or after anything was stopped.
LEMMA RefuseKeepsIInv ==
    ASSUME IInv, NEW c \in Clients, step[c] \notin {"idle", "ask", "wait"}, Refuse(c)
    PROVE  IInv'
<1> USE DEF IInv, Refuse, Return
<1>1. TypeOK'
  <2>1. SupTypeOK'
    BY DEF TypeOK, SupTypeOK, supVars
  <2>2. FabricTypeOK'
    BY DEF TypeOK, FabricTypeOK, Then
  <2> QED
    BY <2>1, <2>2 DEF TypeOK
<1>2. LoopInv'
  BY DEF LoopInv, supVars
<1>3. lock = c /\ \A d \in Clients : d # c => step[d] = "idle"
  BY DEF LockInv
<1>4. \A d \in Clients : step'[d] = "idle"
  BY <1>3 DEF TypeOK, FabricTypeOK, Then
<1>5. LockInv' /\ StepInv'
  BY <1>4, LifecycleAssumption DEF LockInv, StepInv
<1>6. BusyInv'
  BY <1>3 DEF BusyInv, Busy, supVars
<1>7. WishInv'
  BY <1>4 DEF WishInv, Busy, supVars
<1> QED
  BY <1>1, <1>2, <1>5, <1>6, <1>7

\* The supervisor an operation works on keeps LoopInv.
LEMMA FabricLoops ==
    ASSUME IInv, NEW c \in Clients, Serve(c)
    PROVE  LoopInv'
<1> USE DEF IInv, TypeOK, SupTypeOK, Status, LoopInv
<1>1. CASE BeginStart(c)
  BY <1>1 DEF BeginStart, supVars, StepInv
<1>2. CASE StartEnable(c)
  BY <1>2 DEF StartEnable, supVars, StepInv
<1>3. CASE StartUnknown(c)
  BY <1>3 DEF StartUnknown, supVars, Refuse, Return, StepInv
<1>4. CASE StartCheck(c)
  BY <1>4 DEF StartCheck, supVars, Install, Create, NewStatus, Spare, StepInv
<1>5. CASE StartLaunch(c)
  <2>1. mine[c] \in Sups
    BY <1>5 DEF StartLaunch, At, StepInv
  <2>2. CASE st[mine[c]].started
    BY <1>5, <2>2 DEF StartLaunch, Launch, supVars
  <2>3. CASE ~st[mine[c]].started
    <3>1. /\ st' = [st EXCEPT ![mine[c]].started = TRUE]
          /\ loop' = [loop EXCEPT ![mine[c]] = "top"]
          /\ leader' = leader
      BY <1>5, <2>3 DEF StartLaunch, Launch, Goto
    <3> QED
      BY <2>1, <2>3, <3>1
  <2> QED
    BY <2>2, <2>3
<1>6. CASE Add(c)
  BY <1>6 DEF Add, supVars, Refuse, Return, Install, Create, NewStatus, AddNew, Spare,
     StepInv
<1>7. CASE Ensure(c)
  BY <1>7 DEF Ensure, supVars, Refuse, Return, Install, Create, NewStatus, AddNew, Spare,
     StepInv
<1>8. CASE Update(c)
  BY <1>8 DEF Update, supVars, Refuse, Return, StepInv
<1>9. CASE UpdateRedefine(c)
  BY <1>9 DEF UpdateRedefine, supVars, Return, Redefine, StepInv
<1>10. CASE Stop(c)
  BY <1>10 DEF Stop, supVars, Refuse, Return, StepInv
<1>11. CASE Restart(c)
  BY <1>11 DEF Restart, supVars, Refuse, Return, Install, Create, NewStatus, Spare, StepInv
<1>12. CASE Remove(c)
  BY <1>12 DEF Remove, supVars, StepInv
<1>13. CASE Ask(c)
  BY <1>13 DEF Ask, supVars, StopAsk, StepInv
<1>14. CASE Waited(c)
  BY <1>14 DEF Waited, Return, StopReturns, StepInv
<1>15. CASE RestartEnable(c)
  BY <1>15 DEF RestartEnable, supVars, Refuse, Return, StepInv
<1>16. CASE RemoveForget(c)
  BY <1>16 DEF RemoveForget, supVars, StepInv
<1>17. CASE RemoveDelete(c)
  BY <1>17 DEF RemoveDelete, supVars, Return, StepInv
<1> QED
  BY <1>1, <1>2, <1>3, <1>4, <1>5, <1>6, <1>7, <1>8, <1>9, <1>10, <1>11, <1>12, <1>13,
     <1>14, <1>15, <1>16, <1>17 DEF Serve

\* The steps of an operation keep to the one client that holds the lock.
LEMMA FabricLockInv ==
    ASSUME IInv, TypeOK', LoopInv', NEW c \in Clients, Serve(c)
    PROVE  LockInv'
<1> USE DEF IInv, TypeOK, FabricTypeOK, SupTypeOK, LoopInv, LockInv, StepInv, LockInv, Busy
<1>1. CASE BeginStart(c)
  BY <1>1, LifecycleAssumption DEF BeginStart, At, Then, supVars
<1>2. CASE StartEnable(c)
  BY <1>2, LifecycleAssumption DEF StartEnable, At, Then, supVars
<1>3. CASE StartUnknown(c)
  BY <1>3, LifecycleAssumption DEF StartUnknown, At, Then, supVars, Refuse, Return
<1>4. CASE StartCheck(c)
  BY <1>4, LifecycleAssumption, SMTT(40) DEF StartCheck, At, Then, Live, supVars, Install, Create,
     Spare
<1>5. CASE StartLaunch(c)
  BY <1>5, LifecycleAssumption DEF StartLaunch, At, Then, supVars, Return, Launch, Goto
<1>6. CASE Add(c)
  BY <1>6, LifecycleAssumption, SMTT(40) DEF Add, At, Then, supVars, Refuse, Return, Install,
     Create, AddNew, Spare
<1>7. CASE Ensure(c)
  BY <1>7, LifecycleAssumption, SMTT(40) DEF Ensure, At, Then, Live, supVars, Refuse, Return,
     Install, Create, AddNew, Spare
<1>8. CASE Update(c)
  BY <1>8, LifecycleAssumption DEF Update, At, Then, supVars, Refuse, Return
<1>9. CASE UpdateRedefine(c)
  BY <1>9, LifecycleAssumption DEF UpdateRedefine, At, Then, supVars, Return, Redefine
<1>10. CASE Stop(c)
  BY <1>10, LifecycleAssumption DEF Stop, At, Then, supVars, Refuse, Return
<1>11. CASE Restart(c)
  BY <1>11, LifecycleAssumption, SMTT(40) DEF Restart, At, Then, supVars, Refuse, Return, Install,
     Create, Spare
<1>12. CASE Remove(c)
  BY <1>12, LifecycleAssumption DEF Remove, At, Then, supVars
<1>13. CASE Ask(c)
  BY <1>13, LifecycleAssumption DEF Ask, At, Then, supVars, StopAsk
<1>14. CASE Waited(c)
  BY <1>14, LifecycleAssumption DEF Waited, At, Then, Return, StopReturns, StopOver
<1>15. CASE RestartEnable(c)
  BY <1>15, LifecycleAssumption DEF RestartEnable, At, Then, supVars, Refuse, Return
<1>16. CASE RemoveForget(c)
  BY <1>16, LifecycleAssumption DEF RemoveForget, At, Then, supVars
<1>17. CASE RemoveDelete(c)
  BY <1>17, LifecycleAssumption DEF RemoveDelete, At, Then, supVars, Return, Undefined
<1> QED
  BY <1>1, <1>2, <1>3, <1>4, <1>5, <1>6, <1>7, <1>8, <1>9, <1>10, <1>11, <1>12, <1>13,
     <1>14, <1>15, <1>16, <1>17 DEF Serve

\* Each step of an operation finds the supervisor it was promised by the step before.
LEMMA FabricStepInv ==
    ASSUME IInv, TypeOK', LoopInv', NEW c \in Clients, Serve(c)
    PROVE  StepInv'
<1> USE DEF IInv, TypeOK, FabricTypeOK, SupTypeOK, LoopInv, LockInv, StepInv, StepInv, Busy
<1>1. CASE BeginStart(c)
  BY <1>1, LifecycleAssumption DEF BeginStart, At, Then, supVars
<1>2. CASE StartEnable(c)
  BY <1>2, LifecycleAssumption DEF StartEnable, At, Then, supVars
<1>3. CASE StartUnknown(c)
  BY <1>3, LifecycleAssumption DEF StartUnknown, At, Then, supVars, Refuse, Return
<1>4. CASE StartCheck(c)
  <2>1. lock = c /\ \A d \in Clients : d # c => step[d] = "idle"
    BY <1>4 DEF StartCheck, At
  <2>2. step' = [step EXCEPT ![c] = "launch"] /\ UNCHANGED <<def, op>>
    BY <1>4 DEF StartCheck, Then
  <2>3. mine' = [mine EXCEPT ![c] = installed'] /\ installed' \in Sups
    BY <1>4 DEF StartCheck, At, Install
  <2> QED
    BY <1>4, <2>1, <2>2, <2>3 DEF StartCheck, At
<1>5. CASE StartLaunch(c)
  BY <1>5, LifecycleAssumption DEF StartLaunch, At, Then, supVars, Return, Launch, Goto
<1>6. CASE Add(c)
  BY <1>6, LifecycleAssumption, SMTT(40) DEF Add, At, Then, supVars, Refuse, Return, Install,
     Create, AddNew, Spare
<1>7. CASE Ensure(c)
  BY <1>7, LifecycleAssumption, SMTT(40) DEF Ensure, At, Then, Live, supVars, Refuse, Return,
     Install, Create, AddNew, Spare
<1>8. CASE Update(c)
  BY <1>8, LifecycleAssumption DEF Update, At, Then, supVars, Refuse, Return
<1>9. CASE UpdateRedefine(c)
  BY <1>9, LifecycleAssumption DEF UpdateRedefine, At, Then, supVars, Return, Redefine
<1>10. CASE Stop(c)
  <2>1. lock = c /\ \A d \in Clients : d # c => step[d] = "idle"
    BY <1>10 DEF Stop, At
  <2>2. CASE installed # NoOne /\ def.exists
    BY <1>10, <2>1, <2>2 DEF Stop, At, Then, supVars, Definition
  <2>3. CASE ~(installed # NoOne /\ def.exists)
    BY <1>10, <2>3, RefuseKeepsIInv DEF Stop, At
  <2> QED
    BY <2>2, <2>3
<1>11. CASE Restart(c)
  BY <1>11, LifecycleAssumption, SMTT(40) DEF Restart, At, Then, supVars, Refuse, Return, Install,
     Create, Spare
<1>12. CASE Remove(c)
  BY <1>12, LifecycleAssumption DEF Remove, At, Then, supVars
<1>13. CASE Ask(c)
  BY <1>13, LifecycleAssumption DEF Ask, At, Then, supVars, StopAsk
<1>14. CASE Waited(c)
  BY <1>14, LifecycleAssumption DEF Waited, At, Then, Return, StopReturns, StopOver
<1>15. CASE RestartEnable(c)
  <2>1. lock = c /\ \A d \in Clients : d # c => step[d] = "idle"
    BY <1>15 DEF RestartEnable, At
  <2>2. CASE def.exists
    BY <1>15, <2>1, <2>2 DEF RestartEnable, At, Then, supVars, Definition
  <2>3. CASE ~def.exists
    BY <1>15, <2>3, RefuseKeepsIInv DEF RestartEnable, At
  <2> QED
    BY <2>2, <2>3
<1>16. CASE RemoveForget(c)
  BY <1>16, LifecycleAssumption DEF RemoveForget, At, Then, supVars
<1>17. CASE RemoveDelete(c)
  BY <1>17, LifecycleAssumption DEF RemoveDelete, At, Then, supVars, Return, Undefined
<1> QED
  BY <1>1, <1>2, <1>3, <1>4, <1>5, <1>6, <1>7, <1>8, <1>9, <1>10, <1>11, <1>12, <1>13,
     <1>14, <1>15, <1>16, <1>17 DEF Serve

\* Only the installed supervisor, or the one being stopped, is at work.
LEMMA FabricBusyInv ==
    ASSUME IInv, TypeOK', LoopInv', NEW c \in Clients, Serve(c)
    PROVE  BusyInv'
<1> USE DEF IInv, TypeOK, FabricTypeOK, SupTypeOK, LoopInv, LockInv, StepInv, BusyInv, Busy
<1>1. CASE BeginStart(c)
  BY <1>1, LifecycleAssumption DEF BeginStart, At, Then, supVars
<1>2. CASE StartEnable(c)
  BY <1>2, LifecycleAssumption DEF StartEnable, At, Then, supVars
<1>3. CASE StartUnknown(c)
  BY <1>3, LifecycleAssumption DEF StartUnknown, At, Then, supVars, Refuse, Return
<1>4. CASE StartCheck(c)
  BY <1>4, LifecycleAssumption, SMTT(40) DEF StartCheck, At, Then, Live, supVars, Install, Create,
     Spare
<1>5. CASE StartLaunch(c)
  BY <1>5, LifecycleAssumption DEF StartLaunch, At, Then, supVars, Return, Launch, Goto
<1>6. CASE Add(c)
  BY <1>6, LifecycleAssumption, SMTT(40) DEF Add, At, Then, supVars, Refuse, Return, Install,
     Create, AddNew, Spare
<1>7. CASE Ensure(c)
  <2>1. lock = c /\ \A d \in Clients : d # c => step[d] = "idle"
    BY <1>7 DEF Ensure, At
  <2>2. CASE Refuse(c)
    BY <1>7, <2>1, <2>2 DEF Ensure, At, Refuse, Return, supVars
  <2>3. ASSUME NEW policy \in Offered, AddNew(c, TRUE, policy)
        PROVE  BusyInv'
    <3>1. def'.exists /\ def'.enabled
      BY <2>3 DEF AddNew
    <3>2. \A s \in Sups : Busy(s) => s = installed
      BY <1>7, <2>1 DEF Ensure, At
    <3>3. CASE installed # NoOne
      BY <2>3, <3>1, <3>2, <3>3 DEF AddNew, supVars
    <3>4. CASE installed = NoOne
      BY <2>3, <3>1, <3>2, <3>4, LifecycleAssumption, SMTT(40) DEF AddNew, Install, Create
    <3> QED
      BY <3>3, <3>4
  <2> QED
    BY <1>7, <2>2, <2>3 DEF Ensure
<1>8. CASE Update(c)
  <2>1. def'.enabled = def.enabled /\ def'.exists = def.exists
    BY <1>8 DEF Update, Refuse, Definition
  <2> QED
    BY <1>8, <2>1, SMTT(40) DEF Update, At, Then, Refuse, Return, supVars
<1>9. CASE UpdateRedefine(c)
  BY <1>9, LifecycleAssumption DEF UpdateRedefine, At, Then, supVars, Return, Redefine
<1>10. CASE Stop(c)
  BY <1>10, LifecycleAssumption, SMTT(40) DEF Stop, At, Then, supVars, Refuse, Return
<1>11. CASE Restart(c)
  BY <1>11, LifecycleAssumption, SMTT(40) DEF Restart, At, Then, supVars, Refuse, Return, Install,
     Create, Spare
<1>12. CASE Remove(c)
  BY <1>12, LifecycleAssumption DEF Remove, At, Then, supVars
<1>13. CASE Ask(c)
  BY <1>13, LifecycleAssumption DEF Ask, At, Then, supVars, StopAsk
<1>14. CASE Waited(c)
  BY <1>14, LifecycleAssumption DEF Waited, At, Then, Return, StopReturns, StopOver
<1>15. CASE RestartEnable(c)
  BY <1>15, LifecycleAssumption, SMTT(40) DEF RestartEnable, At, Then, supVars, Refuse, Return
<1>16. CASE RemoveForget(c)
  BY <1>16, LifecycleAssumption DEF RemoveForget, At, Then, supVars
<1>17. CASE RemoveDelete(c)
  BY <1>17, LifecycleAssumption DEF RemoveDelete, At, Then, supVars, Return, Undefined
<1> QED
  BY <1>1, <1>2, <1>3, <1>4, <1>5, <1>6, <1>7, <1>8, <1>9, <1>10, <1>11, <1>12, <1>13,
     <1>14, <1>15, <1>16, <1>17 DEF Serve

\* Nothing an operation does before it asks for a start undoes a stop.
LEMMA FabricWishInv ==
    ASSUME IInv, TypeOK', LoopInv', NEW c \in Clients, Serve(c)
    PROVE  WishInv'
<1> USE DEF IInv, TypeOK, FabricTypeOK, SupTypeOK, LoopInv, LockInv, StepInv, WishInv, Busy
<1>1. CASE BeginStart(c)
  BY <1>1, LifecycleAssumption DEF BeginStart, At, Then, supVars
<1>2. CASE StartEnable(c)
  BY <1>2, LifecycleAssumption DEF StartEnable, At, Then, supVars
<1>3. CASE StartUnknown(c)
  BY <1>3, LifecycleAssumption DEF StartUnknown, At, Then, supVars, Refuse, Return
<1>4. CASE StartCheck(c)
  BY <1>4, LifecycleAssumption, SMTT(40) DEF StartCheck, At, Then, Live, supVars, Install, Create,
     Spare
<1>5. CASE StartLaunch(c)
  BY <1>5, LifecycleAssumption DEF StartLaunch, At, Then, supVars, Return, Launch, Goto
<1>6. CASE Add(c)
  BY <1>6, LifecycleAssumption, SMTT(40) DEF Add, At, Then, supVars, Refuse, Return, Install,
     Create, AddNew, Spare
<1>7. CASE Ensure(c)
  BY <1>7, LifecycleAssumption, SMTT(40) DEF Ensure, At, Then, Live, supVars, Refuse, Return,
     Install, Create, AddNew, Spare
<1>8. CASE Update(c)
  <2>1. def'.enabled = def.enabled /\ def'.exists = def.exists
    BY <1>8 DEF Update, Refuse, Definition
  <2> QED
    BY <1>8, <2>1 DEF Update, At, Then, Refuse, Return, supVars
<1>9. CASE UpdateRedefine(c)
  BY <1>9, LifecycleAssumption DEF UpdateRedefine, At, Then, supVars, Return, Redefine
<1>10. CASE Stop(c)
  <2>1. CASE installed # NoOne /\ def.exists
    BY <1>10, <2>1 DEF Stop, At, Then, supVars, Definition
  <2>2. CASE ~(installed # NoOne /\ def.exists)
    BY <1>10, <2>2, RefuseKeepsIInv DEF Stop, At
  <2> QED
    BY <2>1, <2>2
<1>11. CASE Restart(c)
  BY <1>11, LifecycleAssumption, SMTT(40) DEF Restart, At, Then, supVars, Refuse, Return, Install,
     Create, Spare
<1>12. CASE Remove(c)
  BY <1>12, LifecycleAssumption DEF Remove, At, Then, supVars
<1>13. CASE Ask(c)
  BY <1>13, LifecycleAssumption DEF Ask, At, Then, supVars, StopAsk
<1>14. CASE Waited(c)
  <2>1. lock = c /\ \A d \in Clients : d # c => step[d] = "idle"
    BY <1>14 DEF Waited, At
  <2>2. mine[c] \in Sups /\ ~Busy(mine[c])
    BY <1>14 DEF Waited, At, StopOver
  <2>3. loop' = loop /\ def' = def
    BY <1>14 DEF Waited, StopReturns
  <2>4. CASE op[c] = "stop" /\ wish' = "down" /\ Return(c)
    <3>1. \A s \in Sups : ~Busy(s)
      BY <1>14, <2>1, <2>2, <2>4, SMTT(40) DEF Waited, At, BusyInv
    <3>2. ~def.enabled /\ \A d \in Clients : step'[d] = "idle"
      BY <1>14, <2>1, <2>4 DEF Waited, At, Return, Then
    <3> QED
      BY <2>3, <3>1, <3>2
  <2>5. CASE op[c] \in {"restart", "remove"} /\ UNCHANGED <<lock, op, mine, wish>>
    BY <1>14, <2>1, <2>3, <2>5 DEF Waited, At, Then
  <2> QED
    BY <1>14, <2>4, <2>5 DEF Waited
<1>15. CASE RestartEnable(c)
  BY <1>15, LifecycleAssumption DEF RestartEnable, At, Then, supVars, Refuse, Return
<1>16. CASE RemoveForget(c)
  BY <1>16, LifecycleAssumption DEF RemoveForget, At, Then, supVars
<1>17. CASE RemoveDelete(c)
  BY <1>17, LifecycleAssumption DEF RemoveDelete, At, Then, supVars, Return, Undefined
<1> QED
  BY <1>1, <1>2, <1>3, <1>4, <1>5, <1>6, <1>7, <1>8, <1>9, <1>10, <1>11, <1>12, <1>13,
     <1>14, <1>15, <1>16, <1>17 DEF Serve

----------------------------------------------------------------------------
(* The rest of the daemon, and the theorems. *)

\* The five parts together: a step of an operation keeps the invariant.
LEMMA ServesKeepIInv ==
    ASSUME IInv, NEW c \in Clients, Serve(c)
    PROVE  IInv'
BY FabricTyped, FabricLoops, FabricLockInv, FabricStepInv, FabricBusyInv, FabricWishInv DEF IInv

\* So does an operation that a failed write cuts short.
LEMMA DiskFailsKeepsIInv ==
    ASSUME IInv, NEW c \in Clients, DiskFails(c)
    PROVE  IInv'
BY RefuseKeepsIInv DEF DiskFails, WritingStep, At

\* So does a request that gets the lock.
LEMMA AcquireKeepsIInv ==
    ASSUME IInv, NEW c \in Clients, NEW what \in Requests, Acquire(c, what)
    PROVE  IInv'
<1> USE DEF IInv, Acquire, At, Then
<1>1. TypeOK'
  <2>1. SupTypeOK'
    BY DEF TypeOK, SupTypeOK, supVars
  <2>2. FabricTypeOK'
    BY DEF TypeOK, FabricTypeOK, Outdate
  <2> QED
    BY <2>1, <2>2 DEF TypeOK
<1>2. LoopInv'
  BY DEF LoopInv, supVars
<1>3. \A d \in Clients : step[d] = "idle"
  BY LifecycleAssumption DEF LockInv
<1>4. LockInv'
  BY <1>3, LifecycleAssumption DEF LockInv, TypeOK, FabricTypeOK
<1>5. StepInv'
  BY <1>3 DEF StepInv, TypeOK, FabricTypeOK
<1>6. BusyInv'
  BY <1>3 DEF BusyInv, Busy, supVars
<1>7. WishInv'
  BY <1>3 DEF WishInv, Busy, Outdate, TypeOK, FabricTypeOK, supVars
<1> QED
  BY <1>1, <1>2, <1>4, <1>5, <1>6, <1>7

\* So does a crash of the daemon and the load that follows it.
LEMMA CrashKeepsIInv ==
    ASSUME IInv, CrashAndLoad
    PROVE  IInv'
<1> USE DEF IInv, CrashAndLoad
<1>1. PICK s \in Sups :
        /\ loop' = [t \in Sups |-> IF t = s /\ def.exists /\ def.enabled THEN "top" ELSE "idle"]
        /\ st' = [t \in Sups |->
                    [NewStatus EXCEPT !.started = t = s /\ def.exists /\ def.enabled]]
        /\ pol' = [t \in Sups |-> IF t = s THEN def.policy ELSE "no"]
        /\ installed' = IF def.exists THEN s ELSE NoOne
  OBVIOUS
<1>2. def \in Definition
  BY DEF TypeOK, FabricTypeOK
<1>3. SupTypeOK'
  <2>1. st' \in [Sups -> Status]
    BY <1>1, <1>2 DEF NewStatus, Status, Definition
  <2>2. pol' \in [Sups -> Policies]
    BY <1>1, <1>2 DEF Definition, Policies
  <2>3. tracker' \in [Sups -> [delay : 0..BackoffMax, restarts : 0..MaxRestarts]]
    BY BackoffAssumption, SupervisorAssumption DEF Reset
  <2> QED
    BY <1>1, <2>1, <2>2, <2>3 DEF SupTypeOK
<1>4. FabricTypeOK'
  BY <1>1, <1>2 DEF TypeOK, FabricTypeOK
<1>5. LoopInv'
  BY <1>1, <1>2 DEF LoopInv, NewStatus, Definition
<1>6. LockInv' /\ StepInv'
  BY LifecycleAssumption DEF LockInv, StepInv
<1>7. BusyInv' /\ WishInv'
  BY <1>1, <1>2 DEF BusyInv, WishInv, Busy, Definition
<1> QED
  BY <1>3, <1>4, <1>5, <1>6, <1>7 DEF TypeOK

\* The invariant holds in every behaviour.
THEOREM Inductive == Spec => []IInv
<1>1. Init => IInv
  BY InitIInv
<1>2. IInv /\ [Next]_vars => IInv'
  <2> SUFFICES ASSUME IInv, [Next]_vars PROVE IInv'
    OBVIOUS
  <2>1. ASSUME NEW s \in Sups, Loop(s) \/ World(s), UNCHANGED fabricVars PROVE IInv'
    BY <2>1, LoopsKeepIInv
  <2>2. ASSUME NEW c \in Clients,
               Serve(c) \/ DiskFails(c) \/ \E what \in Requests : Acquire(c, what)
        PROVE  IInv'
    BY <2>2, ServesKeepIInv, DiskFailsKeepsIInv, AcquireKeepsIInv
  <2>3. CASE CrashAndLoad
    BY <2>3, CrashKeepsIInv
  <2>4. CASE UNCHANGED vars
    BY <2>4 DEF vars, supVars, fabricVars, IInv, TypeOK, SupTypeOK, FabricTypeOK, LoopInv,
       LockInv, StepInv, BusyInv, WishInv, Busy
  <2> QED
    BY <2>1, <2>2, <2>3, <2>4 DEF Next
<1> QED
  BY <1>1, <1>2, PTL DEF Spec

\* Every variable keeps its type, the delay and the count of restarts included.
THEOREM TypeCorrect == Spec => []TypeOK
<1>1. IInv => TypeOK
  BY DEF IInv
<1> QED
  BY <1>1, Inductive, PTL

\* There are never two copies of the service running.
THEOREM OneCopyAlways == Spec => []OneCopy
<1>1. IInv => OneCopy
  <2> SUFFICES ASSUME IInv, NEW s \in Sups, NEW t \in Sups, leader[s] = "live",
                      leader[t] = "live"
               PROVE  s = t
    BY DEF OneCopy
  <2>1. Busy(s) /\ Busy(t)
    BY DEF IInv, LoopInv, Busy
  <2>2. ASSUME NEW c \in Clients, op[c] = "restart", step[c] \in {"ask", "wait"}
        PROVE  ~Busy(installed)
    BY <2>2 DEF IInv, StepInv, Busy
  <2> QED
    BY <2>1, <2>2 DEF IInv, BusyInv, LockInv
<1> QED
  BY <1>1, Inductive, PTL

\* A copy that runs is one the fabric knows of.
THEOREM NoneLostEver == Spec => []NoneLost
<1>1. IInv => NoneLost
  <2> SUFFICES ASSUME IInv, NEW s \in Sups, leader[s] = "live", s # installed
               PROVE  \E c \in Clients : mine[c] = s /\ lock = c
    BY DEF NoneLost
  <2>1. Busy(s)
    BY DEF IInv, LoopInv, Busy
  <2> QED
    BY <2>1 DEF IInv, BusyInv, LockInv
<1> QED
  BY <1>1, Inductive, PTL

\* A service stopped on purpose stays stopped, over a crash too.
THEOREM StaysStoppedAlways == Spec => []StaysStopped
<1>1. IInv => StaysStopped
  BY DEF IInv, WishInv, LoopInv, StaysStopped, Busy
<1> QED
  BY <1>1, Inductive, PTL

\* What is being looked after is what the registry says should run.
THEOREM DesiredIsRecordedAlways == Spec => []DesiredIsRecorded
<1>1. IInv => DesiredIsRecorded
  <2> SUFFICES ASSUME IInv, lock = NoOne, installed # NoOne, Live(installed)
               PROVE  def.exists /\ def.enabled
    BY DEF DesiredIsRecorded
  <2>1. installed \in Sups
    BY DEF IInv, TypeOK, FabricTypeOK
  <2>2. Busy(installed)
    BY <2>1 DEF IInv, LoopInv, Live, Busy
  <2>3. \A c \in Clients : step[c] = "idle"
    BY LifecycleAssumption DEF IInv, LockInv
  <2> QED
    BY <2>1, <2>2, <2>3 DEF IInv, BusyInv
<1> QED
  BY <1>1, Inductive, PTL

\* While a restart is under way nobody who asks is told the service has ended.
THEOREM RestartIsNotTheEndEver == Spec => []RestartIsNotTheEnd
<1>1. IInv => RestartIsNotTheEnd
  BY DEF IInv, StepInv, LoopInv, RestartIsNotTheEnd
<1> QED
  BY <1>1, Inductive, PTL

\* When a stop returns, the process it found and what that had started are gone.
THEOREM StopIsWholeAlways == Spec => StopIsWhole
<1> DEFINE Whole == \A c \in Clients :
                      At(c, "wait") /\ At(c, "idle")' /\ op[c] = "stop" /\ st[mine[c]].started
                        => leader'[mine[c]] # "live" /\ (asked[mine[c]] => ~kids'[mine[c]])
<1>1. IInv /\ [Next]_vars => Whole
  <2> SUFFICES ASSUME IInv, [Next]_vars, NEW c \in Clients, step[c] = "wait",
                      step'[c] = "idle", op[c] = "stop", st[mine[c]].started
               PROVE  leader'[mine[c]] # "live" /\ (asked[mine[c]] => ~kids'[mine[c]])
    BY DEF At
  <2>1. mine[c] \in Sups /\ lock = c /\ \A d \in Clients : d # c => step[d] = "idle"
    BY DEF IInv, StepInv, LockInv
  <2>2. CASE Waited(c)
    <3>1. leader' = leader /\ kids' = kids /\ StopOver(mine[c])
      BY <2>2 DEF Waited, StopReturns
    <3>2. loop[mine[c]] \in {"idle", "done"}
      BY <2>1, <3>1 DEF StopOver, IInv, LoopInv
    <3>3. leader[mine[c]] # "live"
      BY <2>1, <3>2 DEF IInv, LoopInv
    <3>4. asked[mine[c]] => ~kids[mine[c]]
      BY <3>1 DEF StopOver, ProcessStopped
    <3> QED
      BY <3>1, <3>3, <3>4
  <2>3. CASE CrashAndLoad
    BY <2>1, <2>3 DEF CrashAndLoad
  <2>4. ASSUME NEW s \in Sups, UNCHANGED fabricVars
        PROVE  FALSE
    BY <2>4 DEF fabricVars
  <2>5. ASSUME NEW d \in Clients, Serve(d) \/ DiskFails(d) \/ \E what \in Requests : Acquire(d, what)
        PROVE  Waited(c)
    <3>1. d = c
      BY <2>1, <2>5, LifecycleAssumption DEF Serve, Acquire, At, DiskFails, WritingStep,
         BeginStart, StartEnable, StartUnknown, StartCheck, StartLaunch, Add, Ensure, Update,
         UpdateRedefine, Stop, Restart, Remove, Ask, Waited, RestartEnable, RemoveForget,
         RemoveDelete
    <3> QED
      BY <2>5, <3>1 DEF Serve, Acquire, At, DiskFails, WritingStep,
         BeginStart, StartEnable, StartUnknown, StartCheck, StartLaunch, Add, Ensure, Update,
         UpdateRedefine, Stop, Restart, Remove, Ask, RestartEnable, RemoveForget,
         RemoveDelete
  <2>6. CASE UNCHANGED vars
    BY <2>6 DEF vars, fabricVars
  <2> QED
    BY <2>2, <2>3, <2>4, <2>5, <2>6 DEF Next
<1> QED
  BY <1>1, Inductive, PTL DEF Spec, StopIsWhole

----------------------------------------------------------------------------
(* The process of a supervisor, seen by those who stop it. *)

Process(s) == INSTANCE StoppedProcess
    WITH Callers <- {}, leader <- leader[s], kids <- kids[s], stopping <- {}

\* Only s and what it runs.
Only(s) ==
    /\ leader' = [leader EXCEPT ![s] = leader'[s]]
    /\ kids' = [kids EXCEPT ![s] = kids'[s]]
    /\ UNCHANGED <<loop, st, pol, tracker, cancel, cur, asked>>

\* What the supervisor takes Process.Stop for, and what it takes its process to do
\* meanwhile, is exactly what a StoppedProcess promises and does: what ProcessStop
\* implements.
THEOREM SupervisesAPromise ==
    SupTypeOK => \A s \in Sups :
        /\ ProcessStopped(s) <=> Process(s)!Stopped
        /\ World(s) <=> Process(s)!World /\ Only(s)
<1> SUFFICES ASSUME SupTypeOK, NEW s \in Sups
             PROVE  /\ ProcessStopped(s) <=> Process(s)!Stopped
                    /\ World(s) <=> Process(s)!World /\ Only(s)
  OBVIOUS
<1>1. ProcessStopped(s) <=> Process(s)!Stopped
  BY DEF ProcessStopped, Process!Stopped
<1>2. leader = [leader EXCEPT ![s] = leader[s]] /\ kids = [kids EXCEPT ![s] = kids[s]]
  BY DEF SupTypeOK
<1>3. kids[s] \in BOOLEAN
  BY DEF SupTypeOK
<1>4. Fork(s) <=> Process(s)!Fork /\ Only(s)
  BY <1>2 DEF SupTypeOK, Fork, Process!Fork, Only
<1>5. Exit(s) <=> Process(s)!Exit /\ Only(s)
  BY <1>2 DEF SupTypeOK, Exit, Process!Exit, Only
<1>6. KidsExit(s) <=> Process(s)!KidsExit /\ Only(s)
  BY <1>2 DEF SupTypeOK, KidsExit, Process!KidsExit, Only
<1> QED
  BY <1>1, <1>4, <1>5, <1>6 DEF World, Process!World

=============================================================================
