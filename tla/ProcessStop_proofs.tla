------------------------- MODULE ProcessStop_proofs -------------------------
(***************************************************************************)
(* That a stop is complete, grants its whole grace period and kills nobody  *)
(* it has not asked, for whatever a service starts, any number of callers   *)
(* and any timers.  That every stop returns stays with the model checker.   *)
(***************************************************************************)
EXTENDS ProcessStop, TLAPS

\* One stop at a time is past the mutex.
MutexInv == \A c \in Stoppers : stop[c] # "idle" <=> mu = c

\* What is in the cgroup is there with the leader; a reaped leader is gone; and
\* what is in the cgroup, or a stop may yet ask, has been started.
MembersInv ==
    /\ inside # {} => Leader \in inside
    /\ Reaped => st[Leader] = "gone"
    /\ \A m \in owed \cup inside : st[m] # "none"

\* When the sweep comes the time is up or nothing is left, and afterwards nothing
\* is.
SweepInv ==
    \A c \in Stoppers :
        /\ stop[c] = "sweeping" => left = 0 \/ Live \cap inside = {}
        /\ stop[c] = "waiting" => Live \cap inside = {}

\* Whom a stop that found its leader unreaped has asked by now.
AskInv ==
    ~late => \A c \in Stoppers :
        /\ stop[c] \in {"cgroup", "hangup", "grace"} => owed \cap group = {}
        /\ stop[c] \in {"hangup", "grace", "emptying", "sweeping"} => owed \cap inside = {}

IInv == TypeOK /\ MutexInv /\ MembersInv /\ SweepInv /\ AskInv

\* Time running down.
LEMMA LessType ==
    ASSUME NEW t \in Nat
    PROVE  Less(t) \in Nat /\ (t = 0 => Less(t) = 0)
  BY DEF Less

LEMMA InitIInv == Init => IInv
<1> SUFFICES ASSUME Init PROVE IInv
  OBVIOUS
<1> USE ProcessStopAssumption
<1>1. TypeOK
  BY DEF Init, TypeOK, Members
<1>2. MutexInv /\ SweepInv /\ AskInv
  BY DEF Init, MutexInv, SweepInv, AskInv
<1>3. MembersInv
  <2>1. ~Reaped /\ owed = {} /\ (inside # {} => Leader \in inside)
    BY DEF Init, Reaped
  <2>2. \A m \in inside : st[m] = "live"
    BY DEF Init, Members
  <2> QED
    BY <2>1, <2>2 DEF MembersInv
<1> QED
  BY <1>1, <1>2, <1>3 DEF IInv

LEMMA TypeKept == TypeOK /\ [Next]_vars => TypeOK'
<1> SUFFICES ASSUME TypeOK, [Next]_vars PROVE TypeOK'
  OBVIOUS
<1> USE ProcessStopAssumption
<1>1. CASE UNCHANGED vars
  BY <1>1 DEF vars, members, reaper, stopper, TypeOK
<1>2. ASSUME NEW m \in Members, Exit(m) PROVE TypeOK'
  BY <1>2 DEF Exit, reaper, stopper, TypeOK
<1>3. ASSUME NEW m \in Members, LetTerminalGo(m) PROVE TypeOK'
  BY <1>3 DEF LetTerminalGo, reaper, stopper, TypeOK
<1>4. ASSUME NEW m \in Members, NEW k \in Kids, Fork(m, k) PROVE TypeOK'
  BY <1>4 DEF Fork, reaper, stopper, TypeOK, Members
<1>5. ASSUME NEW k \in Kids, Setsid(k) PROVE TypeOK'
  BY <1>5 DEF Setsid, reaper, stopper, TypeOK
<1>6. CASE Tick
  BY <1>6, LessType DEF Tick, members, TypeOK
<1>7. CASE DrainEnds \/ DrainWoken
  BY <1>7 DEF DrainEnds, DrainWoken, members, stopper, TypeOK
<1>8. CASE Reap
  <2>1. DrainGrace \in Nat /\ DrainAbandon \in Nat /\ 0 \in Nat
    OBVIOUS
  <2>2. /\ reap' \in {"waiting", "draining", "closed", "done"} /\ reapLeft' \in Nat
        /\ UNCHANGED <<members, drained, stopper, owed, late>>
    BY <1>8, <2>1 DEF Reap, ReapWaited, ReapDrained, ReapCloses, ReapAbandons, TypeOK
  <2> QED
    BY <2>2 DEF members, stopper, TypeOK
<1>9. ASSUME NEW c \in Stoppers, Lock(c) \/ Look(c) \/ AskGroup(c) \/ AskRest(c) \/ AskAll(c)
      PROVE  TypeOK'
  BY <1>9 DEF Lock, Look, AskGroup, AskRest, AskAll, Goto, Live, members, reaper, TypeOK
<1>10. ASSUME NEW c \in Stoppers, LeaderEnded(c) \/ HangUp(c) \/ Emptied(c) \/ Return(c)
      PROVE  TypeOK'
  BY <1>10 DEF LeaderEnded, HangUp, Emptied, Return, Goto, members, reaper, TypeOK
<1>11. ASSUME NEW c \in Stoppers, KillGroup(c) \/ Sweep(c) PROVE TypeOK'
  BY <1>11 DEF KillGroup, Sweep, Killed, Goto, reaper, TypeOK
<1> QED
  BY <1>1, <1>2, <1>3, <1>4, <1>5, <1>6, <1>7, <1>8, <1>9, <1>10, <1>11 DEF Next, Stop

LEMMA MutexKept == TypeOK /\ MutexInv /\ [Next]_vars => MutexInv'
<1> SUFFICES ASSUME TypeOK, MutexInv, [Next]_vars PROVE MutexInv'
  OBVIOUS
<1> USE ProcessStopAssumption DEF TypeOK, MutexInv
<1>1. CASE UNCHANGED <<stop, mu>>
  BY <1>1
<1>2. ASSUME NEW c \in Stoppers, Lock(c) PROVE MutexInv'
  BY <1>2 DEF Lock, Goto
<1>3. ASSUME NEW c \in Stoppers, Stop(c), ~Return(c) PROVE MutexInv'
  <2>1. mu' = mu /\ stop[c] # "idle" /\ stop'[c] # "idle"
    BY <1>3 DEF Stop, Look, AskGroup, AskRest, AskAll, LeaderEnded, HangUp, KillGroup, Emptied,
                Sweep, Goto
  <2>2. \A d \in Stoppers : d # c => stop'[d] = stop[d]
    BY <1>3 DEF Stop, Look, AskGroup, AskRest, AskAll, LeaderEnded, HangUp, KillGroup, Emptied,
                Sweep, Goto
  <2> QED
    BY <2>1, <2>2
<1>4. ASSUME NEW c \in Stoppers, Return(c) PROVE MutexInv'
  BY <1>4 DEF Return, Goto
<1> QED
  BY <1>1, <1>2, <1>3, <1>4
  DEF Next, vars, members, reaper, stopper, Exit, LetTerminalGo, Fork, Setsid, Tick, DrainEnds,
      DrainWoken, Reap, ReapWaited, ReapDrained, ReapCloses, ReapAbandons

\* The steps of a stop that kill nobody.
StepsOfStop(c) ==
    Look(c) \/ AskGroup(c) \/ AskRest(c) \/ AskAll(c) \/ LeaderEnded(c) \/ HangUp(c)
      \/ Emptied(c) \/ Return(c)

LEMMA MembersKept == TypeOK /\ MembersInv /\ [Next]_vars => MembersInv'
<1> SUFFICES ASSUME TypeOK, MembersInv, [Next]_vars PROVE MembersInv'
  OBVIOUS
<1> USE ProcessStopAssumption DEF MembersInv
<1>1. CASE UNCHANGED vars
  BY <1>1 DEF vars, members, reaper, Reaped
<1>2. ASSUME NEW m \in Members, Exit(m) PROVE MembersInv'
  BY <1>2 DEF Exit, reaper, Reaped, TypeOK, Members
<1>3. ASSUME NEW m \in Members, LetTerminalGo(m) PROVE MembersInv'
  BY <1>3 DEF LetTerminalGo, reaper, Reaped
<1>4. ASSUME NEW m \in Members, NEW k \in Kids, Fork(m, k) PROVE MembersInv'
  <2>1. \A x \in Members : st[x] # "none" => st'[x] = st[x]
    BY <1>4 DEF Fork, TypeOK
  <2>2. st'[k] = "live" /\ owed' = owed /\ reap' = reap /\ Leader \in Members
    BY <1>4 DEF Fork, TypeOK, reaper, Members
  <2>3. inside' \in {inside, inside \cup {k}} /\ (inside' # {} => inside # {})
    BY <1>4 DEF Fork
  <2> QED
    BY <2>1, <2>2, <2>3 DEF Reaped, TypeOK
<1>5. ASSUME NEW k \in Kids, Setsid(k) PROVE MembersInv'
  BY <1>5 DEF Setsid, reaper, Reaped
<1>6. CASE Tick \/ DrainEnds \/ DrainWoken \/ \E c \in Stoppers : Lock(c)
  BY <1>6 DEF Tick, DrainEnds, DrainWoken, Lock, members, reaper, Reaped
<1>7. CASE Reap
  BY <1>7 DEF Reap, ReapWaited, ReapDrained, ReapCloses, ReapAbandons, members, Reaped
<1>8. ASSUME NEW c \in Stoppers, StepsOfStop(c) PROVE MembersInv'
  <2>1. UNCHANGED <<members, reaper>>
    BY <1>8 DEF StepsOfStop, Look, AskGroup, AskRest, AskAll, LeaderEnded, HangUp, Emptied, Return
  <2>2. owed' \subseteq owed \cup Live
    BY <1>8 DEF StepsOfStop, Look, AskGroup, AskRest, AskAll, LeaderEnded, HangUp, Emptied, Return
  <2> QED
    BY <2>1, <2>2 DEF members, reaper, Reaped, Live
<1>9. ASSUME NEW c \in Stoppers, KillGroup(c) \/ Sweep(c) PROVE MembersInv'
  <2>1. \A m \in Members : (st'[m] = "none" <=> st[m] = "none") /\ (st[m] = "gone" => st'[m] = "gone")
    BY <1>9 DEF KillGroup, Sweep, Killed
  <2>2. UNCHANGED <<inside, owed, reap>>
    BY <1>9 DEF KillGroup, Sweep, reaper
  <2> QED
    BY <2>1, <2>2 DEF Reaped, Members, TypeOK
<1> QED
  BY <1>1, <1>2, <1>3, <1>4, <1>5, <1>6, <1>7, <1>8, <1>9 DEF Next, Stop, StepsOfStop

LEMMA SweepKept ==
    TypeOK /\ MutexInv /\ MembersInv /\ SweepInv /\ [Next]_vars => SweepInv'
<1> SUFFICES ASSUME TypeOK, MutexInv, MembersInv, SweepInv, [Next]_vars PROVE SweepInv'
  OBVIOUS
<1> USE ProcessStopAssumption DEF SweepInv
<1>1. CASE UNCHANGED vars
  BY <1>1 DEF vars, members, stopper, Live
<1>2. ASSUME NEW m \in Members, Exit(m) PROVE SweepInv'
  BY <1>2 DEF Exit, stopper, Live, TypeOK
<1>3. ASSUME NEW m \in Members, LetTerminalGo(m) PROVE SweepInv'
  BY <1>3 DEF LetTerminalGo, stopper, Live
<1>4. ASSUME NEW m \in Members, NEW k \in Kids, Fork(m, k) PROVE SweepInv'
  <2>1. Live \cap inside = {} => Live' \cap inside' = {}
    <3>1. k \notin inside /\ st[m] = "live"
      BY <1>4 DEF Fork, MembersInv
    <3>2. m \in Live /\ Live' \subseteq Live \cup {k}
      BY <3>1, <1>4 DEF Fork, Live, TypeOK
    <3> QED
      BY <3>1, <3>2, <1>4 DEF Fork
  <2>2. stop' = stop /\ left' = left
    BY <1>4 DEF Fork, stopper
  <2> QED
    BY <2>1, <2>2
<1>5. ASSUME NEW k \in Kids, Setsid(k) PROVE SweepInv'
  BY <1>5 DEF Setsid, stopper, Live
<1>6. CASE Tick
  BY <1>6, LessType DEF Tick, members, Live, TypeOK
<1>7. CASE DrainEnds \/ DrainWoken \/ Reap
  BY <1>7 DEF DrainEnds, DrainWoken, Reap, ReapWaited, ReapDrained, ReapCloses, ReapAbandons,
              members, stopper, Live
<1>8. ASSUME NEW c \in Stoppers, Lock(c) \/ Stop(c) PROVE SweepInv'
  <2>1. \A d \in Stoppers : d # c => stop'[d] = stop[d]
    BY <1>8 DEF Lock, Stop, Look, AskGroup, AskRest, AskAll, LeaderEnded, HangUp, KillGroup,
                Emptied, Sweep, Return, Goto, TypeOK
  <2>2. \A d \in Stoppers : d # c => stop[d] = "idle"
    BY <1>8 DEF MutexInv, Lock, Stop, Look, AskGroup, AskRest, AskAll, LeaderEnded, HangUp,
                KillGroup, Emptied, Sweep, Return, Goto, TypeOK
  <2>3. stop'[c] = "sweeping" => left' = 0 \/ Live' \cap inside' = {}
    <3>1. CASE Emptied(c)
      BY <3>1 DEF Emptied, MembersInv, members, stopper, Live, Alive
    <3> QED
      BY <1>8, <3>1 DEF Lock, Stop, Look, AskGroup, AskRest, AskAll, LeaderEnded, HangUp,
                        KillGroup, Sweep, Return, Goto, TypeOK
  <2>4. stop'[c] = "waiting" => Live' \cap inside' = {}
    <3>1. CASE Sweep(c)
      BY <3>1 DEF Sweep, Killed, Live
    <3> QED
      BY <1>8, <3>1 DEF Lock, Stop, Look, AskGroup, AskRest, AskAll, LeaderEnded, HangUp,
                        KillGroup, Emptied, Return, Goto, TypeOK
  <2> QED
    BY <2>1, <2>2, <2>3, <2>4
<1> QED
  BY <1>1, <1>2, <1>3, <1>4, <1>5, <1>6, <1>7, <1>8 DEF Next

LEMMA AskKept ==
    TypeOK /\ MutexInv /\ MembersInv /\ AskInv /\ [Next]_vars => AskInv'
<1> SUFFICES ASSUME TypeOK, MutexInv, MembersInv, AskInv, [Next]_vars PROVE AskInv'
  OBVIOUS
<1> USE ProcessStopAssumption DEF AskInv
<1>1. CASE UNCHANGED vars
  BY <1>1 DEF vars, members, stopper
<1>2. ASSUME NEW m \in Members, Exit(m) \/ LetTerminalGo(m) PROVE AskInv'
  BY <1>2 DEF Exit, LetTerminalGo, stopper
<1>3. ASSUME NEW m \in Members, NEW k \in Kids, Fork(m, k) PROVE AskInv'
  <2>1. k \notin owed
    BY <1>3 DEF Fork, MembersInv
  <2>2. group' \subseteq group \cup {k} /\ inside' \subseteq inside \cup {k}
    BY <1>3 DEF Fork
  <2>3. UNCHANGED <<stop, owed, late>>
    BY <1>3 DEF Fork, stopper
  <2>4. owed' \cap group' \subseteq owed \cap group /\ owed' \cap inside' \subseteq owed \cap inside
    BY <2>1, <2>2, <2>3
  <2> QED
    BY <2>3, <2>4
<1>4. ASSUME NEW k \in Kids, Setsid(k) PROVE AskInv'
  BY <1>4 DEF Setsid, stopper
<1>5. CASE Tick \/ DrainEnds \/ DrainWoken \/ Reap
  BY <1>5 DEF Tick, DrainEnds, DrainWoken, Reap, ReapWaited, ReapDrained, ReapCloses,
              ReapAbandons, members, stopper
<1>6. ASSUME NEW c \in Stoppers, Lock(c) \/ Stop(c) PROVE AskInv'
  <2>1. \A d \in Stoppers : d # c => stop'[d] = stop[d] /\ stop[d] = "idle"
    BY <1>6 DEF MutexInv, Lock, Stop, Look, AskGroup, AskRest, AskAll, LeaderEnded, HangUp,
                KillGroup, Emptied, Sweep, Return, Goto, TypeOK
  <2>2. (late => late') /\ group' = group /\ inside' = inside
    <3>1. group' = group /\ inside' = inside
      BY <1>6 DEF Lock, Stop, Look, AskGroup, AskRest, AskAll, LeaderEnded, HangUp, KillGroup,
                  Emptied, Sweep, Return, members
    <3>2. CASE AskGroup(c)
      BY <3>1, <3>2, Zenon DEF AskGroup
    <3>3. CASE ~AskGroup(c)
      BY <1>6, <3>1, <3>3 DEF Lock, Stop, Look, AskRest, AskAll, LeaderEnded, HangUp, KillGroup,
                         Emptied, Sweep, Return
    <3> QED
      BY <3>2, <3>3
  <2>3. ASSUME ~late', stop'[c] \in {"cgroup", "hangup", "grace"} PROVE owed' \cap group = {}
    <3>1. CASE AskGroup(c)
      BY <2>3, <3>1 DEF AskGroup
    <3>2. CASE AskRest(c) \/ HangUp(c)
      BY <2>2, <2>3, <3>2 DEF AskRest, HangUp, Goto
    <3> QED
      BY <1>6, <2>3, <3>1, <3>2 DEF Lock, Stop, Look, AskAll, LeaderEnded, KillGroup, Emptied,
                                    Sweep, Return, Goto, TypeOK
  <2>4. ASSUME ~late', stop'[c] \in {"hangup", "grace", "emptying", "sweeping"}
        PROVE  owed' \cap inside = {}
    <3>1. CASE AskRest(c)
      BY <2>2, <2>4, <3>1 DEF AskRest, Goto
    <3>2. CASE AskAll(c)
      BY <3>2 DEF AskAll
    <3>3. CASE LeaderEnded(c) \/ HangUp(c) \/ KillGroup(c) \/ Emptied(c)
      BY <2>2, <2>4, <3>3 DEF LeaderEnded, HangUp, KillGroup, Emptied, Goto
    <3>4. CASE Look(c)
      BY <2>4, <3>4 DEF Look, Goto, TypeOK
    <3> QED
      BY <1>6, <2>4, <3>1, <3>2, <3>3, <3>4 DEF Lock, Stop, AskGroup, Sweep, Return, Goto, TypeOK
  <2> QED
    BY <2>1, <2>2, <2>3, <2>4
<1> QED
  BY <1>1, <1>2, <1>3, <1>4, <1>5, <1>6 DEF Next

LEMMA Inductive == Spec => []IInv
<1>1. IInv /\ [Next]_vars => IInv'
  BY TypeKept, MutexKept, MembersKept, SweepKept, AskKept DEF IInv
<1> QED
  BY InitIInv, <1>1, PTL DEF Spec

----------------------------------------------------------------------------
(* The theorems. *)

\* Every state the stop of a process reaches is one it declares.
THEOREM StopTypeCorrect == Spec => []TypeOK
<1>1. IInv => TypeOK
  BY DEF IInv
<1> QED
  BY <1>1, Inductive, PTL

\* When a stop returns the leader has ended and nothing goes on in its cgroup.
THEOREM StopIsCompleteEver == Spec => StopIsComplete
<1>1. IInv /\ [Next]_vars =>
        \A c \in Stoppers : stop[c] = "waiting" /\ stop'[c] = "idle" =>
          st[Leader] = "gone" /\ Live \cap inside = {}
  <2> SUFFICES ASSUME IInv, [Next]_vars, NEW c \in Stoppers, stop[c] = "waiting", stop'[c] = "idle"
               PROVE  st[Leader] = "gone" /\ Live \cap inside = {}
    OBVIOUS
  <2>1. Live \cap inside = {}
    BY DEF IInv, SweepInv
  <2>2. stop' # stop
    OBVIOUS
  <2>3. ASSUME NEW d \in Stoppers, Lock(d) \/ Stop(d) PROVE Return(d)
    <3>1. d = c
      BY <2>3, ProcessStopAssumption DEF IInv, TypeOK, Lock, Stop, Look, AskGroup, AskRest, AskAll,
         LeaderEnded, HangUp, KillGroup, Emptied, Sweep, Return, Goto
    <3> QED
      BY <2>3, <3>1 DEF Lock, Stop, Look, AskGroup, AskRest, AskAll, LeaderEnded, HangUp,
         KillGroup, Emptied, Sweep, Goto
  <2>4. Done
    BY <2>2, <2>3 DEF Next, vars, stopper, Exit, LetTerminalGo, Fork, Setsid, Tick, DrainEnds,
       DrainWoken, Reap, ReapWaited, ReapDrained, ReapCloses, ReapAbandons, Return
  <2> QED
    BY <2>1, <2>4 DEF IInv, MembersInv, Done, Reaped
<1> QED
  BY <1>1, Inductive, PTL DEF Spec, StopIsComplete

\* Who kills: the group's signal, and the sweep.
LEMMA KillsOnlyIn ==
    ASSUME TypeOK, [Next]_vars, NEW m \in Members, Kills(m)
    PROVE  \E c \in Stoppers :
             \/ KillGroup(c) /\ ~Reaped /\ m \in group
             \/ Sweep(c) /\ m \in inside
<1>1. st' # st
  BY DEF Kills
<1>2. ~ \E x \in Members : Exit(x)
  BY DEF Exit, Kills, TypeOK
<1>3. ~ \E x \in Members, k \in Kids : Fork(x, k)
  BY DEF Fork, Kills, TypeOK
<1>4. \E c \in Stoppers : KillGroup(c) \/ Sweep(c)
  BY <1>1, <1>2, <1>3 DEF Next, vars, members, LetTerminalGo, Setsid, Tick, DrainEnds, DrainWoken,
     Reap, ReapWaited, ReapDrained, ReapCloses, ReapAbandons, Lock, Stop, Look, AskGroup, AskRest,
     AskAll, LeaderEnded, HangUp, Emptied, Return
<1>5. ASSUME NEW targets, Killed(targets) PROVE m \in targets
  BY <1>5 DEF Killed, Kills
<1>6. PICK c \in Stoppers : KillGroup(c) \/ Sweep(c)
  BY <1>4
<1> QED
  BY <1>5, <1>6 DEF KillGroup, Sweep

\* Nobody is killed before the whole grace period of a stop.
THEOREM GraceIsWholeEver == Spec => GraceIsWhole
<1>1. IInv /\ [Next]_vars => \A m \in Members : Kills(m) => mu # NoOne /\ left = 0
  <2> SUFFICES ASSUME IInv, [Next]_vars, NEW m \in Members, Kills(m)
               PROVE  mu # NoOne /\ left = 0
    OBVIOUS
  <2>1. PICK c \in Stoppers :
          \/ KillGroup(c) /\ ~Reaped /\ m \in group
          \/ Sweep(c) /\ m \in inside
    BY KillsOnlyIn DEF IInv
  <2>2. mu = c
    BY <2>1 DEF IInv, MutexInv, KillGroup, Sweep, Goto
  <2>3. m \in Live
    BY DEF Kills, Live
  <2>4. left = 0
    BY <2>1, <2>3 DEF IInv, SweepInv, KillGroup, Sweep, Goto
  <2> QED
    BY <2>2, <2>4, ProcessStopAssumption
<1> QED
  BY <1>1, Inductive, PTL DEF Spec, GraceIsWhole

\* And nobody who was there when the stop began, unasked.
THEOREM AskedFirstEver == Spec => AskedFirst
<1>1. IInv /\ [Next]_vars => (~late => \A m \in Members : Kills(m) => m \notin owed)
  <2> SUFFICES ASSUME IInv, [Next]_vars, ~late, NEW m \in Members, Kills(m)
               PROVE  m \notin owed
    OBVIOUS
  <2>1. PICK c \in Stoppers :
          \/ KillGroup(c) /\ ~Reaped /\ m \in group
          \/ Sweep(c) /\ m \in inside
    BY KillsOnlyIn DEF IInv
  <2> QED
    BY <2>1 DEF IInv, AskInv, KillGroup, Sweep, Goto
<1> QED
  BY <1>1, Inductive, PTL DEF Spec, AskedFirst

----------------------------------------------------------------------------
(* The promise. *)

\* Whose stop has not returned.
Stopping == {c \in Stoppers : stop[c] # "idle"}

\* Nobody in the cgroup is born of another, the cgroup has the leader while it goes
\* on: so what the leader did not start, its children did.
LEMMA BornOfSomebody ==
    ASSUME IInv, NEW m \in Members, NEW k \in Kids, Fork(m, k), KidsGoOn' # KidsGoOn
    PROVE  KidsGoOn' /\ ~Done
<1> USE ProcessStopAssumption
<1>1. k \notin inside /\ k # Leader /\ Leader \in Members
  BY DEF Fork, IInv, MembersInv, Members
<1>2. \A x \in Members : x # k => (st'[x] = st[x])
  BY DEF Fork, IInv, TypeOK
<1>3. inside \subseteq Members
  BY DEF IInv, TypeOK
<1>4. CASE m \notin inside
  <2>1. inside' = inside
    BY <1>4 DEF Fork
  <2>2. Live' \cap inside' = Live \cap inside
    BY <2>1, <1>1, <1>2, <1>3 DEF Live
  <2> QED
    BY <2>2 DEF KidsGoOn
<1>5. CASE m \in inside
  <2>1. Live' \cap inside' = (Live \cap inside) \cup {k}
    <3>1. inside' = inside \cup {k}
      BY <1>5 DEF Fork
    <3>2. st'[k] = "live" /\ k \in Members
      BY DEF Fork, IInv, TypeOK, Members
    <3> QED
      BY <3>1, <3>2, <1>1, <1>2, <1>3 DEF Live
  <2>2. KidsGoOn'
    BY <2>1, <1>1 DEF KidsGoOn
  <2>3. m \in Live
    BY DEF Fork, Live
  <2>4. m = Leader
    BY <1>5, <2>2, <2>3 DEF KidsGoOn
  <2>5. ~Done
    BY <2>4 DEF Fork, IInv, MembersInv, Done, Reaped
  <2> QED
    BY <2>2, <2>5
<1> QED
  BY <1>4, <1>5

LEMMA InitPromised == Init => Promise!Init
  BY DEF Init, Promise!Init, Done, KidsGoOn

\* A step of the stop begins one, ends one, or is none of the caller's concern.
LEMMA StepPromised == IInv /\ [Next]_vars => [Promise!Next]_(Promise!vars)
<1> SUFFICES ASSUME IInv, [Next]_vars PROVE [Promise!Next]_(Promise!vars)
  OBVIOUS
<1> USE ProcessStopAssumption
<1>t. TypeOK /\ MutexInv /\ MembersInv /\ SweepInv
  BY DEF IInv
<1>k. KidsGoOn \in BOOLEAN /\ KidsGoOn' \in BOOLEAN
  BY DEF KidsGoOn
<1>1. ASSUME UNCHANGED <<Done, KidsGoOn, Stopping>> PROVE UNCHANGED Promise!vars
  BY <1>1 DEF Promise!vars, Stopping
<1>2. ASSUME UNCHANGED <<Done, Stopping>>, KidsGoOn, ~KidsGoOn' PROVE Promise!Next
  BY <1>2 DEF Promise!Next, Promise!World, Promise!KidsExit, Stopping
<1>3. ASSUME UNCHANGED <<Done, Stopping>>, KidsGoOn', ~Done PROVE Promise!Next
  BY <1>3 DEF Promise!Next, Promise!World, Promise!Fork, Stopping
<1>4. ASSUME UNCHANGED <<KidsGoOn, Stopping>>, Done', ~Done PROVE Promise!Next
  BY <1>4 DEF Promise!Next, Promise!World, Promise!Exit, Stopping
<1>5. CASE UNCHANGED vars
  BY <1>1, <1>5 DEF vars, members, reaper, stopper, Done, KidsGoOn, Live, Stopping
<1>6. ASSUME NEW m \in Members, Exit(m) PROVE [Promise!Next]_(Promise!vars)
  <2>1. UNCHANGED <<Done, Stopping>>
    BY <1>6 DEF Exit, reaper, stopper, Done, Stopping
  <2>2. Live' \cap inside' \subseteq Live \cap inside
    BY <1>6, <1>t DEF Exit, Live, TypeOK
  <2>3. KidsGoOn' => KidsGoOn
    BY <2>2 DEF KidsGoOn
  <2> QED
    BY <1>1, <1>2, <1>k, <2>1, <2>3
<1>7. ASSUME NEW m \in Members, LetTerminalGo(m) PROVE [Promise!Next]_(Promise!vars)
  BY <1>1, <1>7 DEF LetTerminalGo, reaper, stopper, Done, KidsGoOn, Live, Stopping
<1>8. ASSUME NEW m \in Members, NEW k \in Kids, Fork(m, k) PROVE [Promise!Next]_(Promise!vars)
  <2>1. UNCHANGED <<Done, Stopping>>
    BY <1>8 DEF Fork, reaper, stopper, Done, Stopping
  <2> QED
    BY <1>1, <1>3, <1>8, <2>1, BornOfSomebody
<1>9. ASSUME NEW k \in Kids, Setsid(k) PROVE [Promise!Next]_(Promise!vars)
  BY <1>1, <1>9 DEF Setsid, reaper, stopper, Done, KidsGoOn, Live, Stopping
<1>10. CASE Tick \/ DrainEnds \/ DrainWoken
  BY <1>1, <1>10 DEF Tick, DrainEnds, DrainWoken, members, stopper, Done, KidsGoOn, Live, Stopping
<1>11. CASE Reap
  <2>1. UNCHANGED <<KidsGoOn, Stopping>>
    BY <1>11 DEF Reap, ReapWaited, ReapDrained, ReapCloses, ReapAbandons, members, stopper,
                 KidsGoOn, Live, Stopping
  <2>2. Done => Done'
    BY <1>11 DEF Reap, ReapWaited, ReapDrained, ReapCloses, ReapAbandons, Done
  <2>3. Done \in BOOLEAN /\ Done' \in BOOLEAN
    BY DEF Done
  <2> QED
    BY <1>1, <1>4, <2>1, <2>2, <2>3
<1>12. ASSUME NEW c \in Stoppers, Lock(c) PROVE Promise!Next
  <2>1. UNCHANGED <<Done, KidsGoOn>>
    BY <1>12 DEF Lock, members, reaper, Done, KidsGoOn, Live
  <2>2. c \notin Stopping /\ Stopping' = Stopping \cup {c}
    BY <1>12, <1>t DEF Lock, Goto, Stopping, TypeOK
  <2>3. Promise!Begin(c)
    BY <2>1, <2>2 DEF Promise!Begin, Stopping
  <2> QED
    BY <2>3 DEF Promise!Next
<1>13. ASSUME NEW c \in Stoppers, Return(c) PROVE Promise!Next
  <2>1. UNCHANGED <<Done, KidsGoOn>>
    BY <1>13 DEF Return, members, reaper, Done, KidsGoOn, Live
  <2>2. c \in Stopping /\ Stopping' = Stopping \ {c}
    BY <1>13, <1>t DEF Return, Goto, Stopping, TypeOK
  <2>3. Done /\ ~KidsGoOn
    BY <1>13, <1>t DEF Return, Goto, SweepInv, KidsGoOn
  <2>4. Promise!Return(c)
    BY <2>1, <2>2, <2>3 DEF Promise!Return, Promise!Stopped, Stopping
  <2> QED
    BY <2>4 DEF Promise!Next
<1>14. ASSUME NEW c \in Stoppers, Stop(c), ~Return(c) PROVE [Promise!Next]_(Promise!vars)
  <2>1. stop[c] # "idle" /\ stop'[c] # "idle" /\ \A d \in Stoppers : d # c => stop'[d] = stop[d]
    BY <1>14, <1>t DEF Stop, Look, AskGroup, AskRest, AskAll, LeaderEnded, HangUp, KillGroup,
       Emptied, Sweep, Goto, TypeOK
  <2>2. Stopping' = Stopping
    BY <2>1 DEF Stopping
  <2>3. reap' = reap /\ inside' = inside
    BY <1>14 DEF Stop, Look, AskGroup, AskRest, AskAll, LeaderEnded, HangUp, KillGroup,
       Emptied, Sweep, reaper, members
  <2>4. Done' = Done
    BY <2>3 DEF Done
  <2>5. Live' \subseteq Live
    <3>1. CASE KillGroup(c) \/ Sweep(c)
      BY <3>1 DEF KillGroup, Sweep, Killed, Live
    <3> QED
      BY <1>14, <3>1 DEF Stop, Look, AskGroup, AskRest, AskAll, LeaderEnded, HangUp, Emptied,
         members, Live
  <2>6. KidsGoOn' => KidsGoOn
    BY <2>3, <2>5 DEF KidsGoOn
  <2> QED
    BY <1>1, <1>2, <1>k, <2>2, <2>4, <2>6
<1> QED
  BY <1>5, <1>6, <1>7, <1>8, <1>9, <1>10, <1>11, <1>12, <1>13, <1>14 DEF Next, Stop

\* Process.Stop implements a StoppedProcess: what the supervisor relies on when the
\* stop it waited for has returned.
THEOREM KeepsPromiseEver == Spec => KeepsPromise
  BY InitPromised, StepPromised, Inductive, PTL DEF Spec, Promise!Spec, KeepsPromise
=============================================================================
