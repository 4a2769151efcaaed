-------------------------- MODULE Recovery_proofs --------------------------
(***************************************************************************)
(* That there is one copy of a service, looked after, whatever becomes of   *)
(* the daemon, for every set of names, processes and supervisors and any    *)
(* number of crashes, upgrades and renames (OneCopy, NoneLost and           *)
(* KeepsTerminal of Recovery).                                              *)
(*                                                                         *)
(* The inductive invariant says where a copy can be: with the one installed *)
(* supervisor, or on its way there, in what systemd handed back, in what is *)
(* to be adopted, or in hand; and that what it is filed under is the name   *)
(* its definition has on disk, so that the next daemon finds the two        *)
(* together.  It holds as long as nothing in `odd` has happened.            *)
(***************************************************************************)
EXTENDS Recovery, TLAPS

Sup == [at : {"idle", "top", "spawned", "current", "named", "waiting", "dropping", "deciding",
              "done"},
        name : Names \cup {None}, pid : Pids \cup {None}, as : Names \cup {None},
        cancel : BOOLEAN]

Defined(n) == reg[n] # "none"

\* The name the service has while a rename goes on, and otherwise.
Early == {"added", "removed"}
Late == {"swapped", "renamed", "dropped"}
Renaming == Early \cup Late
Here(n) ==
    IF op.at \in Early THEN n = op.from
    ELSE IF op.at \in Late THEN n = op.to ELSE Defined(n)

\* One definition is on disk, two between the writing of one and the removal of the other.
OneDefinition ==
    /\ op.at = "added" => op.from # op.to /\ \A n \in Names : Defined(n) <=> n \in {op.from, op.to}
    /\ op.at \in Renaming \ {"added"} => \A n \in Names : Defined(n) <=> n = op.to
    /\ op.at # "added" => \A n, m \in Names : Defined(n) /\ Defined(m) => n = m

\* What is installed is installed under the service's name, and has been told it.
Placed ==
    \A n \in Names : fsups[n] # None =>
        /\ Here(n)
        /\ sup[fsups[n]].name = IF op.at = "swapped" THEN op.from ELSE n

Having == {"spawned", "current", "named", "waiting", "dropping"}

\* Only an installed supervisor is at work, and what has a process has its
\* terminal, until the process is gone.
AtWork ==
    \A s \in Sups :
        /\ s \notin Installed => sup[s].at \in {"idle", "done"}
        /\ sup[s].at \in {"idle", "deciding", "done"} => sup[s].pid = None
        /\ sup[s].pid # None => (Live(sup[s].pid) => sup[s].pid \in held)
        /\ sup[s].at \in Having => sup[s].pid # None
        /\ sup[s].at = "dropping" => ~Live(sup[s].pid)

\* What a reaper has seen the end of has ended.
Reaping ==
    \A p \in Pids :
        /\ reaper[p] = "child" => p \in children
        /\ reaper[p] = "done" => proc[p] = "gone"

\* Nothing is known of a process that has not been started.
Unstarted ==
    \A p \in Pids : proc[p] = "unused" =>
        /\ p \notin held /\ ~Filed(p) /\ reaper[p] = "off"
        /\ \A n \in Names : <<n, p>> \notin pending \cup manifest
        /\ \A h \in carry : h.pid # p
        /\ phase = "marking" => adopting.pid # p
        /\ \A s \in Sups : sup[s].pid # p

\* A supervisor at work has a name, and so has one that files a terminal.
Told ==
    \A s \in Sups :
        /\ sup[s].at # "idle" => sup[s].name \in Names
        /\ sup[s].at = "named" => sup[s].as \in Names

\* A request is served by a daemon that is up.
Asked ==
    /\ op.at # "idle" => Serving
    /\ op.at \in Renaming => op.from \in Names /\ op.to \in Names
    /\ op.at \in Early => fsups[op.from] # None
    /\ op.at = "swapped" => op.sup = fsups[op.to]
    /\ op.at \in {"swapped", "stopping", "stopped"} => op.sup \in Sups
    /\ op.at \in {"renamed", "dropped"} => op.pid \in Pids

\* What the daemon's main goroutine is in the middle of.
InHand ==
    /\ phase = "marking" => adopting \in Handover
    /\ phase = "upgrading" => count.upgrades < MaxUpgrades
    /\ phase = "loading" => \A n \in toLoad : reg[n] # "none"

Typed == TypeOK /\ Told /\ Asked /\ InHand

\* What is to be adopted: with a live process it has a definition, a terminal
\* that is open, and no supervisor yet.
ToAdopt ==
    /\ phase \in {"taking", "marking"} => Installed = {}
    /\ phase \in {"loading", "up", "upgrading"} => carry = {}
    /\ phase # "taking" => pending = {}
    /\ \A n \in Names, p \in Pids : <<n, p>> \in pending /\ Live(p) => <<n, p>> \in store
    /\ \A h, g \in carry : h.orphan = g.orphan
    /\ phase = "taking" => \A h \in carry : h.orphan
    /\ \A h \in carry : Live(h.pid) =>
        h.pid \in held /\ Defined(h.name) /\ phase # "marking" /\ Installed = {}
    /\ phase = "marking" => Defined(adopting.name) /\ (Live(adopting.pid) => adopting.pid \in held)

\* What an upgrade will hand over.
ToHandOver ==
    /\ \A n, m \in Names, p, q \in Pids :
        <<n, p>> \in manifest /\ <<m, q>> \in manifest => n = m /\ p = q
    /\ \A n \in Names, p \in Pids : <<n, p>> \in manifest /\ Live(p) => p \in held

\* A live process is filed under its service's name, and under the old one
\* until a rename has dropped it.
FiledUnder(n, p) ==
    IF op.at \in Early \cup {"swapped"} THEN n = op.from
    ELSE IF op.at = "renamed" THEN n = op.to \/ (n = op.from /\ p = op.pid)
    ELSE Here(n)
FiledRight ==
    \A n \in Names, p \in Pids : <<n, p>> \in store /\ Live(p) => FiledUnder(n, p)

\* Where a copy is.
Supervised(p) == \E n \in Names : fsups[n] # None /\ sup[fsups[n]].pid = p
OnItsWay(p) ==
    \/ phase = "taking" /\ \E n \in Names : <<n, p>> \in pending
    \/ phase \in {"taking", "adopting"} /\ \E h \in carry : h.pid = p
    \/ phase = "marking" /\ adopting.pid = p
Accounted == \A p \in Copies : Supervised(p) \/ OnItsWay(p)

One == \A p, q \in Copies : p = q

Sane ==
    /\ OneDefinition /\ Placed /\ AtWork /\ Reaping /\ Unstarted /\ ToAdopt /\ ToHandOver
    /\ FiledRight /\ Accounted /\ One

IInv == Typed /\ (odd = {} => Sane)

----------------------------------------------------------------------------
(* Types, and what a step makes of its supervisor. *)

Becomes(s, at, name, pid, as) ==
    /\ sup' \in [Sups -> Sup]
    /\ \A t \in Sups \ {s} : sup'[t] = sup[t]
    /\ sup'[s].at = at /\ sup'[s].name = name /\ sup'[s].pid = pid
    /\ sup'[s].as = as

\* One supervisor is replaced by a record that differs from it in a few fields.
LEMMA Replaced ==
    ASSUME sup \in [Sups -> Sup], NEW s \in Sups, NEW r \in Sup, sup' = [sup EXCEPT ![s] = r]
    PROVE  Becomes(s, r.at, r.name, r.pid, r.as)
  BY DEF Becomes

LEMMA GotoBecomes ==
    ASSUME sup \in [Sups -> Sup], NEW s \in Sups,
           NEW at \in {"idle", "top", "spawned", "current", "named", "waiting", "dropping",
                       "deciding", "done"},
           Goto(s, at)
    PROVE  Becomes(s, at, sup[s].name, sup[s].pid, sup[s].as)
<1> DEFINE r == [sup[s] EXCEPT !.at = at]
<1>1. r \in Sup /\ r.at = at /\ r.name = sup[s].name /\ r.pid = sup[s].pid
      /\ r.as = sup[s].as
  BY DEF Sup
<1>2. sup' = [sup EXCEPT ![s] = r]
  BY DEF Goto
<1> HIDE DEF r
<1> QED
  BY <1>1, <1>2, Replaced

\* What each step of the loop makes of its supervisor.
LEMMA LoopSteps ==
    ASSUME TypeOK, NEW s \in Sups
    PROVE  /\ Take(s) =>
                \/ sup[s].pid # None /\ Becomes(s, "spawned", sup[s].name, sup[s].pid, sup[s].as)
                   /\ UNCHANGED <<proc, children, held, reaper>>
                \/ sup[s].pid = None /\ \E p \in Pids :
                     /\ proc[p] = "unused"
                     /\ proc' = [proc EXCEPT ![p] = "live"]
                     /\ children' = children \cup {p} /\ held' = held \cup {p}
                     /\ reaper' = [reaper EXCEPT ![p] = "child"]
                     /\ Becomes(s, "spawned", sup[s].name, p, sup[s].as)
           /\ SpawnFails(s) => Becomes(s, "done", sup[s].name, sup[s].pid, sup[s].as)
           /\ TopCancelled(s) => Becomes(s, "done", sup[s].name, sup[s].pid, sup[s].as)
           /\ SetCurrent(s) => Becomes(s, "current", sup[s].name, sup[s].pid, sup[s].as)
           /\ ReadName(s) => Becomes(s, "named", sup[s].name, sup[s].pid, sup[s].name)
           /\ File(s) => Becomes(s, "waiting", sup[s].name, sup[s].pid, None)
           /\ LetGo(s) => Becomes(s, "dropping", sup[s].name, sup[s].pid, sup[s].name)
           /\ Drop(s) => Becomes(s, "deciding", sup[s].name, None, None)
           /\ Decide(s) => \E at \in {"top", "done"} :
                Becomes(s, at, sup[s].name, sup[s].pid, sup[s].as)
<1>1. sup \in [Sups -> Sup] /\ sup[s] \in Sup
  BY DEF TypeOK, Sup
<1>2. sup[s].name \in Names \cup {None} /\ sup[s].pid \in Pids \cup {None}
      /\ sup[s].as \in Names \cup {None}
  BY <1>1 DEF Sup
<1>4. Take(s) =>
          \/ sup[s].pid # None /\ Becomes(s, "spawned", sup[s].name, sup[s].pid, sup[s].as)
             /\ UNCHANGED <<proc, children, held, reaper>>
          \/ sup[s].pid = None /\ \E p \in Pids :
               /\ proc[p] = "unused"
               /\ proc' = [proc EXCEPT ![p] = "live"]
               /\ children' = children \cup {p} /\ held' = held \cup {p}
               /\ reaper' = [reaper EXCEPT ![p] = "child"]
               /\ Becomes(s, "spawned", sup[s].name, p, sup[s].as)
  <2> SUFFICES ASSUME Take(s)
               PROVE  \/ sup[s].pid # None /\ Becomes(s, "spawned", sup[s].name, sup[s].pid, sup[s].as)
                         /\ UNCHANGED <<proc, children, held, reaper>>
                      \/ sup[s].pid = None /\ \E p \in Pids :
                           /\ proc[p] = "unused"
                           /\ proc' = [proc EXCEPT ![p] = "live"]
                           /\ children' = children \cup {p} /\ held' = held \cup {p}
                           /\ reaper' = [reaper EXCEPT ![p] = "child"]
                           /\ Becomes(s, "spawned", sup[s].name, p, sup[s].as)
    OBVIOUS
  <2>1. CASE sup[s].pid # None
    BY <1>1, <2>1, GotoBecomes DEF Take
  <2>2. CASE sup[s].pid = None
    <3>1. PICK p \in Pids :
            /\ proc[p] = "unused"
            /\ proc' = [proc EXCEPT ![p] = "live"]
            /\ children' = children \cup {p} /\ held' = held \cup {p}
            /\ reaper' = [reaper EXCEPT ![p] = "child"]
            /\ sup' = [sup EXCEPT ![s].at = "spawned", ![s].pid = p]
      BY <2>2 DEF Take
    <3> DEFINE r == [sup[s] EXCEPT !.at = "spawned", !.pid = p]
    <3>2. sup' = [sup EXCEPT ![s] = r]
      BY <1>1, <3>1
    <3>3. r \in Sup /\ r.at = "spawned" /\ r.name = sup[s].name /\ r.pid = p
          /\ r.as = sup[s].as
      BY <1>1 DEF Sup
    <3> HIDE DEF r
    <3>4. Becomes(s, "spawned", sup[s].name, p, sup[s].as)
      BY <1>1, <3>2, <3>3, Replaced
    <3> QED
      BY <2>2, <3>1, <3>4
  <2> QED
    BY <2>1, <2>2
<1>5. SpawnFails(s) => Becomes(s, "done", sup[s].name, sup[s].pid, sup[s].as)
  BY <1>1, GotoBecomes DEF SpawnFails
<1>6. TopCancelled(s) => Becomes(s, "done", sup[s].name, sup[s].pid, sup[s].as)
  BY <1>1, GotoBecomes DEF TopCancelled
<1>7. SetCurrent(s) => Becomes(s, "current", sup[s].name, sup[s].pid, sup[s].as)
  BY <1>1, GotoBecomes DEF SetCurrent
<1>8. ASSUME NEW at \in {"named", "waiting", "dropping"}, NEW as \in Names \cup {None},
             sup' = [sup EXCEPT ![s].at = at, ![s].as = as]
      PROVE  Becomes(s, at, sup[s].name, sup[s].pid, as)
  <2> DEFINE r == [sup[s] EXCEPT !.at = at, !.as = as]
  <2>1. sup' = [sup EXCEPT ![s] = r]
    BY <1>1, <1>8
  <2>2. r \in Sup /\ r.at = at /\ r.name = sup[s].name /\ r.pid = sup[s].pid /\ r.as = as
    BY <1>1 DEF Sup
  <2> HIDE DEF r
  <2> QED
    BY <1>1, <2>1, <2>2, Replaced
<1>9. ReadName(s) => Becomes(s, "named", sup[s].name, sup[s].pid, sup[s].name)
  BY <1>2, <1>8 DEF ReadName
<1>10. File(s) => Becomes(s, "waiting", sup[s].name, sup[s].pid, None)
  BY <1>8 DEF File
<1>11. LetGo(s) => Becomes(s, "dropping", sup[s].name, sup[s].pid, sup[s].name)
  BY <1>2, <1>8 DEF LetGo
<1>12. Drop(s) => Becomes(s, "deciding", sup[s].name, None, None)
  <2> SUFFICES ASSUME Drop(s) PROVE Becomes(s, "deciding", sup[s].name, None, None)
    OBVIOUS
  <2> DEFINE r == [sup[s] EXCEPT !.at = "deciding", !.pid = None, !.as = None]
  <2>1. sup' = [sup EXCEPT ![s] = r]
    BY <1>1 DEF Drop
  <2>2. r \in Sup /\ r.at = "deciding" /\ r.name = sup[s].name /\ r.pid = None
        /\ r.as = None
    BY <1>1 DEF Sup
  <2> HIDE DEF r
  <2> QED
    BY <1>1, <2>1, <2>2, Replaced
<1>13. Decide(s) => \E at \in {"top", "done"} :
                Becomes(s, at, sup[s].name, sup[s].pid, sup[s].as)
  BY <1>1, GotoBecomes DEF Decide
<1> QED
  BY <1>4, <1>5, <1>6, <1>7, <1>9, <1>10, <1>11, <1>12, <1>13

\* And the steps outside the loop that touch a supervisor.
LEMMA OtherSteps ==
    ASSUME TypeOK
    PROVE  /\ RenameSupervisor /\ op.sup \in Sups /\ op.to \in Names =>
                Becomes(op.sup, sup[op.sup].at, op.to, sup[op.sup].pid, sup[op.sup].as)
           /\ StopCancel /\ op.sup \in Sups =>
                Becomes(op.sup, sup[op.sup].at, sup[op.sup].name, sup[op.sup].pid,
                        sup[op.sup].as)
           /\ Adopted /\ adopting \in Handover => \E s \in Sups :
                /\ Spare(s) /\ Becomes(s, "top", adopting.name, adopting.pid, None)
                /\ fsups' = [fsups EXCEPT ![adopting.name] = s]
           /\ \A n \in Names : Load(n) =>
                \/ /\ fsups[n] # None /\ (reg[n] # "enabled" \/ sup[fsups[n]].at # "done")
                   /\ UNCHANGED <<sup, fsups>>
                \/ /\ fsups[n] = None \/ (reg[n] = "enabled" /\ sup[fsups[n]].at = "done")
                   /\ \E s \in Sups, at \in {"top", "idle"} :
                        /\ Spare(s) /\ Becomes(s, at, n, None, None)
                        /\ fsups' = [fsups EXCEPT ![n] = s]
           /\ Forget => sup' \in [Sups -> Sup] /\ \A s \in Sups : sup'[s].at = "idle" /\ sup'[s].pid = None
<1>1. sup \in [Sups -> Sup]
  BY DEF TypeOK, Sup
<1>2. RenameSupervisor /\ op.sup \in Sups /\ op.to \in Names =>
          Becomes(op.sup, sup[op.sup].at, op.to, sup[op.sup].pid, sup[op.sup].as)
  <2> SUFFICES ASSUME RenameSupervisor, op.sup \in Sups, op.to \in Names
               PROVE  Becomes(op.sup, sup[op.sup].at, op.to, sup[op.sup].pid, sup[op.sup].as)
    OBVIOUS
  <2> DEFINE r == [sup[op.sup] EXCEPT !.name = op.to]
  <2>1. sup' = [sup EXCEPT ![op.sup] = r]
    BY <1>1 DEF RenameSupervisor
  <2>2. r \in Sup /\ r.at = sup[op.sup].at /\ r.name = op.to /\ r.pid = sup[op.sup].pid
        /\ r.as = sup[op.sup].as
    BY <1>1 DEF Sup
  <2> HIDE DEF r
  <2> QED
    BY <1>1, <2>1, <2>2, Replaced
<1>3. StopCancel /\ op.sup \in Sups =>
          Becomes(op.sup, sup[op.sup].at, sup[op.sup].name, sup[op.sup].pid,
                        sup[op.sup].as)
  <2> SUFFICES ASSUME StopCancel, op.sup \in Sups
               PROVE  Becomes(op.sup, sup[op.sup].at, sup[op.sup].name, sup[op.sup].pid,
                        sup[op.sup].as)
    OBVIOUS
  <2>1. CASE sup' = sup
    BY <1>1, <2>1 DEF Becomes
  <2>2. CASE sup' # sup
    <3> DEFINE r == [sup[op.sup] EXCEPT !.cancel = TRUE]
    <3>1. sup' = [sup EXCEPT ![op.sup] = r]
      BY <1>1, <2>2 DEF StopCancel
    <3>2. r \in Sup /\ r.at = sup[op.sup].at /\ r.name = sup[op.sup].name
          /\ r.pid = sup[op.sup].pid /\ r.as = sup[op.sup].as
      BY <1>1 DEF Sup
    <3> HIDE DEF r
    <3> QED
      BY <1>1, <3>1, <3>2, Replaced
  <2> QED
    BY <2>1, <2>2
<1>4. ASSUME NEW s \in Sups, NEW r \in Sup, sup' = [sup EXCEPT ![s] = r]
      PROVE  Becomes(s, r.at, r.name, r.pid, r.as)
  BY <1>1, <1>4, Replaced
<1>5. Adopted /\ adopting \in Handover => \E s \in Sups :
          /\ Spare(s) /\ Becomes(s, "top", adopting.name, adopting.pid, None)
          /\ fsups' = [fsups EXCEPT ![adopting.name] = s]
  <2> SUFFICES ASSUME Adopted, adopting \in Handover
               PROVE  \E s \in Sups :
                        /\ Spare(s) /\ Becomes(s, "top", adopting.name, adopting.pid, None)
                        /\ fsups' = [fsups EXCEPT ![adopting.name] = s]
    OBVIOUS
  <2> DEFINE r == [Fresh EXCEPT !.at = "top", !.name = adopting.name, !.pid = adopting.pid]
  <2>1. r \in Sup /\ r.at = "top" /\ r.name = adopting.name /\ r.pid = adopting.pid /\ r.as = None
    BY DEF Fresh, Sup, Handover
  <2>2. PICK s \in Sups : Spare(s) /\ sup' = [sup EXCEPT ![s] = r]
                         /\ fsups' = [fsups EXCEPT ![adopting.name] = s]
    BY DEF Adopted
  <2> HIDE DEF r
  <2>3. Becomes(s, "top", adopting.name, adopting.pid, None)
    BY <1>4, <2>1, <2>2
  <2> QED
    BY <2>2, <2>3
<1>6. ASSUME NEW n \in Names, Load(n)
      PROVE  \/ /\ fsups[n] # None /\ (reg[n] # "enabled" \/ sup[fsups[n]].at # "done")
                /\ UNCHANGED <<sup, fsups>>
             \/ /\ fsups[n] = None \/ (reg[n] = "enabled" /\ sup[fsups[n]].at = "done")
                /\ \E s \in Sups, at \in {"top", "idle"} :
                     /\ Spare(s) /\ Becomes(s, at, n, None, None)
                     /\ fsups' = [fsups EXCEPT ![n] = s]
  <2>1. CASE fsups[n] # None /\ (reg[n] # "enabled" \/ sup[fsups[n]].at # "done")
    BY <1>6, <2>1 DEF Load
  <2>2. CASE ~(fsups[n] # None /\ (reg[n] # "enabled" \/ sup[fsups[n]].at # "done"))
    <3> DEFINE at == IF reg[n] = "enabled" THEN "top" ELSE "idle"
    <3>1. PICK s \in Sups :
            /\ Spare(s)
            /\ sup' = [sup EXCEPT ![s] = [Fresh EXCEPT !.at = at, !.name = n]]
            /\ fsups' = [fsups EXCEPT ![n] = s]
      BY <1>6, <2>2 DEF Load
    <3>2. at \in {"top", "idle"}
      OBVIOUS
    <3> HIDE DEF at
    <3> DEFINE r == [Fresh EXCEPT !.at = at, !.name = n]
    <3>3. r \in Sup /\ r.at = at /\ r.name = n /\ r.pid = None /\ r.as = None
      BY <3>2 DEF Fresh, Sup
    <3>5. sup' = [sup EXCEPT ![s] = r]
      BY <3>1
    <3> HIDE DEF r
    <3>4. Becomes(s, at, n, None, None)
      BY <1>4, <3>3, <3>5
    <3> QED
      BY <2>2, <3>1, <3>2, <3>4
  <2> QED
    BY <2>1, <2>2
<1>7. Forget => sup' \in [Sups -> Sup] /\ \A s \in Sups : sup'[s].at = "idle" /\ sup'[s].pid = None
  BY DEF Forget, Fresh, Sup
<1> QED
  BY <1>2, <1>3, <1>5, <1>6, <1>7

\* Told, of whatever a step has made of its supervisor.
LEMMA TellsIt ==
    ASSUME Told, NEW s \in Sups, NEW at, NEW name, NEW pid, NEW as,
           Becomes(s, at, name, pid, as),
           at # "idle" => name \in Names, at = "named" => as \in Names
    PROVE  Told'
  BY DEF Told, Becomes

LEMMA TypedKept == ASSUME Typed, [Next]_vars PROVE Typed'
<1> USE DEF world, boot
<1>1. TypeOK /\ Told /\ Asked /\ InHand /\ sup \in [Sups -> Sup]
  BY DEF Typed, TypeOK, Sup
<1> DEFINE Counts == [crashes : 0..MaxCrashes, upgrades : 0..MaxUpgrades, renames : 0..MaxRenames]
<1>10. count \in Counts /\ MaxCrashes \in Nat /\ MaxUpgrades \in Nat /\ MaxRenames \in Nat
  BY <1>1, RecoveryAssumption DEF TypeOK
<1>2. CASE UNCHANGED vars
  <2>1. TypeOK'
    BY ZenonT(60), <1>1, <1>2 DEF vars, TypeOK
  <2>2. Told' /\ Asked' /\ InHand'
    BY <1>1, <1>2 DEF vars, Told, Asked, InHand, Serving
  <2> QED
    BY <2>1, <2>2 DEF Typed
<1>3. ASSUME NEW p \in Pids, Exit(p) \/ Choose(p) \/ Reaped(p) PROVE Typed'
  <2>3. proc' \in [Pids -> {"unused", "live", "gone"}] /\ held' \subseteq Pids
    BY ZenonT(60), <1>1, <1>3 DEF Exit, Choose, Reaped, TypeOK
  <2>4. reaper' \in [Pids -> {"off", "choosing", "orphan", "child", "done"}]
    BY ZenonT(60), <1>1, <1>3 DEF Exit, Choose, Reaped, TypeOK
  <2>5. odd' \subseteq odd \cup {"waited as child"}
    BY <1>3 DEF Exit, Choose, Reaped
  <2>6. UNCHANGED <<reg, store, children, orphan, boot, fsups, sup, op, manifest, count>>
    BY <1>3 DEF Exit, Choose, Reaped
  <2>1. TypeOK'
    BY ZenonT(60), <1>1, <2>3, <2>4, <2>5, <2>6 DEF TypeOK
  <2>2. Told' /\ Asked' /\ InHand'
    BY <1>1, <1>3 DEF Exit, Choose, Reaped, Told, Asked, InHand, Serving
  <2> QED
    BY <2>1, <2>2 DEF Typed
<1>4. ASSUME NEW e \in Entry, StoreDrops(e) PROVE Typed'
  <2>1. TypeOK'
    BY ZenonT(60), <1>1, <1>4 DEF StoreDrops, TypeOK
  <2>2. Told' /\ Asked' /\ InHand'
    BY <1>1, <1>4 DEF StoreDrops, Told, Asked, InHand, Serving
  <2> QED
    BY <2>1, <2>2 DEF Typed
<1>5. ASSUME NEW s \in Sups, Loop(s) PROVE Typed'
  <2>1. sup' \in [Sups -> Sup]
    BY <1>1, <1>5, LoopSteps DEF Loop, Becomes
  <2>2. UNCHANGED <<op, phase, adopting, fsups, carry, pending, toLoad, reg, orphan, manifest, count>>
    BY <1>5 DEF Loop, Take, SpawnFails, TopCancelled, SetCurrent, ReadName, File, LetGo, Drop, Decide
  <2>3. Asked' /\ InHand'
    BY <1>1, <2>2 DEF Asked, InHand, Serving
  <2>4. sup[s].at # "idle" /\ sup[s].name \in Names
    BY <1>1, <1>5 DEF Loop, Take, SpawnFails, TopCancelled, SetCurrent, ReadName, File, LetGo, Drop,
       Decide, Told
  <2>5. Told'
    <3>1. CASE Take(s) \/ SpawnFails(s) \/ TopCancelled(s) \/ SetCurrent(s)
      BY <1>1, <2>4, <3>1, LoopSteps, TellsIt
    <3>2. CASE ReadName(s) \/ File(s) \/ LetGo(s)
      BY <1>1, <2>4, <3>2, LoopSteps, TellsIt
    <3>3. CASE Drop(s) \/ Decide(s)
      BY <1>1, <2>4, <3>3, LoopSteps, TellsIt
    <3> QED
      BY <1>5, <3>1, <3>2, <3>3 DEF Loop
  <2>6. /\ proc' \in [Pids -> {"unused", "live", "gone"}]
        /\ children' \subseteq Pids /\ held' \subseteq Pids
        /\ reaper' \in [Pids -> {"off", "choosing", "orphan", "child", "done"}]
    <3>1. CASE Take(s)
      <4>1. CASE UNCHANGED <<proc, children, held, reaper>>
        BY <1>1, <4>1 DEF TypeOK
      <4>2. CASE ~UNCHANGED <<proc, children, held, reaper>>
        <5>1. PICK p \in Pids :
                /\ proc' = [proc EXCEPT ![p] = "live"]
                /\ children' = children \cup {p} /\ held' = held \cup {p}
                /\ reaper' = [reaper EXCEPT ![p] = "child"]
          BY <1>1, <3>1, <4>2, LoopSteps
        <5> QED
          BY ZenonT(60), <1>1, <5>1 DEF TypeOK
      <4> QED
        BY <4>1, <4>2
    <3>2. CASE ~Take(s)
      BY ZenonT(60), <1>1, <1>5, <3>2 DEF TypeOK, Loop, SpawnFails, TopCancelled, SetCurrent, ReadName, File,
         LetGo, Drop, Decide
    <3> QED
      BY <3>1, <3>2
  <2>7. store' \subseteq Entry
    <3>1. CASE File(s)
      <4>1. sup[s].as \in Names
        BY <1>1, <3>1 DEF File, Told
      <4>2. sup[s].pid \in held => <<sup[s].as, sup[s].pid>> \in Entry
        BY <1>1, <4>1 DEF TypeOK, Entry
      <4> QED
        BY ZenonT(60), <1>1, <3>1, <4>2 DEF File, StoreWith, TypeOK
    <3>2. CASE ~File(s)
      BY ZenonT(60), <1>1, <1>5, <3>2 DEF TypeOK, Loop, Take, SpawnFails, TopCancelled, SetCurrent,
         ReadName, LetGo, Drop, Decide
    <3> QED
      BY <3>1, <3>2
  <2>8. odd' \subseteq odd \cup {"filed late", "stopped untaken"}
    BY <1>5 DEF Loop, Take, SpawnFails, TopCancelled, SetCurrent, ReadName, File, LetGo, Drop, Decide
  <2>9. TypeOK'
    BY ZenonT(60), <1>1, <2>1, <2>2, <2>6, <2>7, <2>8 DEF TypeOK, Sup
  <2> QED
    BY <2>3, <2>5, <2>9 DEF Typed
<1>6. CASE Request
  <2>1. UNCHANGED <<proc, children, held, orphan, reaper, boot, manifest>>
    BY <1>6 DEF Request, RenameAdd, RenameRemove, RenameSwap, RenameSupervisor, RenameDrop,
       RenameFile, StopDisable, StopCancel, StopWaited
  <2>11. \/ count' = count
         \/ count.renames < MaxRenames /\ count' = [count EXCEPT !.renames = @ + 1]
    BY <1>6 DEF Request, RenameAdd, RenameRemove, RenameSwap, RenameSupervisor, RenameDrop,
       RenameFile, StopDisable, StopCancel, StopWaited
  <2>2. InHand'
    <3>1. count'.upgrades = count.upgrades
      BY <1>10, <2>11
    <3>2. Serving
      BY <1>1, <1>6 DEF Request, RenameAdd, RenameRemove, RenameSwap, RenameSupervisor, RenameDrop,
         RenameFile, StopDisable, StopCancel, StopWaited, Asked
    <3> QED
      BY <1>1, <2>1, <3>1, <3>2 DEF InHand, Serving
  <2> DEFINE Op == [at : {"idle", "added", "removed", "swapped", "renamed", "dropped",
                     "stopping", "stopped"},
               from : Names \cup {None}, to : Names \cup {None},
               sup : Sups \cup {None}, pid : Pids \cup {None}]
  <2>3. op \in Op /\ fsups \in [Names -> Sups \cup {None}] /\ None \notin Sups
    BY <1>1, RecoveryAssumption DEF TypeOK
  <2>4. reg' \in [Names -> {"none", "enabled", "disabled"}] /\ fsups' \in [Names -> Sups \cup {None}]
    <3>1. reg \in [Names -> {"none", "enabled", "disabled"}]
      BY <1>1 DEF TypeOK
    <3>2. ASSUME NEW from \in Names, NEW to \in Names, RenameAdd(from, to)
          PROVE  reg' \in [Names -> {"none", "enabled", "disabled"}] /\ fsups' = fsups
      BY <3>1, <3>2 DEF RenameAdd
    <3>3. CASE RenameRemove
      BY <2>3, <3>1, <3>3 DEF RenameRemove
    <3>4. CASE RenameSwap
      <4>1. op.from \in Names /\ op.to \in Names
        BY <1>1, <3>4 DEF RenameSwap, Asked, Renaming, Early
      <4> QED
        BY <2>3, <3>1, <3>4, <4>1 DEF RenameSwap
    <3>5. ASSUME NEW n \in Names, StopDisable(n)
          PROVE  reg' \in [Names -> {"none", "enabled", "disabled"}] /\ fsups' = fsups
      BY <3>1, <3>5 DEF StopDisable
    <3>6. CASE RenameSupervisor \/ RenameDrop \/ RenameFile \/ StopCancel \/ StopWaited
      BY <2>3, <3>1, <3>6 DEF RenameSupervisor, RenameDrop, RenameFile, StopCancel, StopWaited
    <3> QED
      BY <1>6, <2>3, <3>2, <3>3, <3>4, <3>5, <3>6 DEF Request
  <2>5. op' \in Op /\ Asked'
    <3>1. ASSUME NEW from \in Names, NEW to \in Names, RenameAdd(from, to) PROVE op' \in Op /\ Asked'
      BY <2>3, <3>1 DEF RenameAdd, NoOp, Asked, Serving, Early, Late, Renaming
    <3>2. CASE RenameRemove
      <4>1. op.at = "added" /\ fsups' = fsups /\ phase' = phase
        BY <3>2 DEF RenameRemove, boot
      <4>2. CASE op' = [op EXCEPT !.at = "removed"]
        BY <1>1, <2>3, <4>1, <4>2 DEF Asked, Serving, Early, Late, Renaming
      <4>3. CASE op' = NoOp
        BY <1>1, <2>3, <4>1, <4>3 DEF NoOp, Asked, Serving, Early, Late, Renaming
      <4> QED
        BY <3>2, <4>2, <4>3 DEF RenameRemove
    <3>3. CASE RenameSwap
      BY <1>1, <2>3, <3>3 DEF RenameSwap, NoOp, Asked, Serving, Early, Late, Renaming
    <3>4. CASE RenameSupervisor
      <4>1. Current(op.sup) \in Pids \cup {None}
        BY <1>1, <3>4 DEF RenameSupervisor, Asked, Current, Sup
      <4> QED
        BY <1>1, <2>3, <3>4, <4>1 DEF RenameSupervisor, NoOp, Asked, Serving, Early, Late, Renaming
    <3>5. CASE RenameDrop \/ RenameFile
      BY <1>1, <2>3, <3>5 DEF RenameDrop, RenameFile, NoOp, Asked, Serving, Early, Late, Renaming
    <3>6. ASSUME NEW n \in Names, StopDisable(n) PROVE op' \in Op /\ Asked'
      BY <1>1, <2>3, <3>6 DEF StopDisable, NoOp, Asked, Serving, Early, Late, Renaming
    <3>7. CASE StopCancel \/ StopWaited
      BY <1>1, <2>3, <3>7 DEF StopCancel, StopWaited, NoOp, Asked, Serving, Early, Late, Renaming
    <3> QED
      BY <1>6, <3>1, <3>2, <3>3, <3>4, <3>5, <3>6, <3>7 DEF Request
  <2>6. sup' \in [Sups -> Sup] /\ Told'
    <3>1. CASE RenameSupervisor
      <4>1. op.sup \in Sups /\ op.to \in Names
        BY <1>1, <3>1 DEF RenameSupervisor, Asked, Renaming, Late
      <4>2. Becomes(op.sup, sup[op.sup].at, op.to, sup[op.sup].pid, sup[op.sup].as)
        BY <1>1, <3>1, <4>1, OtherSteps
      <4>3. sup[op.sup].at = "named" => sup[op.sup].as \in Names
        BY <1>1, <4>1 DEF Told
      <4> QED
        BY <1>1, <4>1, <4>2, <4>3, TellsIt DEF Becomes
    <3>2. CASE StopCancel
      <4>1. op.sup \in Sups
        BY <1>1, <3>2 DEF StopCancel, Asked
      <4>2. Becomes(op.sup, sup[op.sup].at, sup[op.sup].name, sup[op.sup].pid, sup[op.sup].as)
        BY <1>1, <3>2, <4>1, OtherSteps
      <4>3. /\ sup[op.sup].at = "named" => sup[op.sup].as \in Names
            /\ sup[op.sup].at # "idle" => sup[op.sup].name \in Names
        BY <1>1, <4>1 DEF Told
      <4> QED
        BY <1>1, <4>1, <4>2, <4>3, TellsIt DEF Becomes
    <3>3. CASE ~RenameSupervisor /\ ~StopCancel
      <4>1. sup' = sup
        BY <1>6, <3>3 DEF Request, RenameAdd, RenameRemove, RenameSwap, RenameDrop, RenameFile,
           StopDisable, StopWaited
      <4> QED
        BY <1>1, <4>1 DEF Told
    <3> QED
      BY <3>1, <3>2, <3>3
  <2>7. store' \subseteq Entry
    <3>1. CASE RenameFile
      <4>1. <<op.to, op.pid>> \in Entry
        BY <1>1, <3>1 DEF RenameFile, Asked, Renaming, Late, Entry
      <4> QED
        BY ZenonT(60), <1>1, <3>1, <4>1 DEF RenameFile, StoreWith, TypeOK
    <3>2. CASE ~RenameFile
      BY ZenonT(60), <1>1, <1>6, <3>2
         DEF TypeOK, Request, RenameAdd, RenameRemove, RenameSwap, RenameSupervisor,
         RenameDrop, StopDisable, StopCancel, StopWaited
    <3> QED
      BY <3>1, <3>2
  <2>8. odd' \subseteq odd \cup {"filed late", "rename left twice"}
    BY <1>6 DEF Request, RenameAdd, RenameRemove, RenameSwap, RenameSupervisor, RenameDrop,
       RenameFile, StopDisable, StopCancel, StopWaited
  <2>9. count' \in [crashes : 0..MaxCrashes, upgrades : 0..MaxUpgrades, renames : 0..MaxRenames]
    BY <1>10, <2>11
  <2>10. TypeOK'
    BY <1>1, <2>1, <2>4, <2>5, <2>6, <2>7, <2>8, <2>9 DEF TypeOK, Sup
  <2> QED
    BY <2>2, <2>5, <2>6, <2>10 DEF Typed
<1>7. CASE Boot
  <2>1. UNCHANGED <<proc, children, op, reg, manifest, odd, count>>
    BY <1>7 DEF Boot, Recover, Recovered, Adopt, Adopted, AdoptedAll, Load, Loaded
  <2>2. CASE \E e \in Entry : Recover(e)
    <3>1. PICK e \in Entry : Recover(e)
      BY <2>2
    <3>2. e[1] \in Names /\ e[2] \in Pids
      BY DEF Entry
    <3>3. [name |-> e[1], pid |-> e[2], orphan |-> TRUE] \in Handover
      BY <3>2 DEF Handover
    <3>4. carry' \subseteq Handover /\ held' \subseteq Pids /\ store' \subseteq Entry
      <4>1. carry \subseteq Handover /\ held \subseteq Pids /\ store \subseteq Entry
        BY <1>1 DEF TypeOK
      <4>2. CASE Live(e[2])
        BY <3>1, <3>2, <3>3, <4>1, <4>2 DEF Recover
      <4>3. CASE ~Live(e[2])
        BY <3>1, <4>1, <4>3 DEF Recover
      <4> QED
        BY <4>2, <4>3
    <3>5. TypeOK'
      BY <1>1, <3>1, <3>4 DEF Recover, TypeOK
    <3> QED
      BY <1>1, <3>1, <3>5 DEF Recover, Typed, Told, Asked, InHand, Serving
  <2>3. CASE \E h \in Handover : Adopt(h)
    <3>1. PICK h \in Handover : Adopt(h)
      BY <2>3
    <3>2. h.pid \in Pids
      BY DEF Handover
    <3>3. TypeOK'
      BY ZenonT(60), <1>1, <3>1, <3>2 DEF Adopt, TypeOK
    <3>4. Asked' /\ InHand' /\ Told'
      BY <1>1, <3>1 DEF Adopt, Told, Asked, InHand, Serving
    <3> QED
      BY <3>3, <3>4 DEF Typed
  <2>4. CASE Adopted
    <3>1. adopting \in Handover /\ adopting.pid \in Pids /\ adopting.name \in Names
      BY <1>1, <2>4 DEF InHand, Adopted, Handover
    <3>2. PICK s \in Sups :
            /\ Becomes(s, "top", adopting.name, adopting.pid, None)
            /\ fsups' = [fsups EXCEPT ![adopting.name] = s]
      BY <1>1, <2>4, <3>1, OtherSteps
    <3>3. sup' \in [Sups -> Sup] /\ Told'
      BY <1>1, <3>1, <3>2, TellsIt DEF Becomes
    <3>4. fsups' \in [Names -> Sups \cup {None}] /\ orphan' \subseteq Pids
      BY <1>1, <2>4, <3>1, <3>2 DEF Adopted, TypeOK
    <3>5. TypeOK'
      BY ZenonT(60), <1>1, <2>1, <2>4, <3>3, <3>4 DEF Adopted, TypeOK, Sup
    <3>6. Asked' /\ InHand'
      BY <1>1, <2>1, <2>4 DEF Adopted, Asked, InHand, Serving, Renaming, Early, Late
    <3> QED
      BY <3>3, <3>5, <3>6 DEF Typed
  <2>5. CASE \E n \in Names : Load(n)
    <3>1. PICK n \in Names : Load(n)
      BY <2>5
    <3>2. sup' \in [Sups -> Sup] /\ Told' /\ fsups' \in [Names -> Sups \cup {None}]
      <4>1. CASE UNCHANGED <<sup, fsups>>
        BY <1>1, <4>1 DEF TypeOK, Told
      <4>2. CASE ~UNCHANGED <<sup, fsups>>
        <5>1. PICK s \in Sups, at \in {"top", "idle"} :
                Becomes(s, at, n, None, None) /\ fsups' = [fsups EXCEPT ![n] = s]
          BY <1>1, <3>1, <4>2, OtherSteps
        <5>2. fsups' \in [Names -> Sups \cup {None}]
          BY <1>1, <5>1 DEF TypeOK
        <5> QED
          BY <1>1, <5>1, <5>2, TellsIt DEF Becomes
      <4> QED
        BY <4>1, <4>2
    <3>3. TypeOK'
      BY ZenonT(60), <1>1, <2>1, <3>1, <3>2 DEF Load, TypeOK, Sup
    <3>4. Asked' /\ InHand'
      BY <1>1, <2>1, <3>1 DEF Load, Asked, InHand, Serving, Renaming, Early, Late
    <3> QED
      BY <3>2, <3>3, <3>4 DEF Typed
  <2>6. CASE Recovered \/ AdoptedAll \/ Loaded
    <3>1. TypeOK'
      BY ZenonT(60), <1>1, <2>6 DEF Recovered, AdoptedAll, Loaded, TypeOK
    <3>2. Told' /\ Asked' /\ InHand'
      BY <1>1, <2>6 DEF Recovered, AdoptedAll, Loaded, Told, Asked, InHand, Serving
    <3> QED
      BY <3>1, <3>2 DEF Typed
  <2> QED
    BY <1>7, <2>2, <2>3, <2>4, <2>5, <2>6 DEF Boot
<1>8. CASE Prepare \/ ExecFails
  <2>1. Handovers \subseteq Entry
    BY DEF Handovers
  <2>2. TypeOK'
    BY ZenonT(60), <1>1, <1>8, <2>1 DEF Prepare, ExecFails, TypeOK
  <2>3. Told' /\ Asked' /\ InHand'
    BY <1>1, <1>8 DEF Prepare, ExecFails, Told, Asked, InHand, Serving
  <2> QED
    BY <2>2, <2>3 DEF Typed
<1>9. CASE Exec \/ Crash
  <2>1. Forget /\ UNCHANGED <<reg, store, proc>> /\ children' \subseteq children
    BY <1>9 DEF Exec, Crash
  <2>2. sup' \in [Sups -> Sup] /\ \A s \in Sups : sup'[s].at = "idle"
    BY <1>1, <2>1, OtherSteps
  <2>3. op' = NoOp /\ NoOp.at = "idle" /\ adopting' = NoHandover /\ manifest' = {}
    BY <2>1 DEF Forget, NoOp
  <2>4. Told' /\ Asked'
    BY <2>2, <2>3 DEF Told, Asked, Early, Late, Renaming
  <2>5. InHand' /\ phase' \in {"taking", "adopting"}
    BY <1>9 DEF Exec, Crash, InHand
  <2>6. held' \subseteq Pids /\ carry' \subseteq Handover /\ pending' \subseteq Entry
    <3>1. \A e \in manifest : e[1] \in Names /\ e[2] \in Pids
      BY <1>1 DEF TypeOK, Entry
    <3>2. CASE Exec
      <4>1. held' \subseteq Pids /\ pending' = {}
        BY <3>1, <3>2 DEF Exec
      <4>2. \A e \in manifest : [name |-> e[1], pid |-> e[2], orphan |-> FALSE] \in Handover
        BY <3>1 DEF Handover
      <4>3. carry' \subseteq Handover
        BY <3>2, <4>2 DEF Exec
      <4> QED
        BY <4>1, <4>3
    <3>3. CASE Crash
      BY <1>1, <3>3 DEF Crash, TypeOK
    <3> QED
      BY <1>9, <3>2, <3>3
  <2>7. odd' \subseteq odd \cup {"rename cut short", "old manifest"}
    BY <1>9 DEF Exec, Crash, CutShort
  <2>8. CASE count' \in [crashes : 0..MaxCrashes, upgrades : 0..MaxUpgrades, renames : 0..MaxRenames]
    <3>1. TypeOK'
      <4>1. /\ fsups' \in [Names -> Sups \cup {None}]
            /\ reaper' \in [Pids -> {"off", "choosing", "orphan", "child", "done"}]
            /\ orphan' = {} /\ toLoad' = {}
        BY <2>1 DEF Forget
      <4>2. op' \in [at : {"idle", "added", "removed", "swapped", "renamed", "dropped",
                     "stopping", "stopped"},
               from : Names \cup {None}, to : Names \cup {None},
               sup : Sups \cup {None}, pid : Pids \cup {None}]
        BY <2>3 DEF NoOp
      <4> QED
        BY <1>1, <2>1, <2>2, <2>3, <2>5, <2>6, <2>7, <2>8, <4>1, <4>2 DEF TypeOK, Sup
    <3> QED
      BY <2>4, <2>5, <3>1 DEF Typed
  <2>9. count' \in [crashes : 0..MaxCrashes, upgrades : 0..MaxUpgrades, renames : 0..MaxRenames]
    <3>1. CASE Exec
      <4>1. count.upgrades < MaxUpgrades /\ count' = [count EXCEPT !.upgrades = @ + 1]
        BY <1>1, <3>1 DEF Exec, InHand
      <4> QED
        BY <1>10, <4>1
    <3>2. CASE Crash
      BY <1>10, <3>2 DEF Crash
    <3> QED
      BY <1>9, <3>1, <3>2
  <2> QED
    BY <2>8, <2>9
<1> QED
  BY <1>2, <1>3, <1>4, <1>5, <1>6, <1>7, <1>8, <1>9 DEF Next

----------------------------------------------------------------------------
(* The facts about a state the steps rely on. *)

LEMMA CopiesAre == \A p : p \in Copies <=> p \in Pids /\ Live(p) /\ (p \in held \/ Filed(p))
  BY DEF Copies

LEMMA InstalledAre == \A s : s \in Installed <=> s # None /\ \E n \in Names : fsups[n] = s
  BY DEF Installed

\* Nothing odd has happened unless it had before.
LEMMA OddGrows == ASSUME [Next]_vars, odd' = {} PROVE odd = {}
<1>1. odd \subseteq odd'
  BY DEF Next, vars, Exit, Choose, Reaped, StoreDrops, Loop, Take, SpawnFails, TopCancelled, SetCurrent,
     ReadName, File, LetGo, Drop, Decide, Request, RenameAdd, RenameRemove, RenameSwap,
     RenameSupervisor, RenameDrop, RenameFile, StopDisable, StopCancel, StopWaited, Boot, Recover,
     Recovered, Adopt, Adopted, AdoptedAll, Load, Loaded, Prepare, ExecFails, Exec, Crash
<1> QED
  BY <1>1

\* There is one name, and so one supervisor that is installed.
LEMMA OneHere ==
    ASSUME OneDefinition, Asked, NEW n \in Names, NEW m \in Names, Here(n), Here(m)
    PROVE  n = m
  BY DEF OneDefinition, Here, Early, Late, Renaming

LEMMA OneInstalled ==
    ASSUME OneDefinition, Placed, Asked, NEW n \in Names, NEW m \in Names,
           fsups[n] # None, fsups[m] # None
    PROVE  n = m
  BY OneHere DEF Placed

\* With a supervisor installed a copy is its, or there is none.
LEMMA CopyIsItsOwn ==
    ASSUME Typed, Sane, NEW n \in Names, fsups[n] # None, NEW p \in Copies
    PROVE  sup[fsups[n]].pid = p
<1>1. OneDefinition /\ Placed /\ Asked /\ ToAdopt /\ Accounted /\ p \in Pids /\ Live(p)
  BY CopiesAre DEF Sane, Typed
<1>2. fsups[n] \in Installed
  BY InstalledAre
<1>3. ~OnItsWay(p)
  BY <1>1, <1>2 DEF OnItsWay, ToAdopt
<1>4. PICK m \in Names : fsups[m] # None /\ sup[fsups[m]].pid = p
  BY <1>1, <1>3 DEF Accounted, Supervised
<1> QED
  BY <1>1, <1>4, OneInstalled

\* Copies only go away, and those that stay are where they were.
LEMMA StillAccounted ==
    ASSUME Sane, Copies' \subseteq Copies,
           \A p \in Copies' : (Supervised(p) => Supervised(p)' \/ OnItsWay(p)')
                           /\ (OnItsWay(p) => Supervised(p)' \/ OnItsWay(p)')
    PROVE  Accounted' /\ One'
  BY DEF Sane, Accounted, One

----------------------------------------------------------------------------
(* Steps of the world: processes end, reapers choose, terminals hang up. *)

\* What a step of the world does not do.
Dwindles ==
    /\ UNCHANGED <<reg, fsups, sup, op, phase, carry, adopting, pending, manifest>>
    /\ held' \subseteq held /\ store' \subseteq store
    /\ \A p \in Pids : Live(p)' =>
        Live(p) /\ (p \in held => p \in held') /\ \A n \in Names : <<n, p>> \in store => <<n, p>> \in store'
    /\ \A p \in Pids : proc'[p] = "unused" => proc[p] = "unused" /\ reaper'[p] = reaper[p]

LEMMA DwindlingKeeps == ASSUME Typed, Typed', Sane, Dwindles, Reaping' PROVE Sane'
<1>1. OneDefinition' /\ Placed'
  BY DEF Sane, Dwindles, OneDefinition, Placed, Defined, Here, Renaming
<1>2. AtWork'
  <2>1. \A s \in Sups : sup[s].pid \in Pids \cup {None}
    BY DEF Typed, TypeOK
  <2> SUFFICES ASSUME NEW s \in Sups
               PROVE  /\ s \notin Installed => sup[s].at \in {"idle", "done"}
                      /\ sup[s].at \in {"idle", "deciding", "done"} => sup[s].pid = None
                      /\ sup[s].pid # None => (Live(sup[s].pid)' => sup[s].pid \in held')
                      /\ sup[s].at \in Having => sup[s].pid # None
                      /\ sup[s].at = "dropping" => ~Live(sup[s].pid)'
    BY DEF Dwindles, AtWork, Installed
  <2>2. sup[s].pid # None => (Live(sup[s].pid)' => Live(sup[s].pid) /\ (sup[s].pid \in held => sup[s].pid \in held'))
    BY <2>1 DEF Dwindles, Live
  <2> QED
    BY <2>2 DEF Sane, AtWork, Having
<1>3. Unstarted'
  BY DEF Sane, Dwindles, Unstarted, Filed
<1>4. ToAdopt'
  <2>1. /\ carry \subseteq Handover /\ \A h \in Handover : h.pid \in Pids
        /\ phase = "marking" => adopting.pid \in Pids
    BY DEF Typed, TypeOK, InHand, Handover
  <2>2. Installed' = Installed
    BY DEF Dwindles, Installed
  <2>3. \A n \in Names, p \in Pids : <<n, p>> \in pending /\ Live(p)' => <<n, p>> \in store'
    BY DEF Sane, ToAdopt, Dwindles
  <2>4. \A h \in carry : Live(h.pid)' =>
          h.pid \in held' /\ Defined(h.name) /\ phase # "marking" /\ Installed = {}
    BY <2>1 DEF Sane, ToAdopt, Dwindles, Live
  <2>5. phase = "marking" => Defined(adopting.name) /\ (Live(adopting.pid)' => adopting.pid \in held')
    BY <2>1 DEF Sane, ToAdopt, Dwindles, Live
  <2> QED
    BY <2>2, <2>3, <2>4, <2>5 DEF Sane, ToAdopt, Dwindles, Defined
<1>5. ToHandOver'
  BY DEF Sane, ToHandOver, Dwindles
<1>6. FiledRight'
  BY DEF Sane, FiledRight, Dwindles, FiledUnder, Here, Defined
<1>7. Accounted' /\ One'
  <2>1. Copies' \subseteq Copies
    BY DEF Dwindles, Copies, Filed
  <2>2. \A p : (Supervised(p)' <=> Supervised(p)) /\ (OnItsWay(p)' <=> OnItsWay(p))
    BY DEF Dwindles, Supervised, OnItsWay
  <2> QED
    BY <2>1, <2>2, StillAccounted
<1> QED
  BY <1>1, <1>2, <1>3, <1>4, <1>5, <1>6, <1>7 DEF Sane

LEMMA WorldKeeps ==
    ASSUME Typed, Typed', Sane, odd' = {},
           \/ \E p \in Pids : Exit(p) \/ Choose(p) \/ Reaped(p)
           \/ \E e \in Entry : StoreDrops(e)
    PROVE  Sane'
<1> USE DEF world, boot
<1>1. ASSUME NEW p \in Pids, Exit(p) PROVE Dwindles /\ Reaping'
  <2>1. proc \in [Pids -> {"unused", "live", "gone"}] /\ proc' = [proc EXCEPT ![p] = "gone"]
    BY <1>1 DEF Exit, Typed, TypeOK
  <2>2. \A q \in Pids : proc'[q] = IF q = p THEN "gone" ELSE proc[q]
    BY <2>1
  <2>3. Dwindles
    BY <1>1, <2>2 DEF Exit, Dwindles, Live
  <2> QED
    BY <1>1, <2>2, <2>3 DEF Exit, Sane, Reaping
<1>2. ASSUME NEW p \in Pids, Choose(p) PROVE Dwindles /\ Reaping'
  <2>1. reaper \in [Pids -> {"off", "choosing", "orphan", "child", "done"}]
    BY DEF Typed, TypeOK
  <2>2. p \in orphan \cup children
    BY <1>2 DEF Choose
  <2>3. \A q \in Pids : q # p => reaper'[q] = reaper[q]
    BY <1>2, <2>1 DEF Choose
  <2>4. reaper'[p] = IF p \in orphan THEN "orphan" ELSE "child"
    BY <1>2, <2>1 DEF Choose
  <2>5. proc[p] # "unused"
    BY <1>2 DEF Choose, Sane, Unstarted
  <2>6. Dwindles
    BY <1>2, <2>3, <2>5 DEF Choose, Dwindles, Live
  <2>7. Reaping'
    <3>1. reaper'[p] # "done" /\ (reaper'[p] = "child" => p \in children)
      BY <2>2, <2>4
    <3> QED
      BY <1>2, <2>3, <3>1 DEF Choose, Sane, Reaping
  <2> QED
    BY <2>6, <2>7
<1>3. ASSUME NEW p \in Pids, Reaped(p) PROVE Dwindles /\ Reaping'
  <2>1. reaper \in [Pids -> {"off", "choosing", "orphan", "child", "done"}]
        /\ proc \in [Pids -> {"unused", "live", "gone"}]
    BY DEF Typed, TypeOK
  <2>2. ~Live(p) /\ proc[p] # "unused"
    BY <1>3 DEF Reaped, Sane, Reaping, Unstarted
  <2>3. \A q \in Pids : reaper'[q] = IF q = p THEN "done" ELSE reaper[q]
    BY <1>3, <2>1 DEF Reaped
  <2>4. Dwindles
    BY <1>3, <2>2, <2>3 DEF Reaped, Dwindles, Live
  <2>5. proc[p] = "gone"
    BY <2>1, <2>2 DEF Live
  <2>6. Reaping'
    BY <1>3, <2>3, <2>5 DEF Reaped, Sane, Reaping
  <2> QED
    BY <2>4, <2>6
<1>4. ASSUME NEW e \in Entry, StoreDrops(e) PROVE Dwindles /\ Reaping'
  <2>1. \A n, p : e = <<n, p>> => e[2] = p
    OBVIOUS
  <2>2. Dwindles
    BY <1>4, <2>1 DEF StoreDrops, Dwindles, Live
  <2> QED
    BY <1>4, <2>2 DEF StoreDrops, Sane, Reaping
<1> QED
  BY <1>1, <1>2, <1>3, <1>4, DwindlingKeeps

----------------------------------------------------------------------------
(* Steps of the supervision loop. *)

\* One step of an installed supervisor's loop, but for the start of a process:
\* it keeps its process or lets go of one that is gone, and may file or drop it.
LoopMoves(s, at, pid, as) ==
    /\ Becomes(s, at, sup[s].name, pid, as)
    /\ s \in Installed
    /\ pid = sup[s].pid \/ (pid = None /\ sup[s].at = "dropping")
    /\ at \in {"idle", "deciding", "done"} => pid = None
    /\ at \in Having => pid # None
    /\ at = "dropping" => ~Live(pid)
    /\ UNCHANGED <<reg, proc, children, held, reaper, fsups, op, phase, carry, adopting, pending,
                   manifest>>
    /\ \A n \in Names, p \in Pids :
        /\ <<n, p>> \in store /\ Live(p) => <<n, p>> \in store'
        /\ <<n, p>> \in store' /\ <<n, p>> \notin store => p = sup[s].pid /\ p \in held /\ n = sup[s].name

LEMMA LoopMovesKeep ==
    ASSUME Typed, Typed', Sane, NEW s \in Sups, NEW at, NEW pid, NEW as, LoopMoves(s, at, pid, as)
    PROVE  Sane'
<1>1. /\ sup'[s].pid = pid /\ sup'[s].at = at /\ sup'[s].name = sup[s].name
      /\ \A t \in Sups : t # s => sup'[t] = sup[t]
      /\ UNCHANGED <<reg, proc, children, held, reaper, fsups, op, phase, carry, adopting, pending,
                     manifest>>
  BY DEF LoopMoves, Becomes
<1>2. PICK m \in Names : fsups[m] = s /\ s # None
  BY InstalledAre DEF LoopMoves
<1>3. /\ OneDefinition /\ Placed /\ AtWork /\ Reaping /\ Unstarted /\ Asked /\ ToAdopt
      /\ ToHandOver /\ FiledRight
  BY DEF Sane, Typed
<1>4. Installed' = Installed
  BY <1>1 DEF Installed
<1>5. pid # None => pid = sup[s].pid
  BY DEF LoopMoves
<1>6. sup[s].pid # pid => sup[s].at = "dropping" /\ ~Live(sup[s].pid)
  BY <1>3 DEF LoopMoves, AtWork
<1>7. OneDefinition'
  BY <1>1, <1>3 DEF OneDefinition, Defined, Renaming
<1>8. Placed'
  <2>2. \A n \in Names : fsups[n] # None => fsups[n] \in Sups
    BY DEF Typed, TypeOK
  <2>1. \A n \in Names : fsups[n] # None => sup'[fsups[n]].name = sup[fsups[n]].name
    BY <1>1, <2>2
  <2> QED
    BY <1>1, <1>3, <2>1 DEF Placed, Here, Defined
<1>9. AtWork'
  <2> SUFFICES ASSUME NEW t \in Sups
               PROVE  /\ t \notin Installed => sup'[t].at \in {"idle", "done"}
                      /\ sup'[t].at \in {"idle", "deciding", "done"} => sup'[t].pid = None
                      /\ sup'[t].pid # None => (proc[sup'[t].pid] = "live" => sup'[t].pid \in held)
                      /\ sup'[t].at \in Having => sup'[t].pid # None
                      /\ sup'[t].at = "dropping" => proc[sup'[t].pid] # "live"
    BY <1>1, <1>4 DEF AtWork, Live
  <2>1. CASE t = s
    BY <1>1, <1>3, <1>5, <2>1 DEF AtWork, LoopMoves, Live
  <2>2. CASE t # s
    BY <1>1, <1>3, <2>2 DEF AtWork, Live
  <2> QED
    BY <2>1, <2>2
<1>10. Reaping'
  BY <1>1, <1>3 DEF Reaping
<1>11. Unstarted'
  <2>1. \A t \in Sups, p \in Pids : sup'[t].pid = p => sup[t].pid = p
    BY <1>1, <1>5, RecoveryAssumption
  <2>2. \A p \in Pids : Filed(p)' => Filed(p) \/ p \in held
    BY DEF Filed, LoopMoves
  <2> QED
    BY <1>1, <1>3, <2>1, <2>2 DEF Unstarted
<1>12. ToAdopt'
  <2>1. \A n \in Names, p \in Pids : <<n, p>> \in pending /\ Live(p) => <<n, p>> \in store'
    BY <1>3 DEF ToAdopt, LoopMoves
  <2> QED
    BY <1>1, <1>3, <1>4, <2>1 DEF ToAdopt, Live, Defined
<1>13. ToHandOver'
  BY <1>1, <1>3 DEF ToHandOver, Live
<1>14. FiledRight'
  <2> SUFFICES ASSUME NEW n \in Names, NEW p \in Pids, <<n, p>> \in store', Live(p)
               PROVE  FiledUnder(n, p)
    BY <1>1 DEF FiledRight, FiledUnder, Here, Defined, Live
  <2>1. CASE <<n, p>> \in store
    BY <1>3, <2>1 DEF FiledRight
  <2>2. CASE <<n, p>> \notin store
    <3>1. n = sup[s].name
      BY <2>2 DEF LoopMoves
    <3>2. Here(m) /\ n = IF op.at = "swapped" THEN op.from ELSE m
      BY <1>2, <1>3, <3>1 DEF Placed
    <3> QED
      BY <3>2 DEF FiledUnder, Here, Early, Late
  <2> QED
    BY <2>1, <2>2
<1>15. Accounted' /\ One'
  <2>1. Copies' \subseteq Copies
    BY <1>1 DEF LoopMoves, Copies, Filed, Live
  <2>2. \A p : OnItsWay(p)' <=> OnItsWay(p)
    BY <1>1 DEF OnItsWay
  <2>3. ASSUME NEW p \in Copies, Supervised(p) PROVE Supervised(p)'
    <3>1. PICK n \in Names : fsups[n] # None /\ sup[fsups[n]].pid = p
      BY <2>3 DEF Supervised
    <3>2. p \in Pids /\ Live(p)
      BY CopiesAre
    <3>3. fsups[n] \in Sups
      BY <3>1 DEF Typed, TypeOK
    <3>4. sup'[fsups[n]].pid = p
      BY <1>1, <1>6, <3>1, <3>2, <3>3
    <3> QED
      BY <1>1, <3>1, <3>4 DEF Supervised
  <2> QED
    BY <2>1, <2>2, <2>3, StillAccounted
<1> QED
  BY <1>7, <1>8, <1>9, <1>10, <1>11, <1>12, <1>13, <1>14, <1>15 DEF Sane

\* A process is started when there is none: the only supervisor installed has
\* let go of the one before, and nothing is on its way.
LEMMA StartKeeps ==
    ASSUME Typed, Typed', Sane, NEW s \in Sups, NEW p \in Pids,
           s \in Installed, sup[s].pid = None, proc[p] = "unused",
           proc' = [proc EXCEPT ![p] = "live"],
           children' = children \cup {p}, held' = held \cup {p},
           reaper' = [reaper EXCEPT ![p] = "child"],
           Becomes(s, "spawned", sup[s].name, p, sup[s].as),
           UNCHANGED <<reg, store, orphan, boot, fsups, op, manifest, odd, count>>
    PROVE  Sane'
<1> USE DEF boot
<1>1. /\ sup'[s].pid = p /\ sup'[s].at = "spawned" /\ sup'[s].name = sup[s].name
      /\ \A t \in Sups : t # s => sup'[t] = sup[t]
  BY DEF Becomes
<1>2. PICK m \in Names : fsups[m] = s /\ s # None
  BY InstalledAre
<1>3. /\ OneDefinition /\ Placed /\ AtWork /\ Reaping /\ Unstarted /\ Asked /\ ToAdopt
      /\ ToHandOver /\ FiledRight
  BY DEF Sane, Typed
<1>4. Installed' = Installed
  BY DEF Installed
<1>5. /\ \A q \in Pids : q # p => proc'[q] = proc[q] /\ reaper'[q] = reaper[q]
      /\ proc'[p] = "live" /\ reaper'[p] = "child"
  BY ZenonT(60) DEF Typed, TypeOK
<1>6. /\ p \notin held /\ ~Filed(p)
      /\ \A n \in Names : <<n, p>> \notin pending \cup manifest
      /\ \A h \in carry : h.pid # p
      /\ phase = "marking" => adopting.pid # p
      /\ \A t \in Sups : sup[t].pid # p
  BY <1>3 DEF Unstarted
<1>7. Copies = {}
  <2>1. p # None
    BY RecoveryAssumption
  <2> SUFFICES ASSUME NEW q \in Copies PROVE FALSE
    OBVIOUS
  <2>2. q \in Pids /\ sup[fsups[m]].pid = q
    BY <1>2, CopyIsItsOwn, CopiesAre
  <2> QED
    BY <1>2, <2>2, RecoveryAssumption
<1>8. \A q \in Pids : Live(q)' <=> q = p \/ Live(q)
  BY <1>5 DEF Live
<1>9. OneDefinition'
  BY <1>3 DEF OneDefinition, Defined, Renaming
<1>10. Placed'
  <2>1. \A n \in Names : fsups[n] # None => fsups[n] \in Sups
    BY DEF Typed, TypeOK
  <2>2. \A n \in Names : fsups[n] # None => sup'[fsups[n]].name = sup[fsups[n]].name
    BY <1>1, <2>1
  <2> QED
    BY <1>3, <2>2 DEF Placed, Here, Defined
<1>11. AtWork'
  <2>1. \A t \in Sups : sup[t].pid \in Pids \cup {None}
    BY DEF Typed, TypeOK
  <2> SUFFICES ASSUME NEW t \in Sups
               PROVE  /\ t \notin Installed => sup'[t].at \in {"idle", "done"}
                      /\ sup'[t].at \in {"idle", "deciding", "done"} => sup'[t].pid = None
                      /\ sup'[t].pid # None => (proc'[sup'[t].pid] = "live" => sup'[t].pid \in held')
                      /\ sup'[t].at \in Having => sup'[t].pid # None
                      /\ sup'[t].at = "dropping" => proc'[sup'[t].pid] # "live"
    BY <1>4 DEF AtWork, Live
  <2>2. CASE t = s
    BY <1>1, <2>2, RecoveryAssumption
  <2>3. CASE t # s
    BY <1>1, <1>3, <1>5, <1>6, <2>1, <2>3 DEF AtWork, Live
  <2> QED
    BY <2>2, <2>3
<1>12. Reaping'
  BY <1>3, <1>5 DEF Reaping
<1>13. Unstarted'
  BY <1>1, <1>3, <1>5 DEF Unstarted, Filed
<1>14. ToAdopt'
  <2>1. \A n \in Names, q \in Pids : <<n, q>> \in pending /\ Live(q)' => <<n, q>> \in store
    BY <1>3, <1>6, <1>8 DEF ToAdopt
  <2>4. carry \subseteq Handover
    BY DEF Typed, TypeOK
  <2>2. \A h \in carry : h.pid \in Pids /\ h.pid # p
    BY <1>6, <2>4 DEF Handover
  <2>3. phase # "marking"
    BY <1>2, <1>3, InstalledAre DEF ToAdopt
  <2> QED
    BY <1>3, <1>4, <1>5, <2>1, <2>2, <2>3 DEF ToAdopt, Live, Defined
<1>15. ToHandOver'
  BY <1>3, <1>6, <1>8 DEF ToHandOver
<1>16. FiledRight'
  BY <1>3, <1>6, <1>8 DEF FiledRight, Filed, FiledUnder, Here, Defined
<1>17. Copies' \subseteq {p}
  BY <1>7, <1>8 DEF Copies, Filed
<1>18. Supervised(p)'
  BY <1>1, <1>2 DEF Supervised
<1>19. Accounted' /\ One'
  BY <1>17, <1>18 DEF Accounted, One
<1> QED
  BY <1>9, <1>10, <1>11, <1>12, <1>13, <1>14, <1>15, <1>16, <1>19 DEF Sane

LEMMA LoopKeeps ==
    ASSUME Typed, Typed', Sane, odd' = {}, NEW s \in Sups, Loop(s)
    PROVE  Sane'
<1> USE DEF world, boot
<1>1. AtWork /\ Reaping /\ TypeOK /\ Told
  BY DEF Sane, Typed
<1>2. sup[s].at \notin {"idle", "done"}
  BY DEF Loop, Take, SpawnFails, TopCancelled, SetCurrent, ReadName, File, LetGo, Drop, Decide
<1>3. s \in Installed
  BY <1>1, <1>2 DEF AtWork
<1>4. sup[s].pid \in Pids \cup {None}
  BY DEF Typed, TypeOK
<1>5. CASE Take(s)
  <2>1. UNCHANGED <<reg, store, orphan, boot, fsups, op, manifest, odd, count>>
    BY <1>5 DEF Take
  <2>2. CASE sup[s].pid # None
    <3>1. Becomes(s, "spawned", sup[s].name, sup[s].pid, sup[s].as)
          /\ UNCHANGED <<proc, children, held, reaper>>
      BY <1>1, <1>5, <2>2, LoopSteps
    <3>2. LoopMoves(s, "spawned", sup[s].pid, sup[s].as)
      BY <1>3, <2>1, <2>2, <3>1 DEF LoopMoves
    <3> QED
      BY <3>2, LoopMovesKeep
  <2>3. CASE sup[s].pid = None
    <3>1. PICK p \in Pids :
             /\ proc[p] = "unused"
             /\ proc' = [proc EXCEPT ![p] = "live"]
             /\ children' = children \cup {p} /\ held' = held \cup {p}
             /\ reaper' = [reaper EXCEPT ![p] = "child"]
             /\ Becomes(s, "spawned", sup[s].name, p, sup[s].as)
      BY <1>1, <1>5, <2>3, LoopSteps
    <3> QED
      BY <1>3, <2>1, <2>3, <3>1, StartKeeps
  <2> QED
    BY <2>2, <2>3
<1>6. CASE SpawnFails(s) \/ TopCancelled(s)
  <2>1. sup[s].pid = None
    BY <1>6 DEF SpawnFails, TopCancelled
  <2>2. Becomes(s, "done", sup[s].name, sup[s].pid, sup[s].as)
    BY <1>1, <1>6, LoopSteps
  <2>3. LoopMoves(s, "done", sup[s].pid, sup[s].as)
    BY <1>3, <1>6, <2>1, <2>2 DEF LoopMoves, SpawnFails, TopCancelled, Having
  <2> QED
    BY <2>3, LoopMovesKeep
<1>7. CASE SetCurrent(s)
  <2>1. LoopMoves(s, "current", sup[s].pid, sup[s].as)
    BY <1>1, <1>3, <1>7, LoopSteps DEF LoopMoves, SetCurrent, AtWork, Having
  <2> QED
    BY <2>1, LoopMovesKeep
<1>8. CASE ReadName(s)
  <2>1. LoopMoves(s, "named", sup[s].pid, sup[s].name)
    BY <1>1, <1>3, <1>8, LoopSteps DEF LoopMoves, ReadName, AtWork, Having
  <2> QED
    BY <2>1, LoopMovesKeep
<1>9. CASE File(s)
  <2>1. sup[s].as = sup[s].name
    BY <1>9 DEF File
  <2>2. store' = IF sup[s].pid \in held THEN store \cup {<<sup[s].name, sup[s].pid>>} ELSE store
    BY <1>9, <2>1 DEF File, StoreWith
  <2>3. LoopMoves(s, "waiting", sup[s].pid, None)
    BY <1>1, <1>3, <1>9, <2>2, LoopSteps DEF LoopMoves, File, AtWork, Having
  <2> QED
    BY <2>3, LoopMovesKeep
<1>10. CASE LetGo(s)
  <2>1. sup[s].pid # None
    BY <1>1, <1>10 DEF LetGo, AtWork, Having
  <2>2. ~Live(sup[s].pid)
    BY <1>1, <1>4, <1>10, <2>1 DEF LetGo, Reaping, Live
  <2>3. LoopMoves(s, "dropping", sup[s].pid, sup[s].name)
    BY <1>1, <1>3, <1>10, <2>1, <2>2, LoopSteps DEF LoopMoves, LetGo, AtWork, Having
  <2> QED
    BY <2>3, LoopMovesKeep
<1>11. CASE Drop(s)
  <2>1. ~Live(sup[s].pid)
    BY <1>1, <1>11 DEF Drop, AtWork
  <2>2. \A n, p : <<sup[s].as, sup[s].pid>> = <<n, p>> => p = sup[s].pid
    OBVIOUS
  <2>3. LoopMoves(s, "deciding", None, None)
    BY <1>1, <1>3, <1>11, <2>1, <2>2, LoopSteps DEF LoopMoves, Drop, AtWork, Having
  <2> QED
    BY <2>3, LoopMovesKeep
<1>12. CASE Decide(s)
  <2>1. PICK at \in {"top", "done"} : Becomes(s, at, sup[s].name, sup[s].pid, sup[s].as)
    BY <1>1, <1>12, LoopSteps
  <2>2. sup[s].pid = None
    BY <1>1, <1>12 DEF Decide, AtWork
  <2>3. LoopMoves(s, at, sup[s].pid, sup[s].as)
    BY <1>3, <1>12, <2>1, <2>2 DEF LoopMoves, Decide, Having
  <2> QED
    BY <2>3, LoopMovesKeep
<1> QED
  BY <1>5, <1>6, <1>7, <1>8, <1>9, <1>10, <1>11, <1>12 DEF Loop

----------------------------------------------------------------------------
(* Steps of a request. *)

\* What is at work stays where it is, whatever its name and its definition.
RequestMoves ==
    /\ Serving
    /\ UNCHANGED <<proc, children, held, reaper, phase, pending, carry, adopting, manifest>>
    /\ \A t \in Sups : sup'[t].pid = sup[t].pid /\ sup'[t].at = sup[t].at
    /\ Installed' = Installed
    /\ \A n \in Names, p \in Pids : <<n, p>> \in store' => <<n, p>> \in store \/ p \in held

LEMMA RequestMovesKeep ==
    ASSUME Typed, Typed', Sane, RequestMoves
    PROVE  AtWork' /\ Reaping' /\ Unstarted' /\ ToAdopt' /\ ToHandOver' /\ Accounted' /\ One'
<1>1. /\ UNCHANGED <<proc, children, held, reaper, phase, pending, carry, adopting, manifest>>
      /\ \A t \in Sups : sup'[t].pid = sup[t].pid /\ sup'[t].at = sup[t].at
      /\ Installed' = Installed /\ phase \in {"up", "upgrading"}
      /\ \A n \in Names, p \in Pids : <<n, p>> \in store' => <<n, p>> \in store \/ p \in held
  BY DEF RequestMoves, Serving
<1>2. /\ OneDefinition /\ Placed /\ AtWork /\ Reaping /\ Unstarted /\ Asked /\ ToAdopt
      /\ ToHandOver /\ FiledRight
  BY DEF Sane, Typed
<1>3. AtWork'
  BY <1>1, <1>2 DEF AtWork, Live
<1>4. Reaping' /\ ToHandOver'
  BY <1>1, <1>2 DEF Reaping, ToHandOver, Live
<1>5. Unstarted'
  BY <1>1, <1>2 DEF Unstarted, Filed
<1>6. carry = {} /\ pending = {}
  BY <1>1, <1>2 DEF ToAdopt
<1>7. ToAdopt'
  BY <1>1, <1>6 DEF ToAdopt
<1>8. Copies' \subseteq Copies
  BY <1>1 DEF Copies, Filed, Live
<1>9. ASSUME NEW p \in Copies PROVE Supervised(p)'
  <2>1. Supervised(p)
    BY <1>1, <1>9 DEF Sane, Accounted, OnItsWay
  <2>2. PICK s \in Installed : sup[s].pid = p
    BY <2>1, InstalledAre DEF Supervised
  <2>3. s \in Sups
    <3>1. fsups \in [Names -> Sups \cup {None}]
      BY DEF Typed, TypeOK
    <3>2. PICK n \in Names : fsups[n] = s /\ s # None
      BY <2>2, InstalledAre
    <3> QED
      BY <3>1, <3>2
  <2>4. s # None /\ \E n \in Names : fsups'[n] = s
    BY <1>1 DEF Installed
  <2> QED
    BY <1>1, <2>2, <2>3, <2>4 DEF Supervised
<1>10. Accounted' /\ One'
  BY <1>8, <1>9, StillAccounted
<1> QED
  BY <1>3, <1>4, <1>5, <1>7, <1>10

\* A rename writes the definition under the new name, and takes the old one away.
LEMMA DefinitionMoves ==
    ASSUME Typed, Typed', Sane, odd' = {},
           (\E from, to \in Names : RenameAdd(from, to)) \/ RenameRemove
    PROVE  Sane'
<1> USE DEF world, boot, Early, Late, Renaming
<1>1. /\ OneDefinition /\ Placed /\ FiledRight /\ Asked /\ NoOp.at = "idle"
      /\ reg \in [Names -> {"none", "enabled", "disabled"}]
  BY DEF Sane, Typed, TypeOK, NoOp
<1>2. RequestMoves
  <2>1. Serving /\ UNCHANGED <<world, orphan, reaper, boot, fsups, sup, manifest>>
    BY <1>1 DEF RenameAdd, RenameRemove, Asked
  <2>2. Installed' = Installed
    BY <2>1 DEF Installed
  <2> QED
    BY <2>1, <2>2 DEF RequestMoves
<1>3. CASE \E from, to \in Names : RenameAdd(from, to)
  <2>1. PICK from \in Names, to \in Names : RenameAdd(from, to)
    BY <1>3
  <2>2. /\ op.at = "idle" /\ op'.at = "added" /\ op'.from = from /\ op'.to = to
        /\ Defined(from) /\ ~Defined(to) /\ UNCHANGED <<fsups, sup, store, proc>>
        /\ \A n \in Names : reg'[n] = IF n = to THEN reg[from] ELSE reg[n]
    BY <1>1, <2>1 DEF RenameAdd, NoOp, Idle, Defined
  <2>3. \A n \in Names : Defined(n) => n = from
    BY <1>1, <2>2 DEF OneDefinition
  <2>4. OneDefinition'
    BY <2>2, <2>3 DEF OneDefinition, Defined
  <2>5. \A n \in Names : Here(n) => n = from
    BY <2>2, <2>3 DEF Here
  <2>6. Placed'
    BY <1>1, <2>2, <2>5 DEF Placed, Here
  <2>7. FiledRight'
    BY <1>1, <2>2, <2>5 DEF FiledRight, FiledUnder, Here, Live
  <2> QED
    BY <1>2, <2>4, <2>6, <2>7, RequestMovesKeep DEF Sane
<1>4. CASE RenameRemove
  <2>1. /\ op.at = "added" /\ op.from \in Names /\ op.to \in Names
        /\ UNCHANGED <<fsups, sup, store, proc>>
        /\ op.from # op.to /\ \A n \in Names : Defined(n) <=> n \in {op.from, op.to}
    BY <1>1, <1>4 DEF RenameRemove, Asked, OneDefinition
  <2>2. CASE reg' = [reg EXCEPT ![op.from] = "none"] /\ op' = [op EXCEPT !.at = "removed"]
    <3>1. op'.at = "removed" /\ op'.from = op.from /\ op'.to = op.to
      BY <2>2 DEF Typed, TypeOK
    <3>2. \A n \in Names : Defined(n)' <=> n = op.to
      BY <1>1, <2>1, <2>2 DEF Defined
    <3>3. OneDefinition'
      BY <3>1, <3>2 DEF OneDefinition
    <3>4. Placed' /\ FiledRight'
      BY <1>1, <2>1, <3>1 DEF Placed, Here, FiledRight, FiledUnder, Live
    <3> QED
      BY <1>2, <3>3, <3>4, RequestMovesKeep DEF Sane
  <2>3. CASE reg' = [reg EXCEPT ![op.to] = "none"] /\ op' = NoOp
    <3>1. op'.at = "idle"
      BY <1>1, <2>3
    <3>2. \A n \in Names : Defined(n)' <=> n = op.from
      BY <1>1, <2>1, <2>3 DEF Defined
    <3>3. OneDefinition'
      BY <3>1, <3>2 DEF OneDefinition
    <3>4. Placed' /\ FiledRight'
      BY <1>1, <2>1, <3>1, <3>2 DEF Placed, Here, FiledRight, FiledUnder, Live
    <3> QED
      BY <1>2, <3>3, <3>4, RequestMovesKeep DEF Sane
  <2> QED
    BY <1>4, <2>2, <2>3 DEF RenameRemove
<1> QED
  BY <1>3, <1>4

\* Then the supervisor goes with it.
LEMMA SwapKeeps == ASSUME Typed, Typed', Sane, RenameSwap PROVE Sane'
<1> USE DEF world, boot, Early, Late, Renaming
<1>1. /\ OneDefinition /\ Placed /\ FiledRight /\ Asked
      /\ fsups \in [Names -> Sups \cup {None}]
  BY DEF Sane, Typed, TypeOK
<1>2. /\ op.at = "removed" /\ op.from \in Names /\ op.to \in Names /\ fsups[op.from] # None
      /\ fsups' = [fsups EXCEPT ![op.from] = None, ![op.to] = fsups[op.from]]
      /\ UNCHANGED <<reg, sup, store, proc>>
  BY <1>1 DEF RenameSwap, Asked
<1>3. op'.at = "swapped" /\ op'.from = op.from /\ op'.to = op.to
  BY DEF RenameSwap, Typed, TypeOK
<1>4. \A n \in Names : fsups[n] # None => n = op.from
  BY <1>1, <1>2, OneInstalled
<1>5. \A n \in Names : fsups'[n] = IF n = op.to THEN fsups[op.from] ELSE None
  BY <1>1, <1>2, <1>4
<1>6. Installed' = Installed
  <2>1. Installed = {fsups[op.from]}
    BY <1>2, <1>4 DEF Installed
  <2>2. PICK s \in Sups : s = fsups[op.from] /\ s # None
    BY <1>1, <1>2
  <2>3. \A n \in Names : fsups'[n] = IF n = op.to THEN s ELSE None
    BY <1>5, <2>2
  <2>4. {fsups'[n] : n \in Names} \ {None} = {s}
    <3>1. \A n \in Names : fsups'[n] \in {s, None}
      BY <2>3
    <3>2. op.to \in Names /\ fsups'[op.to] = s
      BY <1>2, <2>3
    <3> QED
      BY <2>2, <3>1, <3>2, Zenon
  <2> QED
    BY <2>1, <2>2, <2>4 DEF Installed
<1>7. RequestMoves
  BY <1>1, <1>2, <1>6 DEF RequestMoves, RenameSwap, Asked
<1>8. OneDefinition'
  BY <1>1, <1>2, <1>3 DEF OneDefinition, Defined
<1>9. Placed'
  <2>1. sup[fsups[op.from]].name = op.from
    BY <1>1, <1>2 DEF Placed
  <2> QED
    BY <1>2, <1>3, <1>5, <2>1 DEF Placed, Here
<1>10. FiledRight'
  BY <1>1, <1>2, <1>3 DEF FiledRight, FiledUnder, Here, Live
<1> QED
  BY <1>7, <1>8, <1>9, <1>10, RequestMovesKeep DEF Sane

\* The supervisor is told its name, and of its process when it has one to file again.
LEMMA RenameSupervisorKeeps == ASSUME Typed, Typed', Sane, odd' = {}, RenameSupervisor PROVE Sane'
<1> USE DEF world, boot, Early, Late, Renaming
<1>1. OneDefinition /\ Placed /\ FiledRight /\ Asked /\ AtWork /\ TypeOK
  BY DEF Sane, Typed
<1>2. /\ op.at = "swapped" /\ op.from \in Names /\ op.to \in Names
      /\ op.sup \in Sups /\ op.sup = fsups[op.to] /\ fsups[op.to] # None
      /\ UNCHANGED <<reg, fsups, store, proc>>
      /\ \A n \in Names : Defined(n) <=> n = op.to
  BY <1>1, RecoveryAssumption DEF RenameSupervisor, Asked, OneDefinition
<1>3. Becomes(op.sup, sup[op.sup].at, op.to, sup[op.sup].pid, sup[op.sup].as)
  BY <1>1, <1>2, OtherSteps
<1>4. /\ \A t \in Sups : sup'[t].pid = sup[t].pid /\ sup'[t].at = sup[t].at
      /\ \A t \in Sups : t # op.sup => sup'[t] = sup[t]
      /\ sup'[op.sup].name = op.to
  BY <1>3 DEF Becomes
<1>5. RequestMoves
  <2>1. Serving /\ UNCHANGED <<world, reaper, boot, fsups, manifest>>
    BY <1>1, <1>2 DEF RenameSupervisor, Asked
  <2>2. Installed' = Installed
    BY <2>1 DEF Installed
  <2> QED
    BY <1>4, <2>1, <2>2 DEF RequestMoves
<1>6. CASE Current(op.sup) = None
  <2>1. op'.at = "idle"
    BY <1>6 DEF RenameSupervisor, NoOp
  <2>2. OneDefinition'
    BY <1>2, <2>1 DEF OneDefinition, Defined
  <2>3. \A n \in Names : fsups[n] # None => n = op.to
    BY <1>1, <1>2, OneInstalled
  <2>4. Placed'
    BY <1>2, <1>4, <2>1, <2>3 DEF Placed, Here, Defined
  <2>5. FiledRight'
    <3> SUFFICES ASSUME NEW n \in Names, NEW p \in Pids, <<n, p>> \in store, Live(p) PROVE FALSE
      BY <1>2 DEF FiledRight, Live
    <3>1. n = op.from
      BY <1>1, <1>2 DEF FiledRight, FiledUnder
    <3>2. p \in Copies
      BY CopiesAre DEF Filed
    <3>3. sup[op.sup].pid = p /\ p # None
      BY <1>2, <3>2, CopyIsItsOwn, RecoveryAssumption
    <3>4. sup[op.sup].at \notin {"idle", "deciding", "done", "dropping"}
      BY <1>1, <1>2, <3>3 DEF AtWork
    <3>5. sup[op.sup].at \notin {"current", "named", "waiting"}
      BY <1>6, <3>3 DEF Current
    <3>6. sup[op.sup].at \notin {"top", "spawned"}
      BY <3>1, <3>3 DEF RenameSupervisor
    <3>7. sup[op.sup].at \in {"idle", "top", "spawned", "current", "named", "waiting", "dropping",
                              "deciding", "done"}
      BY <1>1, <1>2 DEF TypeOK
    <3> QED
      BY <3>4, <3>5, <3>6, <3>7
  <2> QED
    BY <1>5, <2>2, <2>4, <2>5, RequestMovesKeep DEF Sane
<1>7. CASE Current(op.sup) # None
  <2>1. op'.at = "renamed" /\ op'.from = op.from /\ op'.to = op.to /\ op'.pid = Current(op.sup)
    BY <1>1, <1>7 DEF RenameSupervisor, TypeOK
  <2>2. Current(op.sup) = sup[op.sup].pid
    BY <1>7 DEF Current
  <2>3. OneDefinition'
    BY <1>2, <2>1 DEF OneDefinition, Defined
  <2>4. \A n \in Names : fsups[n] # None => n = op.to
    BY <1>1, <1>2, OneInstalled
  <2>5. Placed'
    BY <1>2, <1>4, <2>1, <2>4 DEF Placed, Here, Defined
  <2>6. FiledRight'
    <3> SUFFICES ASSUME NEW n \in Names, NEW p \in Pids, <<n, p>> \in store, Live(p)
                 PROVE  n = op.from /\ p = sup[op.sup].pid
      BY <1>2, <2>1, <2>2 DEF FiledRight, FiledUnder, Live
    <3>1. n = op.from
      BY <1>1, <1>2 DEF FiledRight, FiledUnder
    <3>2. p \in Copies
      BY CopiesAre DEF Filed
    <3> QED
      BY <1>2, <3>1, <3>2, CopyIsItsOwn
  <2> QED
    BY <1>5, <2>3, <2>5, <2>6, RequestMovesKeep DEF Sane
<1> QED
  BY <1>6, <1>7

\* And the terminal is filed under the new name instead of the old one.
LEMMA RefilingKeeps == ASSUME Typed, Typed', Sane, RenameDrop \/ RenameFile PROVE Sane'
<1> USE DEF world, boot, Early, Late, Renaming
<1>1. OneDefinition /\ Placed /\ FiledRight /\ Asked
  BY DEF Sane, Typed
<1>2. /\ op.at \in {"renamed", "dropped"} /\ op.from \in Names /\ op.to \in Names /\ op.pid \in Pids
      /\ UNCHANGED <<reg, fsups, sup, proc>> /\ \A n \in Names : Defined(n) <=> n = op.to
  BY <1>1 DEF RenameDrop, RenameFile, Asked, OneDefinition
<1>3. RequestMoves
  <2>1. \A n \in Names, p \in Pids : <<n, p>> \in store' => <<n, p>> \in store \/ p \in held
    BY DEF RenameDrop, RenameFile, StoreWith
  <2> QED
    BY <1>1, <1>2, <2>1 DEF RequestMoves, RenameDrop, RenameFile, Asked, Installed
<1>4. CASE RenameDrop
  <2>1. op.at = "renamed" /\ op'.at = "dropped" /\ op'.from = op.from /\ op'.to = op.to
        /\ store' = store \ {<<op.from, op.pid>>}
    BY <1>4 DEF RenameDrop, Typed, TypeOK
  <2>2. OneDefinition'
    BY <1>2, <2>1 DEF OneDefinition, Defined
  <2>3. Placed'
    BY <1>1, <1>2, <2>1 DEF Placed, Here
  <2>4. FiledRight'
    BY <1>1, <1>2, <2>1 DEF FiledRight, FiledUnder, Here, Live
  <2> QED
    BY <1>3, <2>2, <2>3, <2>4, RequestMovesKeep DEF Sane
<1>5. CASE RenameFile
  <2>1. op.at = "dropped" /\ op'.at = "idle" /\ store' \subseteq store \cup {<<op.to, op.pid>>}
    BY <1>5 DEF RenameFile, NoOp, StoreWith
  <2>2. OneDefinition'
    BY <1>2, <2>1 DEF OneDefinition, Defined
  <2>3. Placed'
    BY <1>1, <1>2, <2>1 DEF Placed, Here, Defined
  <2>4. FiledRight'
    BY <1>1, <1>2, <2>1 DEF FiledRight, FiledUnder, Here, Live, Defined
  <2> QED
    BY <1>3, <2>2, <2>3, <2>4, RequestMovesKeep DEF Sane
<1> QED
  BY <1>4, <1>5

LEMMA StopKeeps ==
    ASSUME Typed, Typed', Sane,
           (\E n \in Names : StopDisable(n)) \/ StopCancel \/ StopWaited
    PROVE  Sane'
<1> USE DEF world, boot, Early, Late, Renaming
<1>1. OneDefinition /\ Placed /\ FiledRight /\ Asked /\ TypeOK
  BY DEF Sane, Typed
<1>2. /\ op.at \in {"idle", "stopping", "stopped"} /\ op'.at \in {"idle", "stopping", "stopped"}
      /\ Serving /\ UNCHANGED <<fsups, store, proc>>
      /\ UNCHANGED <<children, held, reaper, phase, pending, carry, adopting, manifest>>
  <2>1. NoOp.at = "idle" /\ \A s : [NoOp EXCEPT !.at = "stopping", !.sup = s].at = "stopping"
    BY DEF NoOp
  <2>2. [op EXCEPT !.at = "stopped"].at = "stopped"
    BY <1>1 DEF TypeOK
  <2>3. CASE \E n \in Names : StopDisable(n)
    BY <2>1, <2>3 DEF StopDisable, Idle
  <2>4. CASE StopCancel
    BY <1>1, <2>1, <2>2, <2>4 DEF StopCancel, Asked
  <2>5. CASE StopWaited
    BY <1>1, <2>1, <2>5 DEF StopWaited, Asked
  <2> QED
    BY <2>3, <2>4, <2>5
<1>3. \A n \in Names : Defined(n)' <=> Defined(n)
  <2>1. CASE \E n \in Names : StopDisable(n)
    BY <1>1, <2>1 DEF StopDisable, Defined, TypeOK
  <2>2. CASE StopCancel \/ StopWaited
    BY <2>2 DEF StopCancel, StopWaited, Defined
  <2> QED
    BY <2>1, <2>2
<1>4. \A t \in Sups : sup'[t].pid = sup[t].pid /\ sup'[t].at = sup[t].at /\ sup'[t].name = sup[t].name
  <2>1. CASE StopCancel
    <3>1. op.sup \in Sups
      BY <1>1, <2>1 DEF StopCancel, Asked
    <3>2. Becomes(op.sup, sup[op.sup].at, sup[op.sup].name, sup[op.sup].pid, sup[op.sup].as)
      BY <1>1, <2>1, <3>1, OtherSteps
    <3> QED
      BY <3>2 DEF Becomes
  <2>2. CASE ~StopCancel
    BY <2>2 DEF StopDisable, StopWaited
  <2> QED
    BY <2>1, <2>2
<1>5. RequestMoves
  BY <1>2, <1>4 DEF RequestMoves, Installed
<1>6. OneDefinition'
  BY <1>1, <1>2, <1>3 DEF OneDefinition
<1>7. Placed'
  <2>1. \A n \in Names : fsups[n] # None => fsups[n] \in Sups
    BY <1>1 DEF TypeOK
  <2> QED
    BY <1>1, <1>2, <1>3, <1>4, <2>1 DEF Placed, Here
<1>8. FiledRight'
  BY <1>1, <1>2, <1>3 DEF FiledRight, FiledUnder, Here, Live
<1> QED
  BY <1>5, <1>6, <1>7, <1>8, RequestMovesKeep DEF Sane

----------------------------------------------------------------------------
(* The daemon's end and the next one's start. *)

\* A step of the main goroutine that leaves what is installed and what is on
\* disk alone: where a copy is on its way it stays so, and what it takes hold
\* of was filed.
LEMMA StandingKeeps ==
    ASSUME Typed, Typed', Sane, UNCHANGED <<reg, proc, fsups, sup, op>>,
           store' \subseteq store, held \subseteq held',
           \A p \in Pids : p \in held' => p \in held \/ Filed(p),
           Reaping', Unstarted', ToAdopt', ToHandOver',
           \A p \in Copies : OnItsWay(p) => OnItsWay(p)'
    PROVE  Sane'
<1>1. /\ OneDefinition /\ Placed /\ AtWork /\ FiledRight
  BY DEF Sane
<1>2. OneDefinition' /\ Placed'
  BY <1>1 DEF OneDefinition, Placed, Defined, Here, Renaming
<1>3. AtWork'
  BY <1>1 DEF AtWork, Live, Installed
<1>4. FiledRight'
  BY <1>1 DEF FiledRight, FiledUnder, Here, Defined, Live
<1>5. Copies' \subseteq Copies
  BY DEF Copies, Filed, Live
<1>6. \A p \in Copies' : Supervised(p) => Supervised(p)'
  BY DEF Supervised
<1>7. Accounted' /\ One'
  BY <1>5, <1>6, StillAccounted
<1> QED
  BY <1>2, <1>3, <1>4, <1>7 DEF Sane

\* With a daemon that serves, a copy is with the supervisor and its terminal open.
LEMMA ServedIsHeld ==
    ASSUME Typed, Sane, Serving, NEW p \in Copies
    PROVE  /\ p \in held
           /\ \E n \in Names : fsups[n] # None /\ sup[fsups[n]].pid = p /\ fsups[n] \in Sups
<1>1. ~OnItsWay(p)
  BY DEF Serving, OnItsWay
<1>2. PICK n \in Names : fsups[n] # None /\ sup[fsups[n]].pid = p
  BY <1>1 DEF Sane, Accounted, Supervised
<1>3. fsups[n] \in Sups
  BY <1>2 DEF Typed, TypeOK
<1>4. Live(p) /\ p # None
  BY CopiesAre, RecoveryAssumption
<1>5. p \in held
  BY <1>2, <1>3, <1>4 DEF Sane, AtWork
<1> QED
  BY <1>2, <1>3, <1>5

\* PrepareHandover, and an exec that fails.
LEMMA PreparingKeeps == ASSUME Typed, Typed', Sane, Prepare \/ ExecFails PROVE Sane'
<1> USE DEF world
<1>1. /\ OneDefinition /\ Placed /\ AtWork /\ Reaping /\ Unstarted /\ Asked /\ ToAdopt /\ TypeOK
  BY DEF Sane, Typed
<1>2. /\ UNCHANGED <<reg, world, orphan, reaper, pending, carry, adopting, toLoad, fsups, sup, op>>
      /\ phase \in {"up", "upgrading"} /\ phase' \in {"up", "upgrading"}
      /\ manifest' \in {{}, Handovers}
  BY DEF Prepare, ExecFails
<1>3. \A n \in Names, p \in Pids : <<n, p>> \in manifest' =>
        fsups[n] # None /\ fsups[n] \in Sups /\ p = Current(fsups[n]) /\ p \in held
  <2>1. \A n \in Names : fsups[n] # None => fsups[n] \in Sups
    BY <1>1 DEF TypeOK
  <2> SUFFICES ASSUME NEW n \in Names, NEW p \in Pids, <<n, p>> \in Handovers
               PROVE  fsups[n] # None /\ p = Current(fsups[n]) /\ p \in held
    BY <1>2, <2>1
  <2> DEFINE e == <<n, p>>
  <2>2. e[1] = n /\ e[2] = p /\ e \in Handovers
    OBVIOUS
  <2> HIDE DEF e
  <2>3. fsups[e[1]] # None /\ e[2] = Current(fsups[e[1]]) /\ e[2] \in held
    BY <2>2 DEF Handovers
  <2> QED
    BY <2>2, <2>3
<1>4. ToHandOver'
  <2>1. \A n, m \in Names, p, q \in Pids :
          <<n, p>> \in manifest' /\ <<m, q>> \in manifest' => n = m /\ p = q
    BY <1>1, <1>3, OneInstalled
  <2> QED
    BY <1>2, <1>3, <2>1 DEF ToHandOver
<1>5. Unstarted'
  <2>1. \A n \in Names, p \in Pids : <<n, p>> \in manifest' => proc[p] # "unused"
    BY <1>1, <1>3 DEF Unstarted
  <2> QED
    BY <1>1, <1>2, <2>1 DEF Unstarted, Filed
<1>6. ToAdopt'
  BY <1>1, <1>2 DEF ToAdopt, Live, Defined, Installed
<1>7. Reaping'
  BY <1>1, <1>2 DEF Reaping
<1> QED
  BY <1>2, <1>4, <1>5, <1>6, <1>7, StandingKeeps DEF OnItsWay

\* What both ends leave behind.
LEMMA Forgotten ==
    ASSUME Typed, Sane, Forget, UNCHANGED <<reg, store, proc>>,
           op.at \notin Renaming, phase' \in {"taking", "adopting"}
    PROVE  /\ OneDefinition' /\ Placed' /\ AtWork' /\ Reaping' /\ ToHandOver' /\ FiledRight'
           /\ Installed' = {} /\ \A s \in Sups : sup'[s].pid = None
           /\ \A n \in Names, p \in Pids : <<n, p>> \in store /\ Live(p) => Defined(n)
<1>1. OneDefinition /\ FiledRight /\ TypeOK
  BY DEF Sane, Typed
<1>2. op'.at = "idle" /\ fsups' = [n \in Names |-> None] /\ manifest' = {}
      /\ reaper' = [p \in Pids |-> "off"]
  BY DEF Forget, NoOp
<1>3. \A s \in Sups : sup'[s].at = "idle" /\ sup'[s].pid = None
  BY <1>1, OtherSteps
<1>4. Installed' = {}
  BY <1>2 DEF Installed
<1>5. OneDefinition'
  BY <1>1, <1>2 DEF OneDefinition, Defined, Renaming, Early, Late
<1>6. Placed'
  BY <1>2 DEF Placed
<1>7. AtWork'
  BY <1>3, <1>4 DEF AtWork, Having
<1>8. Reaping' /\ ToHandOver'
  BY <1>2 DEF Reaping, ToHandOver
<1>9. \A n \in Names, p \in Pids : <<n, p>> \in store /\ Live(p) => Defined(n)
  BY <1>1 DEF FiledRight, FiledUnder, Here, Renaming, Early, Late
<1>10. FiledRight'
  BY <1>2, <1>9 DEF FiledRight, FiledUnder, Here, Early, Late, Defined, Live
<1> QED
  BY <1>3, <1>4, <1>5, <1>6, <1>7, <1>8, <1>9, <1>10

LEMMA CrashKeeps == ASSUME Typed, Typed', Sane, odd' = {}, Crash PROVE Sane'
<1>1. /\ Forget /\ UNCHANGED <<reg, store, proc>> /\ held' = {} /\ carry' = {} /\ pending' = store
      /\ phase' = "taking"
  BY DEF Crash
<1>2. op.at \notin Renaming
  BY DEF Crash, CutShort, Renaming, Early, Late
<1>3. /\ OneDefinition' /\ Placed' /\ AtWork' /\ Reaping' /\ ToHandOver' /\ FiledRight'
      /\ Installed' = {} /\ \A s \in Sups : sup'[s].pid = None
  BY <1>1, <1>2, Forgotten
<1>4. Unstarted'
  <2>1. Unstarted /\ reaper' = [p \in Pids |-> "off"] /\ manifest' = {}
    BY <1>1 DEF Sane, Forget
  <2> QED
    BY <1>1, <1>3, <2>1, RecoveryAssumption DEF Unstarted, Filed
<1>5. ToAdopt'
  BY <1>1, <1>3 DEF ToAdopt
<1>6. Copies' \subseteq Copies
  BY <1>1 DEF Copies, Filed, Live
<1>7. \A p \in Copies' : OnItsWay(p)'
  BY <1>1 DEF Copies, Filed, OnItsWay
<1>8. Accounted' /\ One'
  BY <1>6, <1>7, StillAccounted
<1> QED
  BY <1>3, <1>4, <1>5, <1>8 DEF Sane

\* The manifest names the one copy there is, under the name it has, or something odd happened.
LEMMA ExecKeeps == ASSUME Typed, Typed', Sane, odd' = {}, Exec PROVE Sane'
<1>1. /\ Forget /\ UNCHANGED <<reg, store, proc>> /\ held' = {e[2] : e \in manifest}
      /\ carry' = {[name |-> e[1], pid |-> e[2], orphan |-> FALSE] : e \in manifest}
      /\ pending' = {} /\ phase' = "adopting" /\ Serving
  BY DEF Exec, Serving
<1>2. op.at \notin Renaming
  BY DEF Exec, CutShort, Renaming, Early, Late
<1>3. /\ OneDefinition' /\ Placed' /\ AtWork' /\ Reaping' /\ ToHandOver' /\ FiledRight'
      /\ Installed' = {} /\ \A s \in Sups : sup'[s].pid = None
  BY <1>1, <1>2, Forgotten
<1>4. /\ Placed /\ ToHandOver /\ Unstarted /\ manifest \subseteq Entry
  BY DEF Sane, Typed, TypeOK
<1>5. \A e \in manifest : e[1] \in Names /\ e[2] \in Pids /\ <<e[1], e[2]>> \in manifest
  BY <1>4 DEF Entry
<1>6. \A e \in Entry : e[2] \in Copies /\ fsups[e[1]] # None /\ sup[fsups[e[1]]].pid = e[2]
                       => e \in manifest
  BY DEF Exec
<1>7. ASSUME NEW p \in Copies
      PROVE  \E n \in Names : fsups[n] # None /\ <<n, p>> \in manifest
  <2>1. PICK n \in Names : fsups[n] # None /\ sup[fsups[n]].pid = p
    BY <1>1, ServedIsHeld
  <2>2. p \in Pids
    BY CopiesAre
  <2>3. <<n, p>> \in Entry /\ <<n, p>>[1] = n /\ <<n, p>>[2] = p
    BY <2>2 DEF Entry
  <2>4. <<n, p>> \in manifest
    BY <1>6, <2>1, <2>3
  <2> QED
    BY <2>1, <2>4
<1>8. ASSUME NEW e \in manifest, Live(e[2]) PROVE e[2] \in Copies /\ Defined(e[1])
  <2>1. e[2] \in Copies
    BY <1>4, <1>5, <1>8, CopiesAre DEF ToHandOver
  <2>2. PICK n \in Names : fsups[n] # None /\ <<n, e[2]>> \in manifest
    BY <1>7, <2>1
  <2>3. n = e[1]
    <3>1. e[1] \in Names /\ e[2] \in Pids /\ <<e[1], e[2]>> \in manifest
      BY <1>5, <1>8
    <3>2. \A m \in Names, p \in Pids : <<n, e[2]>> \in manifest /\ <<m, p>> \in manifest => n = m
      BY <1>4, <3>1 DEF ToHandOver
    <3> QED
      BY <2>2, <3>1, <3>2
  <2>4. Here(n)
    BY <1>4, <2>2 DEF Placed
  <2> QED
    BY <1>2, <2>1, <2>3, <2>4 DEF Here, Renaming
<1>9. Unstarted'
  <2>1. reaper' = [p \in Pids |-> "off"] /\ manifest' = {}
    BY <1>1 DEF Forget
  <2>2. \A e \in manifest : proc[e[2]] # "unused"
    BY <1>4, <1>5 DEF Unstarted
  <2> QED
    BY SMTT(30), <1>1, <1>3, <1>4, <2>1, <2>2, RecoveryAssumption DEF Unstarted, Filed
<1>10. ToAdopt'
  <2>1. \A h \in carry' : h.orphan = FALSE
    BY <1>1
  <2>2. \A h \in carry' : Live(h.pid)' => h.pid \in held' /\ Defined(h.name)'
    BY <1>1, <1>8 DEF Live, Defined
  <2> QED
    BY <1>1, <1>3, <2>1, <2>2 DEF ToAdopt
<1>11. Copies' \subseteq Copies
  <2> SUFFICES ASSUME NEW p \in Pids, Live(p), p \in held' \/ Filed(p) PROVE p \in Copies
    BY <1>1 DEF Copies, Filed, Live
  <2> QED
    BY <1>1, <1>8, CopiesAre
<1>12. \A p \in Copies' : OnItsWay(p)'
  <2> SUFFICES ASSUME NEW p \in Copies PROVE \E h \in carry' : h.pid = p
    BY <1>1, <1>11 DEF OnItsWay
  <2>1. PICK n \in Names : <<n, p>> \in manifest
    BY <1>7
  <2>2. ASSUME NEW e \in manifest PROVE \E h \in carry' : h.pid = e[2]
    <3> DEFINE g == [name |-> e[1], pid |-> e[2], orphan |-> FALSE]
    <3>1. g \in carry'
      BY <1>1
    <3>2. g.pid = e[2]
      OBVIOUS
    <3> QED
      BY <3>1, <3>2
  <2>3. <<n, p>>[2] = p
    OBVIOUS
  <2> QED
    BY <2>1, <2>2, <2>3
<1>13. Accounted' /\ One'
  BY <1>11, <1>12, StillAccounted
<1> QED
  BY <1>3, <1>9, <1>10, <1>13 DEF Sane

\* RecoveredPTYs: what is taken hold of was filed, and what is dropped is dead.
LEMMA RecoverKeeps == ASSUME Typed, Typed', Sane, NEW e \in Entry, Recover(e) PROVE Sane'
<1>1. PICK a \in Names, d \in Pids : e = <<a, d>>
  BY DEF Entry
<1>2. e[1] = a /\ e[2] = d
  BY <1>1
<1>3. /\ phase = "taking" /\ <<a, d>> \in pending /\ pending' = pending \ {<<a, d>>}
      /\ UNCHANGED <<reg, proc, children, orphan, reaper, phase, adopting, toLoad, fsups, sup, op,
                     manifest>>
  BY <1>1 DEF Recover
<1>4. /\ Unstarted /\ ToAdopt /\ ToHandOver /\ Reaping /\ FiledRight /\ Asked
      /\ carry \subseteq Handover /\ proc \in [Pids -> {"unused", "live", "gone"}]
  BY DEF Sane, Typed, TypeOK
<1>5. op.at = "idle" /\ Installed = {} /\ Installed' = {}
  BY <1>3, <1>4 DEF Asked, Serving, ToAdopt, Installed
<1>6. Reaping'
  BY <1>3, <1>4 DEF Reaping
<1>7. CASE Live(d)
  <2> DEFINE g == [name |-> a, pid |-> d, orphan |-> TRUE]
  <2>1. carry' = carry \cup {g} /\ held' = held \cup {d} /\ store' = store
    BY <1>1, <1>2, <1>7 DEF Recover
  <2>2. g.name = a /\ g.pid = d /\ g.orphan = TRUE
    OBVIOUS
  <2> HIDE DEF g
  <2>3. <<a, d>> \in store /\ Defined(a)
    BY <1>3, <1>4, <1>5, <1>7 DEF ToAdopt, FiledRight, FiledUnder, Here, Early, Late
  <2>4. ToHandOver'
    BY <1>3, <1>4, <2>1 DEF ToHandOver, Live
  <2>5. Unstarted'
    BY <1>3, <1>4, <1>7, <2>1, <2>2 DEF Unstarted, Filed, Live
  <2>6. ToAdopt'
    BY <1>3, <1>4, <1>5, <2>1, <2>2, <2>3 DEF ToAdopt, Live, Defined
  <2>7. \A p \in Copies : OnItsWay(p) => OnItsWay(p)'
    BY <1>3, <2>1, <2>2 DEF OnItsWay
  <2>8. Filed(d)
    BY <2>3 DEF Filed
  <2> QED
    BY <1>3, <1>6, <2>1, <2>4, <2>5, <2>6, <2>7, <2>8, StandingKeeps
<1>8. CASE ~Live(d)
  <2>1. carry' = carry /\ held' = held /\ store' = store \ {<<a, d>>}
    BY <1>1, <1>2, <1>8 DEF Recover
  <2>2. \A n, p : <<n, p>> = <<a, d>> => p = d
    OBVIOUS
  <2>3. ToHandOver'
    BY <1>3, <1>4, <2>1 DEF ToHandOver, Live
  <2>4. Unstarted'
    BY <1>3, <1>4, <2>1 DEF Unstarted, Filed
  <2>5. ToAdopt'
    <3>1. \A n \in Names, p \in Pids : <<n, p>> \in pending' /\ Live(p) => <<n, p>> \in store'
      BY <1>3, <1>4, <1>8, <2>1, <2>2 DEF ToAdopt
    <3> QED
      BY <1>3, <1>4, <1>5, <2>1, <3>1 DEF ToAdopt, Live, Defined
  <2>6. \A p \in Copies : OnItsWay(p) => OnItsWay(p)'
    BY <1>3, <1>8, <2>1, <2>2, CopiesAre DEF OnItsWay
  <2> QED
    BY <1>3, <1>6, <2>1, <2>3, <2>4, <2>5, <2>6, StandingKeeps
<1> QED
  BY <1>7, <1>8

\* The main goroutine goes on to its next part: there is nothing left in the one before.
LEMMA PhasesKeep ==
    ASSUME Typed, Typed', Sane, Recovered \/ AdoptedAll \/ Loaded
    PROVE  Sane'
<1> USE DEF world
<1>1. /\ Unstarted /\ ToAdopt /\ ToHandOver /\ Reaping
  BY DEF Sane
<1>2. /\ UNCHANGED <<reg, world, orphan, reaper, pending, carry, adopting, fsups, sup, op, manifest>>
      /\ \/ phase = "taking" /\ pending = {} /\ phase' = "adopting"
         \/ phase = "adopting" /\ carry = {} /\ phase' = "loading"
         \/ phase = "loading" /\ phase' = "up"
  BY DEF Recovered, AdoptedAll, Loaded
<1>3. Reaping' /\ ToHandOver' /\ Unstarted'
  BY <1>1, <1>2 DEF Reaping, ToHandOver, Unstarted, Live, Filed
<1>4. ToAdopt'
  <2>1. Installed' = Installed
    BY <1>2 DEF Installed
  <2> QED
    BY <1>1, <1>2, <2>1 DEF ToAdopt, Live, Defined
<1>5. \A p \in Copies : OnItsWay(p) => OnItsWay(p)'
  BY <1>2 DEF OnItsWay
<1> QED
  BY <1>2, <1>3, <1>4, <1>5, StandingKeeps

\* AdoptAll takes one up: the others are dead, as the copy is one.
LEMMA AdoptKeeps == ASSUME Typed, Typed', Sane, NEW h \in Handover, Adopt(h) PROVE Sane'
<1> USE DEF world
<1>1. /\ OneDefinition /\ Unstarted /\ ToAdopt /\ ToHandOver /\ Reaping /\ Asked /\ One
      /\ carry \subseteq Handover
      /\ reaper \in [Pids -> {"off", "choosing", "orphan", "child", "done"}]
  BY DEF Sane, Typed, TypeOK
<1>2. /\ phase = "adopting" /\ h \in carry /\ carry' = carry \ {h} /\ h.pid \in Pids
      /\ h.name \in Names
      /\ UNCHANGED <<reg, world, orphan, pending, fsups, sup, op, manifest>>
  BY DEF Adopt, Handover
<1>3. Installed' = Installed
  BY <1>2 DEF Installed
<1>4. ToHandOver'
  BY <1>1, <1>2 DEF ToHandOver, Live
<1>5. \A g \in carry : Live(g.pid) => g.pid \in Copies /\ Defined(g.name) /\ g.pid \in Pids
                                      /\ g.name \in Names
  BY <1>1, CopiesAre DEF ToAdopt, Handover
<1>6. CASE reg[h.name] = "none" \/ ~Live(h.pid)
  <2>1. ~Live(h.pid)
    BY <1>2, <1>5, <1>6 DEF Defined
  <2>2. UNCHANGED <<reaper, adopting, phase>>
    BY <1>6 DEF Adopt
  <2>3. Reaping' /\ Unstarted'
    BY <1>1, <1>2, <2>2 DEF Reaping, Unstarted, Filed
  <2>4. ToAdopt'
    BY <1>1, <1>2, <1>3, <2>2 DEF ToAdopt, Live, Defined
  <2>5. \A p \in Copies : OnItsWay(p) => OnItsWay(p)'
    BY <1>2, <2>1, <2>2, CopiesAre DEF OnItsWay
  <2> QED
    BY <1>2, <1>4, <2>3, <2>4, <2>5, StandingKeeps
<1>7. CASE reg[h.name] # "none" /\ Live(h.pid)
  <2>1. reaper' = [reaper EXCEPT ![h.pid] = "choosing"] /\ adopting' = h /\ phase' = "marking"
    BY <1>7 DEF Adopt
  <2>2. \A p \in Pids : reaper'[p] = IF p = h.pid THEN "choosing" ELSE reaper[p]
    BY <1>1, <2>1
  <2>3. Reaping'
    BY <1>1, <1>2, <2>2 DEF Reaping
  <2>4. proc[h.pid] # "unused"
    BY <1>7 DEF Live
  <2>5. Unstarted'
    BY <1>1, <1>2, <2>1, <2>2, <2>4 DEF Unstarted, Filed
  <2>6. op.at = "idle"
    BY <1>1, <1>2 DEF Asked, Serving
  <2>7. ASSUME NEW g \in carry, Live(g.pid) PROVE g = h
    <3>1. g.pid = h.pid
      BY <1>1, <1>2, <1>5, <1>7, <2>7 DEF One
    <3>2. g.name = h.name
      BY <1>1, <1>2, <1>5, <1>7, <2>6, <2>7 DEF OneDefinition
    <3>3. g.orphan = h.orphan
      BY <1>1, <1>2 DEF ToAdopt
    <3>4. g \in Handover
      BY <1>1
    <3> QED
      BY <3>1, <3>2, <3>3, <3>4 DEF Handover
  <2>8. Installed = {} /\ h.pid \in held /\ Defined(h.name)
    BY <1>1, <1>2, <1>7 DEF ToAdopt
  <2>9. ToAdopt'
    <3>1. \A g \in carry' : ~Live(g.pid)
      BY <1>2, <2>7
    <3> QED
      BY <1>1, <1>2, <1>3, <2>1, <2>8, <3>1 DEF ToAdopt, Live, Defined
  <2>10. \A p \in Copies : OnItsWay(p)'
    <3>1. \A p \in Copies : p = h.pid
      BY <1>1, <1>2, <1>5, <1>7 DEF One
    <3> QED
      BY <2>1, <3>1 DEF OnItsWay
  <2> QED
    BY <1>2, <1>4, <2>3, <2>5, <2>9, <2>10, StandingKeeps
<1> QED
  BY <1>6, <1>7

\* What was being adopted is with its supervisor, the only one that is installed.
LEMMA AdoptedKeeps == ASSUME Typed, Typed', Sane, Adopted PROVE Sane'
<1> USE DEF world
<1>1. /\ OneDefinition /\ AtWork /\ Unstarted /\ ToAdopt /\ ToHandOver /\ Reaping /\ FiledRight
      /\ Asked /\ InHand /\ TypeOK
  BY DEF Sane, Typed
<1>2. /\ phase = "marking" /\ phase' = "adopting" /\ adopting \in Handover
      /\ adopting.name \in Names /\ adopting.pid \in Pids
      /\ UNCHANGED <<reg, world, reaper, pending, carry, toLoad, op, manifest>>
  BY <1>1 DEF Adopted, InHand, Handover
<1>3. PICK s \in Sups :
        /\ Spare(s) /\ Becomes(s, "top", adopting.name, adopting.pid, None)
        /\ fsups' = [fsups EXCEPT ![adopting.name] = s]
  BY <1>1, <1>2, OtherSteps
<1>4. /\ sup'[s].pid = adopting.pid /\ sup'[s].at = "top" /\ sup'[s].name = adopting.name
      /\ \A t \in Sups : t # s => sup'[t] = sup[t]
  BY <1>3 DEF Becomes
<1>5. Installed = {} /\ op.at = "idle" /\ Defined(adopting.name)
      /\ (Live(adopting.pid) => adopting.pid \in held)
  BY <1>1, <1>2 DEF ToAdopt, Asked, Serving
<1>6. \A n \in Names : fsups[n] = None
  BY <1>5, InstalledAre
<1>7. \A n \in Names : fsups'[n] = IF n = adopting.name THEN s ELSE None
  BY <1>1, <1>3, <1>6 DEF TypeOK
<1>8. Installed' = {s}
  <2>1. s # None
    BY RecoveryAssumption
  <2> QED
    BY <1>2, <1>7, <2>1 DEF Installed
<1>9. OneDefinition'
  BY <1>1, <1>2 DEF OneDefinition, Defined, Renaming
<1>10. Placed'
  BY <1>2, <1>4, <1>5, <1>7 DEF Placed, Here, Defined, Early, Late
<1>11. AtWork'
  <2> SUFFICES ASSUME NEW t \in Sups
               PROVE  /\ t \notin {s} => sup'[t].at \in {"idle", "done"}
                      /\ sup'[t].at \in {"idle", "deciding", "done"} => sup'[t].pid = None
                      /\ sup'[t].pid # None => (Live(sup'[t].pid) => sup'[t].pid \in held)
                      /\ sup'[t].at \in Having => sup'[t].pid # None
                      /\ sup'[t].at = "dropping" => ~Live(sup'[t].pid)
    BY <1>2, <1>8 DEF AtWork, Live
  <2>1. CASE t = s
    BY <1>4, <1>5, <2>1 DEF Having
  <2>2. CASE t # s
    BY <1>1, <1>4, <1>5, <2>2 DEF AtWork
  <2> QED
    BY <2>1, <2>2
<1>12. Reaping' /\ ToHandOver'
  BY <1>1, <1>2 DEF Reaping, ToHandOver, Live
<1>13. Unstarted'
  <2>1. \A p \in Pids, t \in Sups : sup'[t].pid = p => sup[t].pid = p \/ p = adopting.pid
    BY <1>4
  <2> QED
    BY <1>1, <1>2, <2>1 DEF Unstarted, Filed
<1>14. ToAdopt'
  BY <1>1, <1>2 DEF ToAdopt, Live, Defined
<1>15. FiledRight'
  BY <1>1, <1>2 DEF FiledRight, FiledUnder, Here, Defined, Live
<1>16. Copies' = Copies
  BY <1>2 DEF Copies, Filed, Live
<1>17. \A p \in Copies : Supervised(p)'
  <2>1. \A p \in Copies : p = adopting.pid
    BY <1>2, <1>6 DEF Sane, Accounted, Supervised, OnItsWay
  <2>2. s # None
    BY RecoveryAssumption
  <2> QED
    BY <1>2, <1>4, <1>7, <2>1, <2>2 DEF Supervised
<1>18. Accounted' /\ One'
  BY <1>16, <1>17, StillAccounted
<1> QED
  BY <1>9, <1>10, <1>11, <1>12, <1>13, <1>14, <1>15, <1>18 DEF Sane

\* A definition gets a supervisor when it has none, or none that is at work: no
\* copy is looked after by the one it replaces.
LEMMA LoadKeeps == ASSUME Typed, Typed', Sane, NEW n \in Names, Load(n) PROVE Sane'
<1> USE DEF world
<1>1. /\ OneDefinition /\ Placed /\ AtWork /\ Unstarted /\ ToAdopt /\ ToHandOver /\ Reaping
      /\ FiledRight /\ Asked /\ InHand /\ TypeOK
  BY DEF Sane, Typed
<1>2. /\ phase = "loading" /\ n \in toLoad
      /\ UNCHANGED <<reg, world, orphan, reaper, phase, pending, carry, adopting, op, manifest>>
  BY DEF Load
<1>3. op.at = "idle" /\ Defined(n) /\ carry = {} /\ pending = {}
  BY <1>1, <1>2 DEF Asked, Serving, InHand, ToAdopt, Defined
<1>4. Reaping' /\ ToHandOver'
  BY <1>1, <1>2 DEF Reaping, ToHandOver, Live
<1>5. ToAdopt'
  BY <1>2, <1>3 DEF ToAdopt
<1>6. CASE UNCHANGED <<sup, fsups>>
  <2>1. Unstarted'
    BY <1>1, <1>2, <1>6 DEF Unstarted, Filed
  <2>2. \A p \in Copies : OnItsWay(p) => OnItsWay(p)'
    BY <1>2 DEF OnItsWay
  <2> QED
    BY <1>2, <1>4, <1>5, <1>6, <2>1, <2>2, StandingKeeps
<1>7. CASE ~UNCHANGED <<sup, fsups>>
  <2>1. fsups[n] = None \/ sup[fsups[n]].at = "done"
    BY <1>1, <1>7, OtherSteps
  <2>2. PICK s \in Sups, at \in {"top", "idle"} :
          Spare(s) /\ Becomes(s, at, n, None, None) /\ fsups' = [fsups EXCEPT ![n] = s]
    BY <1>1, <1>7, OtherSteps
  <2>3. /\ sup'[s].pid = None /\ sup'[s].at = at /\ sup'[s].name = n
        /\ \A t \in Sups : t # s => sup'[t] = sup[t]
    BY <2>2 DEF Becomes
  <2>4. /\ \A m \in Names : fsups'[m] = IF m = n THEN s ELSE fsups[m]
        /\ \A m \in Names : fsups[m] # None => fsups[m] \in Sups /\ fsups[m] # s
    <3>1. fsups \in [Names -> Sups \cup {None}] /\ s # None
      BY <1>1, RecoveryAssumption DEF TypeOK
    <3> QED
      BY <2>2, <3>1, InstalledAre DEF Spare
  <2>5. sup[s].pid = None
    BY <1>1, <2>2 DEF Spare, AtWork
  <2>6. fsups[n] # None => sup[fsups[n]].pid = None
    BY <1>1, <2>1, <2>4 DEF AtWork
  <2>7. OneDefinition'
    BY <1>1, <1>2 DEF OneDefinition, Defined, Renaming
  <2>8. Placed'
    BY <1>1, <1>2, <1>3, <2>3, <2>4 DEF Placed, Here, Defined, Early, Late
  <2>9. AtWork'
    <3>1. \A t \in Sups : t \in Installed => t \in Installed' \/ sup[t].at = "done"
      BY <2>1, <2>4, InstalledAre DEF Installed
    <3>2. s \in Installed'
      BY <2>4, RecoveryAssumption DEF Installed
    <3> SUFFICES ASSUME NEW t \in Sups
                 PROVE  /\ t \notin Installed' => sup'[t].at \in {"idle", "done"}
                        /\ sup'[t].at \in {"idle", "deciding", "done"} => sup'[t].pid = None
                        /\ sup'[t].pid # None => (Live(sup'[t].pid) => sup'[t].pid \in held)
                        /\ sup'[t].at \in Having => sup'[t].pid # None
                        /\ sup'[t].at = "dropping" => ~Live(sup'[t].pid)
      BY <1>2 DEF AtWork, Live
    <3>3. CASE t = s
      BY <2>3, <3>2, <3>3 DEF Having
    <3>4. CASE t # s
      BY <1>1, <2>3, <3>1, <3>4 DEF AtWork
    <3> QED
      BY <3>3, <3>4
  <2>10. Unstarted'
    <3>1. \A p \in Pids, t \in Sups : sup'[t].pid = p => sup[t].pid = p
      BY <2>3, RecoveryAssumption
    <3> QED
      BY <1>1, <1>2, <3>1 DEF Unstarted, Filed
  <2>11. FiledRight'
    BY <1>1, <1>2 DEF FiledRight, FiledUnder, Here, Defined, Live
  <2>12. Copies' = Copies
    BY <1>2 DEF Copies, Filed, Live
  <2>13. ASSUME NEW p \in Copies PROVE Supervised(p)'
    <3>1. PICK m \in Names : fsups[m] # None /\ sup[fsups[m]].pid = p
      BY <1>2 DEF Sane, Accounted, Supervised, OnItsWay
    <3>2. m # n
      BY <2>6, <3>1, CopiesAre, RecoveryAssumption
    <3>3. fsups'[m] = fsups[m] /\ sup'[fsups[m]].pid = p
      BY <2>3, <2>4, <3>1, <3>2
    <3> QED
      BY <3>1, <3>3 DEF Supervised
  <2>14. Accounted' /\ One'
    BY <2>12, <2>13, StillAccounted
  <2> QED
    BY <1>4, <1>5, <2>7, <2>8, <2>9, <2>10, <2>11, <2>14 DEF Sane
<1> QED
  BY <1>6, <1>7

----------------------------------------------------------------------------
(* The invariant, and what follows from it. *)

LEMMA InitIInv == Init => IInv
<1> SUFFICES ASSUME Init PROVE IInv
  OBVIOUS
<1>1. PICK n \in Names : reg = [m \in Names |-> IF m = n THEN "enabled" ELSE "none"] /\ toLoad = {n}
  BY DEF Init
<1>2. /\ store = {} /\ proc = [p \in Pids |-> "unused"] /\ children = {} /\ held = {} /\ orphan = {}
      /\ reaper = [p \in Pids |-> "off"] /\ phase = "loading" /\ pending = {} /\ carry = {}
      /\ adopting = NoHandover /\ fsups = [m \in Names |-> None] /\ sup = [s \in Sups |-> Fresh]
      /\ op = NoOp /\ manifest = {} /\ odd = {}
      /\ count = [crashes |-> 0, upgrades |-> 0, renames |-> 0]
  BY DEF Init
<1>3. op.at = "idle" /\ (\A s \in Sups : sup[s].at = "idle" /\ sup[s].pid = None) /\ Installed = {}
  BY <1>2 DEF NoOp, Fresh, Installed
<1>4. TypeOK
  <2>1. /\ Fresh \in Sup
        /\ NoOp \in [at : {"idle", "added", "removed", "swapped", "renamed", "dropped",
                     "stopping", "stopped"},
               from : Names \cup {None}, to : Names \cup {None},
               sup : Sups \cup {None}, pid : Pids \cup {None}]
    BY DEF Fresh, NoOp, Sup
  <2>2. count \in [crashes : 0..MaxCrashes, upgrades : 0..MaxUpgrades, renames : 0..MaxRenames]
    BY <1>2, RecoveryAssumption
  <2> QED
    BY <1>1, <1>2, <2>1, <2>2 DEF TypeOK, Sup
<1>5. Told /\ Asked /\ InHand
  BY <1>1, <1>2, <1>3 DEF Told, Asked, InHand, Renaming, Early, Late
<1>6. OneDefinition /\ Placed
  BY <1>1, <1>2, <1>3 DEF OneDefinition, Placed, Defined, Renaming, Early, Late
<1>7. AtWork /\ Reaping
  BY <1>2, <1>3 DEF AtWork, Reaping, Having
<1>8. Unstarted
  BY <1>2, <1>3, RecoveryAssumption DEF Unstarted, Filed
<1>9. ToAdopt /\ ToHandOver /\ FiledRight
  BY <1>2, <1>3 DEF ToAdopt, ToHandOver, FiledRight
<1>10. Accounted /\ One
  BY <1>2 DEF Accounted, One, Copies, Filed
<1> QED
  BY <1>4, <1>5, <1>6, <1>7, <1>8, <1>9, <1>10 DEF IInv, Typed, Sane

LEMMA IInvKept == ASSUME IInv, [Next]_vars PROVE IInv'
<1>1. Typed /\ Typed'
  BY TypedKept DEF IInv
<1>2. ASSUME odd' = {} PROVE Sane'
  <2>1. Sane
    BY <1>2, OddGrows DEF IInv
  <2>2. CASE UNCHANGED vars
    <3>1. /\ Reaping' /\ Unstarted' /\ ToAdopt' /\ ToHandOver'
          /\ \A p \in Copies : OnItsWay(p) => OnItsWay(p)'
      BY <2>1, <2>2 DEF vars, Sane, Reaping, Unstarted, ToAdopt, ToHandOver, OnItsWay, Live, Filed,
         Defined, Installed
    <3> QED
      BY <1>1, <2>1, <2>2, <3>1, StandingKeeps DEF vars
  <2>3. CASE (\E p \in Pids : Exit(p) \/ Choose(p) \/ Reaped(p)) \/ \E e \in Entry : StoreDrops(e)
    BY <1>1, <1>2, <2>1, <2>3, WorldKeeps
  <2>4. CASE \E s \in Sups : Loop(s)
    BY <1>1, <1>2, <2>1, <2>4, LoopKeeps
  <2>5. CASE Request
    BY <1>1, <1>2, <2>1, <2>5, DefinitionMoves, SwapKeeps, RenameSupervisorKeeps, RefilingKeeps,
       StopKeeps DEF Request
  <2>6. CASE Boot
    BY <1>1, <2>1, <2>6, RecoverKeeps, PhasesKeep, AdoptKeeps, AdoptedKeeps, LoadKeeps DEF Boot
  <2>7. CASE Prepare \/ ExecFails
    BY <1>1, <2>1, <2>7, PreparingKeeps
  <2>8. CASE Exec \/ Crash
    BY <1>1, <1>2, <2>1, <2>8, ExecKeeps, CrashKeeps
  <2> QED
    BY <2>2, <2>3, <2>4, <2>5, <2>6, <2>7, <2>8 DEF Next
<1> QED
  BY <1>1, <1>2 DEF IInv

LEMMA Inductive == Spec => []IInv
<1>1. Init => IInv
  BY InitIInv
<1>2. IInv /\ [Next]_vars => IInv'
  BY IInvKept
<1> QED
  BY <1>1, <1>2, PTL DEF Spec

\* Whatever the daemon's death, its upgrade or a rename interrupts, every variable keeps to
\* its type.
THEOREM Typing == Spec => []TypeOK
<1>1. IInv => TypeOK
  BY DEF IInv, Typed
<1> QED
  BY <1>1, Inductive, PTL

\* A service that is already running is never started twice, however often the
\* daemon dies or execs and whatever the names are in the meantime: AdoptAll
\* comes before Load, and a terminal is filed under the name its definition has.
\* Not so after one of the ways odd names, the rename whose undo failed too among them.
THEOREM OneCopyAlways == Spec => []OneCopy
<1>1. IInv => OneCopy
  BY DEF IInv, Sane, One, OneCopy
<1> QED
  BY <1>1, Inductive, PTL

\* Once the daemon serves, what runs is looked after by an installed supervisor:
\* of what systemd or the manifest handed over nothing was left behind by
\* RecoveredPTYs, AdoptAll and Load, nor by a rename since.
THEOREM NoneLostAlways == Spec => []NoneLost
<1>1. IInv => NoneLost
  <2> SUFFICES ASSUME IInv, odd = {}, Serving, NEW p \in Copies
               PROVE  \E s \in Installed : sup[s].pid = p
    BY DEF NoneLost
  <2> QED
    BY ServedIsHeld, InstalledAre DEF IInv
<1> QED
  BY <1>1, Inductive, PTL

\* No step takes the last descriptor of a live process's terminal away, but the
\* death of a daemon that had not filed it yet: not the exec (everything it
\* supervises is in the manifest), not RecoveredPTYs, not a rename between
\* dropping the old entry and filing the new one, not a reaper.
THEOREM KeepsTerminalAlways == Spec => KeepsTerminal
<1> DEFINE Kept == odd' = {} => \A p \in Copies : proc'[p] = "live" =>
                     p \in Copies' \/ (~Filed(p) /\ count'.crashes > count.crashes)
<1>1. IInv /\ [Next]_vars => [Kept]_vars
  <2> USE DEF world, boot
  <2> SUFFICES ASSUME IInv, Next, odd' = {}, NEW p \in Copies, proc'[p] = "live"
               PROVE  p \in Copies' \/ (~Filed(p) /\ count'.crashes > count.crashes)
    BY DEF vars
  <2>1. Typed /\ Sane /\ p \in Pids /\ Live(p) /\ (p \in held \/ Filed(p))
    BY OddGrows, CopiesAre DEF IInv
  <2>2. (p \in held' \/ Filed(p)') => p \in Copies'
    BY <2>1 DEF Copies, Live
  <2>3. ASSUME held \subseteq held' /\ store \subseteq store' PROVE p \in Copies'
    BY <2>1, <2>2, <2>3 DEF Filed
  <2>4. ASSUME \A n \in Names : <<n, p>> \in store => <<n, p>> \in store', p \in held => p \in held'
        PROVE  p \in Copies'
    BY <2>1, <2>2, <2>4 DEF Filed
  <2>5. CASE Request
    <3>1. Serving
      BY <2>1, <2>5 DEF Request, RenameAdd, RenameRemove, RenameSwap, RenameSupervisor, RenameDrop,
         RenameFile, StopDisable, StopCancel, StopWaited, Typed, Asked
    <3>2. held' = held
      BY <2>5 DEF Request, RenameAdd, RenameRemove, RenameSwap, RenameSupervisor, RenameDrop,
         RenameFile, StopDisable, StopCancel, StopWaited
    <3> QED
      BY <2>1, <2>2, <3>1, <3>2, ServedIsHeld
  <2>6. CASE Exec
    <3>1. Serving
      BY <2>6 DEF Exec, Serving
    <3>2. PICK n \in Names : fsups[n] # None /\ sup[fsups[n]].pid = p
      BY <2>1, <3>1, ServedIsHeld
    <3> DEFINE e == <<n, p>>
    <3>3. e \in Entry /\ e[1] = n /\ e[2] = p
      BY <2>1 DEF Entry
    <3> HIDE DEF e
    <3>4. e \in manifest
      BY <2>6, <3>2, <3>3 DEF Exec
    <3>5. p \in held'
      BY <2>6, <3>3, <3>4 DEF Exec
    <3> QED
      BY <2>2, <3>5
  <2>7. CASE Crash
    <3>1. count'.crashes > count.crashes
      <4>1. count' = [count EXCEPT !.crashes = @ + 1]
        BY <2>7 DEF Crash
      <4>2. count \in [crashes : 0..MaxCrashes, upgrades : 0..MaxUpgrades, renames : 0..MaxRenames]
            /\ MaxCrashes \in Nat
        BY <2>1, RecoveryAssumption DEF Typed, TypeOK
      <4> QED
        BY <4>1, <4>2
    <3>2. store' = store
      BY <2>7 DEF Crash
    <3> QED
      BY <2>2, <3>1, <3>2 DEF Filed
  <2>8. CASE \E q \in Pids : Exit(q) \/ Choose(q) \/ Reaped(q)
    <3>1. PICK q \in Pids : Exit(q) \/ Choose(q) \/ Reaped(q)
      BY <2>8
    <3>2. store' = store
      BY <3>1 DEF Exit, Choose, Reaped
    <3>3. CASE Exit(q) \/ Choose(q)
      BY <2>3, <3>2, <3>3 DEF Exit, Choose
    <3>4. CASE Reaped(q)
      <4>1. q # p
        BY <2>1, <3>4 DEF Reaped, Sane, Reaping
      <4> QED
        BY <2>4, <3>2, <3>4, <4>1 DEF Reaped
    <3> QED
      BY <3>1, <3>3, <3>4
  <2>9. CASE \E e \in Entry : StoreDrops(e)
    <3>1. PICK e \in Entry : StoreDrops(e)
      BY <2>9
    <3>2. \A n : e = <<n, p>> => e[2] = p
      OBVIOUS
    <3> QED
      BY <2>1, <2>4, <3>1, <3>2 DEF StoreDrops
  <2>10. CASE \E s \in Sups : Loop(s)
    <3>1. PICK s \in Sups : Loop(s)
      BY <2>10
    <3>2. CASE Drop(s)
      <4>1. ~Live(sup[s].pid)
        BY <2>1, <3>2 DEF Drop, Sane, AtWork
      <4>2. \A n : <<n, p>> = <<sup[s].as, sup[s].pid>> => p = sup[s].pid
        OBVIOUS
      <4> QED
        BY <2>1, <2>4, <3>2, <4>1, <4>2 DEF Drop
    <3>3. CASE ~Drop(s)
      BY <2>3, <3>1, <3>3 DEF Loop, Take, SpawnFails, TopCancelled, SetCurrent, ReadName, File,
         LetGo, Decide, StoreWith
    <3> QED
      BY <3>2, <3>3
  <2>11. CASE Boot
    <3>1. CASE \E e \in Entry : Recover(e)
      <4>1. PICK e \in Entry : Recover(e)
        BY <3>1
      <4>2. \A n : e = <<n, p>> => e[2] = p
        OBVIOUS
      <4> QED
        BY <2>1, <2>4, <4>1, <4>2 DEF Recover
    <3>2. CASE ~\E e \in Entry : Recover(e)
      BY <2>3, <2>11, <3>2 DEF Boot, Recovered, Adopt, Adopted, AdoptedAll, Load, Loaded
    <3> QED
      BY <3>1, <3>2
  <2>12. CASE Prepare \/ ExecFails
    BY <2>3, <2>12 DEF Prepare, ExecFails
  <2> QED
    BY <2>5, <2>6, <2>7, <2>8, <2>9, <2>10, <2>11, <2>12 DEF Next
<1>2. Spec => [][Kept]_vars
  BY <1>1, Inductive, PTL DEF Spec
<1> QED
  BY <1>2 DEF KeepsTerminal
=============================================================================
