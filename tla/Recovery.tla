------------------------------ MODULE Recovery ------------------------------
(***************************************************************************)
(* A service over the death of the daemon and over its upgrade.  The        *)
(* service's process outlives both; what the next daemon goes by is         *)
(* systemd's store of terminals, filed under name and pid, or the manifest  *)
(* of an upgrade, and the definitions on disk.                              *)
(*                                                                         *)
(* Modelled: the start-up of cmd/gozellijd/main.go (RecoveredPTYs,          *)
(* AdoptAll, Load); the supervision loop as far as it takes, files and      *)
(* drops terminals; the goroutine that reaps a process; Rename and Stop;    *)
(* PrepareHandover and the exec.  Every pid stands for a copy of the one    *)
(* service.  A pid is not used again while the store may name it, and a     *)
(* process that no descriptor of its terminal is left of is hung up, so     *)
(* that it is no copy any more whether or not it has exited.                *)
(***************************************************************************)
EXTENDS Naturals, FiniteSets

CONSTANTS Names,       \* names the service may have
          Pids,        \* processes started in a behaviour: a bound
          Sups,        \* supervisors in memory at a time
          None,        \* no process, no supervisor, no name
          MaxCrashes,  \* bound: deaths of the daemon
          MaxUpgrades, \* bound: execs
          MaxRenames   \* bound: renames begun

ASSUME RecoveryAssumption ==
    /\ None \notin Names /\ None \notin Pids /\ None \notin Sups
    /\ MaxCrashes \in Nat /\ MaxUpgrades \in Nat /\ MaxRenames \in Nat

VARIABLES
    reg,       \* definitions on disk: "none", "enabled" or "disabled", by name
    store,     \* terminals systemd holds, each under <<name, pid>>
    proc,      \* "unused", "live" or "gone", by pid
    children,  \* pids this daemon is the parent of
    held,      \* pids whose terminal it has open
    orphan,    \* Process.orphan is set
    reaper,    \* pc of Process.reap: "off", "choosing", "orphan", "child", "done"
    phase,     \* pc of the daemon's main goroutine
    pending,   \* PendingFDs: what systemd handed back
    carry,     \* handovers still to adopt
    adopting,  \* the one being adopted
    toLoad,    \* definitions Load has yet to look at
    fsups,     \* Fabric.sups, by name
    sup,       \* the supervisors
    op,        \* the rename or stop being served, under the lifecycle locks
    manifest,  \* what an upgrade under way will hand over
    odd,       \* history: departures from what the comments promise
    count      \* history: crashes, upgrades and renames so far

world == <<store, proc, children, held>>
boot == <<phase, pending, carry, adopting, toLoad>>
vars == <<reg, store, proc, children, held, orphan, reaper, phase, pending, carry, adopting,
          toLoad, fsups, sup, op, manifest, odd, count>>

Entry == Names \X Pids
Handover == [name : Names, pid : Pids, orphan : BOOLEAN]
NoHandover == [name |-> None, pid |-> None, orphan |-> FALSE]

\* at is the pc of run; pid its process, adopted or current; as the name read
\* for the store.
Fresh == [at |-> "idle", name |-> None, pid |-> None, as |-> None, cancel |-> FALSE]

NoOp == [at |-> "idle", from |-> None, to |-> None, sup |-> None, pid |-> None]

TypeOK ==
    /\ reg \in [Names -> {"none", "enabled", "disabled"}]
    /\ store \subseteq Entry
    /\ proc \in [Pids -> {"unused", "live", "gone"}]
    /\ children \subseteq Pids /\ held \subseteq Pids /\ orphan \subseteq Pids
    /\ reaper \in [Pids -> {"off", "choosing", "orphan", "child", "done"}]
    /\ phase \in {"taking", "adopting", "marking", "loading", "up", "upgrading"}
    /\ pending \subseteq Entry
    /\ carry \subseteq Handover
    /\ adopting \in Handover \cup {NoHandover}
    /\ toLoad \subseteq Names
    /\ fsups \in [Names -> Sups \cup {None}]
    /\ sup \in [Sups -> [at : {"idle", "top", "spawned", "current", "named", "waiting",
                               "dropping", "deciding", "done"},
                         name : Names \cup {None}, pid : Pids \cup {None},
                         as : Names \cup {None}, cancel : BOOLEAN]]
    /\ op \in [at : {"idle", "added", "removed", "swapped", "renamed", "dropped",
                     "stopping", "stopped"},
               from : Names \cup {None}, to : Names \cup {None},
               sup : Sups \cup {None}, pid : Pids \cup {None}]
    /\ manifest \subseteq Entry
    /\ odd \subseteq {"rename cut short", "rename left twice", "filed late", "old manifest",
                      "waited as child", "stopped untaken"}
    /\ count \in [crashes : 0..MaxCrashes, upgrades : 0..MaxUpgrades, renames : 0..MaxRenames]

\* A daemon starting for the first time, with one definition on disk.
Init ==
    /\ \E n \in Names : /\ reg = [m \in Names |-> IF m = n THEN "enabled" ELSE "none"]
                        /\ toLoad = {n}
    /\ store = {} /\ proc = [p \in Pids |-> "unused"]
    /\ children = {} /\ held = {} /\ orphan = {}
    /\ reaper = [p \in Pids |-> "off"]
    /\ phase = "loading" /\ pending = {} /\ carry = {} /\ adopting = NoHandover
    /\ fsups = [n \in Names |-> None] /\ sup = [s \in Sups |-> Fresh]
    /\ op = NoOp /\ manifest = {} /\ odd = {}
    /\ count = [crashes |-> 0, upgrades |-> 0, renames |-> 0]

----------------------------------------------------------------------------
(* Processes and their terminals. *)

Live(p) == proc[p] = "live"

Filed(p) == \E n \in Names : <<n, p>> \in store

\* A process the service's users can still reach.
Copies == {p \in Pids : Live(p) /\ (p \in held \/ Filed(p))}

Exit(p) ==
    /\ Live(p)
    /\ proc' = [proc EXCEPT ![p] = "gone"]
    /\ UNCHANGED <<reg, store, children, held, orphan, reaper, boot, fsups, sup, op, manifest,
                   odd, count>>

\* systemd drops what has hung up.
StoreDrops(e) ==
    /\ e \in store /\ ~Live(e[2])
    /\ store' = store \ {e}
    /\ UNCHANGED <<reg, proc, children, held, orphan, reaper, boot, fsups, sup, op, manifest,
                   odd, count>>

\* Mutant: every adopted process is waited for as a child.
ChooseChild(p) ==
    /\ reaper[p] = "choosing"
    /\ reaper' = [reaper EXCEPT ![p] = "child"]
    /\ odd' = odd \cup (IF p \in orphan \cup children THEN {} ELSE {"waited as child"})
    /\ UNCHANGED <<reg, world, orphan, boot, fsups, sup, op, manifest, count>>

\* The reaper picks its wait by a mark AdoptOrphan sets after starting it ...
Choose(p) ==
    /\ reaper[p] = "choosing"
    /\ reaper' = [reaper EXCEPT ![p] = IF p \in orphan THEN "orphan" ELSE "child"]
    /\ odd' = odd \cup (IF p \in orphan \cup children THEN {} ELSE {"waited as child"})
    /\ UNCHANGED <<reg, world, orphan, boot, fsups, sup, op, manifest, count>>

\* ... and waiting for a process that is no child returns at once.  The exit is
\* recorded and the terminal closed.
Reaped(p) ==
    /\ reaper[p] \in {"orphan", "child"}
    /\ ~Live(p) \/ (reaper[p] = "child" /\ p \notin children)
    /\ reaper' = [reaper EXCEPT ![p] = "done"]
    /\ held' = held \ {p}
    /\ UNCHANGED <<reg, store, proc, children, orphan, boot, fsups, sup, op, manifest, odd,
                   count>>

----------------------------------------------------------------------------
(* The supervision loop. *)

Goto(s, where) == sup' = [sup EXCEPT ![s].at = where]

\* StorePTY: a terminal that is closed by now cannot be sent.
StoreWith(n, p) == IF p \in held THEN store \cup {<<n, p>>} ELSE store

\* An adopted process is supervised as it is; otherwise one is started.
Take(s) ==
    /\ sup[s].at = "top" /\ ~sup[s].cancel
    /\ IF sup[s].pid # None
       THEN /\ Goto(s, "spawned")
            /\ UNCHANGED <<proc, children, held, reaper>>
       ELSE \E p \in Pids :
              /\ proc[p] = "unused"
              /\ proc' = [proc EXCEPT ![p] = "live"]
              /\ children' = children \cup {p}
              /\ held' = held \cup {p}
              /\ reaper' = [reaper EXCEPT ![p] = "child"]
              /\ sup' = [sup EXCEPT ![s].at = "spawned", ![s].pid = p]
    /\ UNCHANGED <<reg, store, orphan, boot, fsups, op, manifest, odd, count>>

SpawnFails(s) ==
    /\ sup[s].at = "top" /\ sup[s].pid = None
    /\ Goto(s, "done")
    /\ UNCHANGED <<reg, world, orphan, reaper, boot, fsups, op, manifest, odd, count>>

\* Cancelled before the first look: a process it was to adopt is left alone.
TopCancelled(s) ==
    /\ sup[s].at = "top" /\ sup[s].cancel
    /\ Goto(s, "done")
    /\ odd' = odd \cup (IF sup[s].pid = None THEN {} ELSE {"stopped untaken"})
    /\ UNCHANGED <<reg, world, orphan, reaper, boot, fsups, op, manifest, count>>

SetCurrent(s) ==
    /\ sup[s].at = "spawned"
    /\ Goto(s, "current")
    /\ UNCHANGED <<reg, world, orphan, reaper, boot, fsups, op, manifest, odd, count>>

\* OnRunning is given the name the supervisor has now ...
ReadName(s) ==
    /\ sup[s].at = "current"
    /\ sup' = [sup EXCEPT ![s].at = "named", ![s].as = sup[s].name]
    /\ UNCHANGED <<reg, world, orphan, reaper, boot, fsups, op, manifest, odd, count>>

\* ... and files the terminal under it, which may not be the name any more.
File(s) ==
    /\ sup[s].at = "named"
    /\ store' = StoreWith(sup[s].as, sup[s].pid)
    /\ odd' = odd \cup (IF sup[s].as = sup[s].name THEN {} ELSE {"filed late"})
    /\ sup' = [sup EXCEPT ![s].at = "waiting", ![s].as = None]
    /\ UNCHANGED <<reg, proc, children, held, orphan, reaper, boot, fsups, op, manifest,
                   count>>

\* The process is let go of and the name read under one lock.
LetGo(s) ==
    /\ sup[s].at = "waiting" /\ reaper[sup[s].pid] = "done"
    /\ sup' = [sup EXCEPT ![s].at = "dropping", ![s].as = sup[s].name]
    /\ UNCHANGED <<reg, world, orphan, reaper, boot, fsups, op, manifest, odd, count>>

\* OnEnded: systemd is told to let the terminal go.
Drop(s) ==
    /\ sup[s].at = "dropping"
    /\ store' = store \ {<<sup[s].as, sup[s].pid>>}
    /\ sup' = [sup EXCEPT ![s].at = "deciding", ![s].pid = None, ![s].as = None]
    /\ UNCHANGED <<reg, proc, children, held, orphan, reaper, boot, fsups, op, manifest, odd,
                   count>>

\* Whatever its policy says of the exit; a stop is the end.
Decide(s) ==
    /\ sup[s].at = "deciding"
    /\ \E next \in {"top", "done"} : Goto(s, next)
    /\ UNCHANGED <<reg, world, orphan, reaper, boot, fsups, op, manifest, odd, count>>

Loop(s) ==
    \/ Take(s) \/ SpawnFails(s) \/ TopCancelled(s) \/ SetCurrent(s) \/ ReadName(s) \/ File(s)
    \/ LetGo(s) \/ Drop(s) \/ Decide(s)

----------------------------------------------------------------------------
(* Requests, one at a time: both names' locks are held throughout. *)

Installed == {fsups[n] : n \in Names} \ {None}

\* Supervisor.cur.
Current(s) == IF sup[s].at \in {"current", "named", "waiting"} THEN sup[s].pid ELSE None

Idle == op.at = "idle"

Serving == phase \in {"up", "upgrading"}

\* The definition is written under the new name, which refuses one that is taken.
RenameAdd(from, to) ==
    /\ Serving /\ Idle /\ count.renames < MaxRenames
    /\ fsups[from] # None /\ fsups[to] = None
    /\ reg[from] # "none" /\ reg[to] = "none"
    /\ reg' = [reg EXCEPT ![to] = reg[from]]
    /\ op' = [NoOp EXCEPT !.at = "added", !.from = from, !.to = to]
    /\ count' = [count EXCEPT !.renames = @ + 1]
    /\ UNCHANGED <<world, orphan, reaper, boot, fsups, sup, manifest, odd>>

\* The old file goes, or else the new one does again; whether that one went is
\* not looked at.
RenameRemove ==
    /\ op.at = "added"
    /\ \/ /\ reg' = [reg EXCEPT ![op.from] = "none"]
          /\ op' = [op EXCEPT !.at = "removed"]
          /\ UNCHANGED odd
       \/ /\ op' = NoOp
          /\ \/ reg' = [reg EXCEPT ![op.to] = "none"] /\ UNCHANGED odd
             \/ odd' = odd \cup {"rename left twice"} /\ UNCHANGED reg
    /\ UNCHANGED <<world, orphan, reaper, boot, fsups, sup, manifest, count>>

RenameSwap ==
    /\ op.at = "removed"
    /\ fsups' = [fsups EXCEPT ![op.from] = None, ![op.to] = fsups[op.from]]
    /\ op' = [op EXCEPT !.at = "swapped", !.sup = fsups[op.from]]
    /\ UNCHANGED <<reg, world, orphan, reaper, boot, sup, manifest, odd, count>>

\* Supervisor.rename: the name, and the process to file again, under one lock.
\* One that is adopted and not yet taken by the loop is not seen.
RenameSupervisor ==
    /\ op.at = "swapped"
    /\ odd' = odd \cup (IF sup[op.sup].at \in {"top", "spawned"}
                           /\ <<op.from, sup[op.sup].pid>> \in store
                        THEN {"filed late"} ELSE {})
    /\ sup' = [sup EXCEPT ![op.sup].name = op.to]
    /\ op' = IF Current(op.sup) = None THEN NoOp
             ELSE [op EXCEPT !.at = "renamed", !.pid = Current(op.sup)]
    /\ UNCHANGED <<reg, world, orphan, reaper, boot, fsups, manifest, count>>

RenameDrop ==
    /\ op.at = "renamed"
    /\ store' = store \ {<<op.from, op.pid>>}
    /\ op' = [op EXCEPT !.at = "dropped"]
    /\ UNCHANGED <<reg, proc, children, held, orphan, reaper, boot, fsups, sup, manifest, odd,
                   count>>

RenameFile ==
    /\ op.at = "dropped"
    /\ store' = StoreWith(op.to, op.pid)
    /\ op' = NoOp
    /\ UNCHANGED <<reg, proc, children, held, orphan, reaper, boot, fsups, sup, manifest, odd,
                   count>>

\* Stop records that the service is to be down ...
StopDisable(n) ==
    /\ Serving /\ Idle
    /\ fsups[n] # None /\ reg[n] # "none"
    /\ reg' = [reg EXCEPT ![n] = "disabled"]
    /\ op' = [NoOp EXCEPT !.at = "stopping", !.sup = fsups[n]]
    /\ UNCHANGED <<world, orphan, reaper, boot, fsups, sup, manifest, odd, count>>

\* ... cancels the loop, if it was ever started; the process dies when it will ...
StopCancel ==
    /\ op.at = "stopping"
    /\ IF sup[op.sup].at = "idle"
       THEN op' = NoOp /\ UNCHANGED sup
       ELSE /\ sup' = [sup EXCEPT ![op.sup].cancel = TRUE]
            /\ op' = [op EXCEPT !.at = "stopped"]
    /\ UNCHANGED <<reg, world, orphan, reaper, boot, fsups, manifest, odd, count>>

\* ... and waits for it.
StopWaited ==
    /\ op.at = "stopped" /\ sup[op.sup].at = "done"
    /\ op' = NoOp
    /\ UNCHANGED <<reg, world, orphan, reaper, boot, fsups, sup, manifest, odd, count>>

Request ==
    \/ \E from, to \in Names : RenameAdd(from, to)
    \/ RenameRemove \/ RenameSwap \/ RenameSupervisor \/ RenameDrop \/ RenameFile
    \/ \E n \in Names : StopDisable(n)
    \/ StopCancel \/ StopWaited

----------------------------------------------------------------------------
(* The end of a daemon. *)

\* What a daemon that is replaced forgets.
Forget ==
    /\ sup' = [s \in Sups |-> Fresh]
    /\ fsups' = [n \in Names |-> None]
    /\ orphan' = {}
    /\ reaper' = [p \in Pids |-> "off"]
    /\ op' = NoOp
    /\ manifest' = {}
    /\ adopting' = NoHandover
    /\ toLoad' = {}

CutShort == IF op.at \in {"added", "removed", "swapped", "renamed", "dropped"}
            THEN {"rename cut short"} ELSE {}

\* It dies, and systemd starts another, handing back what it holds.
Crash ==
    /\ count.crashes < MaxCrashes
    /\ count' = [count EXCEPT !.crashes = @ + 1]
    /\ odd' = odd \cup CutShort
    /\ children' = {} /\ held' = {}
    /\ phase' = "taking" /\ pending' = store /\ carry' = {}
    /\ Forget
    /\ UNCHANGED <<reg, store, proc>>

\* Fabric.Handovers.
Handovers ==
    {e \in Entry : /\ fsups[e[1]] # None
                   /\ e[2] = Current(fsups[e[1]]) /\ e[2] \in held}

\* PrepareHandover.  Requests and loops go on between this and the exec.
Prepare ==
    /\ phase = "up" /\ count.upgrades < MaxUpgrades
    /\ phase' = "upgrading"
    /\ manifest' = Handovers
    /\ UNCHANGED <<reg, world, orphan, reaper, pending, carry, adopting, toLoad, fsups, sup,
                   op, odd, count>>

\* An exec that fails leaves the daemon serving as before.
ExecFails ==
    /\ phase = "upgrading"
    /\ phase' = "up"
    /\ manifest' = {}
    /\ UNCHANGED <<reg, world, orphan, reaper, pending, carry, adopting, toLoad, fsups, sup,
                   op, odd, count>>

\* The same process with another image: its children are its own still, and of
\* the terminals those of the manifest are open.
Exec ==
    /\ phase = "upgrading"
    /\ count' = [count EXCEPT !.upgrades = @ + 1]
    /\ odd' = odd \cup CutShort
                  \cup (IF {e \in Entry : e[2] \in Copies /\ fsups[e[1]] # None
                                          /\ sup[fsups[e[1]]].pid = e[2]} \subseteq manifest
                        THEN {} ELSE {"old manifest"})
    /\ held' = {e[2] : e \in manifest}
    /\ phase' = "adopting" /\ pending' = {}
    /\ carry' = {[name |-> e[1], pid |-> e[2], orphan |-> FALSE] : e \in manifest}
    /\ Forget
    /\ UNCHANGED <<reg, store, proc, children>>

----------------------------------------------------------------------------
(* The next daemon's start. *)

\* RecoveredPTYs: a terminal whose process has gone is closed and dropped.
Recover(e) ==
    /\ phase = "taking" /\ e \in pending
    /\ pending' = pending \ {e}
    /\ IF Live(e[2])
       THEN /\ carry' = carry \cup {[name |-> e[1], pid |-> e[2], orphan |-> TRUE]}
            /\ held' = held \cup {e[2]}
            /\ UNCHANGED store
       ELSE /\ store' = store \ {e}
            /\ UNCHANGED <<carry, held>>
    /\ UNCHANGED <<reg, proc, children, orphan, reaper, phase, adopting, toLoad, fsups, sup,
                   op, manifest, odd, count>>

Recovered ==
    /\ phase = "taking" /\ pending = {}
    /\ phase' = "adopting"
    /\ UNCHANGED <<reg, world, orphan, reaper, pending, carry, adopting, toLoad, fsups, sup,
                   op, manifest, odd, count>>

\* AdoptAll passes over what has no definition or no process any more.
Adopt(h) ==
    /\ phase = "adopting" /\ h \in carry
    /\ carry' = carry \ {h}
    /\ IF reg[h.name] = "none" \/ ~Live(h.pid)
       THEN UNCHANGED <<reaper, adopting, phase>>
       ELSE /\ reaper' = [reaper EXCEPT ![h.pid] = "choosing"]
            /\ adopting' = h
            /\ phase' = "marking"
    /\ UNCHANGED <<reg, world, orphan, pending, toLoad, fsups, sup, op, manifest, odd, count>>

Spare(s) == sup[s].at \in {"idle", "done"} /\ s \notin Installed

\* Mutant: the supervisor is not told of the process it adopts.
AdoptedUntold ==
    /\ phase = "marking"
    /\ phase' = "adopting" /\ adopting' = NoHandover
    /\ orphan' = IF adopting.orphan THEN orphan \cup {adopting.pid} ELSE orphan
    /\ \E s \in Sups :
         /\ Spare(s)
         /\ sup' = [sup EXCEPT ![s] = [Fresh EXCEPT !.at = "top", !.name = adopting.name]]
         /\ fsups' = [fsups EXCEPT ![adopting.name] = s]
    /\ UNCHANGED <<reg, world, reaper, pending, carry, toLoad, op, manifest, odd, count>>

\* AdoptOrphan's mark, AdoptRunning, and the loop is started.
Adopted ==
    /\ phase = "marking"
    /\ phase' = "adopting" /\ adopting' = NoHandover
    /\ orphan' = IF adopting.orphan THEN orphan \cup {adopting.pid} ELSE orphan
    /\ \E s \in Sups :
         /\ Spare(s)
         /\ sup' = [sup EXCEPT ![s] = [Fresh EXCEPT !.at = "top", !.name = adopting.name,
                                                    !.pid = adopting.pid]]
         /\ fsups' = [fsups EXCEPT ![adopting.name] = s]
    /\ UNCHANGED <<reg, world, reaper, pending, carry, toLoad, op, manifest, odd, count>>

AdoptedAll ==
    /\ phase = "adopting" /\ carry = {}
    /\ phase' = "loading"
    /\ toLoad' = {n \in Names : reg[n] # "none"}
    /\ UNCHANGED <<reg, world, orphan, reaper, pending, carry, adopting, fsups, sup, op,
                   manifest, odd, count>>

\* Mutant: a service is started whether or not its supervisor is at work.
LoadAnyway(n) ==
    /\ phase = "loading" /\ n \in toLoad
    /\ toLoad' = toLoad \ {n}
    /\ \E s \in Sups :
         /\ Spare(s)
         /\ sup' = [sup EXCEPT ![s] = [Fresh EXCEPT
                       !.at = IF reg[n] = "enabled" THEN "top" ELSE "idle", !.name = n]]
         /\ fsups' = [fsups EXCEPT ![n] = s]
    /\ UNCHANGED <<reg, world, orphan, reaper, phase, pending, carry, adopting, op, manifest,
                   odd, count>>

\* Load: a definition without a supervisor gets one, and one that is enabled and
\* has none at work is started with a fresh one.
Load(n) ==
    /\ phase = "loading" /\ n \in toLoad
    /\ toLoad' = toLoad \ {n}
    /\ IF fsups[n] # None /\ (reg[n] # "enabled" \/ sup[fsups[n]].at # "done")
       THEN UNCHANGED <<fsups, sup>>
       ELSE \E s \in Sups :
              /\ Spare(s)
              /\ sup' = [sup EXCEPT ![s] = [Fresh EXCEPT
                            !.at = IF reg[n] = "enabled" THEN "top" ELSE "idle", !.name = n]]
              /\ fsups' = [fsups EXCEPT ![n] = s]
    /\ UNCHANGED <<reg, world, orphan, reaper, phase, pending, carry, adopting, op, manifest,
                   odd, count>>

Loaded ==
    /\ phase = "loading" /\ toLoad = {}
    /\ phase' = "up"
    /\ UNCHANGED <<reg, world, orphan, reaper, pending, carry, adopting, toLoad, fsups, sup,
                   op, manifest, odd, count>>

Boot ==
    \/ \E e \in Entry : Recover(e)
    \/ \E h \in Handover : Adopt(h)
    \/ \E n \in Names : Load(n)
    \/ Recovered \/ Adopted \/ AdoptedAll \/ Loaded

Next ==
    \/ \E p \in Pids : Exit(p) \/ Choose(p) \/ Reaped(p)
    \/ \E e \in Entry : StoreDrops(e)
    \/ \E s \in Sups : Loop(s)
    \/ Request \/ Boot
    \/ Prepare \/ ExecFails \/ Exec \/ Crash

Spec == Init /\ [][Next]_vars

----------------------------------------------------------------------------

\* A service that is already running is never started twice, whatever became of
\* the daemon (AdoptAll's order; Rename's filing again): but for a rename that a
\* crash cut short or whose undoing failed, and the others that odd records.
OneCopy == odd = {} => \A p, q \in Copies : p = q

\* What runs is looked after by the supervisor the fabric knows it by.
NoneLost ==
    odd = {} /\ Serving =>
        \A p \in Copies : \E s \in Installed : sup[s].pid = p

\* No running process loses its terminal, except with a daemon that died before
\* it was filed.
KeepsTerminal ==
    [][odd' = {} => \A p \in Copies : proc'[p] = "live" =>
         p \in Copies' \/ (~Filed(p) /\ count'.crashes > count.crashes)]_vars

\* OnEnded is told of a process when it has ended.
EndedIsEnded ==
    [][\A s \in Sups : sup[s].at = "dropping" /\ sup'[s].at = "deciding" => ~Live(sup[s].pid)]_vars

=============================================================================
