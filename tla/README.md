# gozellij: a verification development

gozellij is a terminal-session manager written in Go. A daemon, `gozellijd`, owns
*services*: commands on pseudo-terminals, each with a name, a restart policy and a desired
state on disk. Clients attach to a service over a Unix socket and see its terminal; they
may leave and come back, and the service goes on. This directory holds TLA+ models of the
daemon's parts, the TLC configurations that check them, and theorems about them that TLAPS
has checked.

Paths below are relative to the repository (`src/` here). "Loop" is a supervision loop,
`Supervisor.run`.

## 1. The system

### Components, their state and their operations

| component | source | state | operations |
|---|---|---|---|
| Output buffer and subscribers | `internal/fabric/output.go` | the ring (`buf`, `start`, `size`, `written`), the subscribers and what each has queued, `closed`, the disk writer | `Write`, `Attach`, `Detach`, `Consumed`, `Close`, `MoveLog`, screen and mode tracking |
| Disk writer | `internal/fabric/logfile.go` | the open file, `flushed`, `dropped`, the current subscriber, `closing` | `run`, `catchUp`, `emit`, `Close`, `moveTo`, `rotate`, `mark`; readers `ReadLogTail`, `ReadLogSince` |
| Process | `internal/fabric/process.go`, `procstart.go`, `cgroup.go`, `ancestry.go` | the child, its terminal, its cgroup, `Exit` | `Start`, `drain`, `reap`, `Write`, `Resize`, `Signal`, `Stop`, `Close` |
| Adoption | `adopt.go`, `orphan.go` | a process that an earlier daemon started | `Adopt`, `AdoptOrphan`, `waitOrphan` |
| Supervision loop | `supervisor.go`, `restart.go` | the copy of the definition, `Status`, the current process, backoff | `Start`, `Stop`, `run`, `waitBackoff`, `redefine`, `rename`, `AdoptRunning` |
| Registry | `service.go` | one JSON file per definition | `Add`, `Put`, `Get`, `Remove`, `List` |
| Fabric | `fabric.go`, `watch.go` | the map from names to supervisors, a lifecycle lock per service, status watchers | `Add`, `Ensure`, `Update`, `Start`, `Stop`, `Restart`, `Remove`, `Rename`, `Load`, `AdoptAll`, `Handovers`, `Logs` |
| Descriptor store | `internal/daemon/ptystore.go`, `socketstore.go`, `sdnotify.go` | what systemd keeps for the next daemon: terminals and the listener | filed when a process starts, removed when it ends, claimed at start-up |
| Upgrade | `internal/daemon/upgrade.go`, `cmd/gozellijd/main.go` | the manifest of live terminals handed across `exec` | `PrepareHandover`, `ExecSelf`, `TakeHandover` |
| Server | `internal/daemon/server.go` | the listener, the open connections, who is watching what | `Listen`, `Serve`, `Close`, one handler per request, `move` |
| Attach, daemon side | `internal/daemon/attach.go` | a session's three goroutines | `attach`, `readInput`, `pumpOutput`, `watchForExit` |
| Attach, client side | `attachclient.go`, `client.go`, `renamekey.go` | the keyboard's two channels, the connection, the service and the last one, prompts | the terminal's reader, `AttachLoopWith`, `runSession`, reconnecting, switching, renaming, creating, removing |
| Rendered attach | `renderclient.go`, `renderedsession.go` | panes with a connection each, the focus, the events not yet taken, the modes of the real terminal | open, close, split, resize, follow a rename, finish, repaint, restore |
| Layout | `layoutstate.go`, `internal/vt/layout` | the arrangement of a service's panes on disk; a tree of splits that nothing uses yet | saved, restored |
| Wire protocol | `internal/ipc` | none | frames and messages |
| Terminal emulator | `internal/vt/grid`, `internal/vt/render` | a grid of cells, scrollback, modes, the parser's state between writes | the parser's operations, `Resize` with reflow, a drawing of the screen |
| Terminal modes | `termmodes.go` | modes set by output, a sequence cut off by a read | `Feed`, `Preamble`, `Reset` |
| Status line, names, addresses | `internal/status`, `statusline.go`, `autoname.go`, `internal/ula` | configuration | pure functions |
| Command line | `cmd/gozellij` | none | arguments, printing, login set-up |

### How they interact

* A client's request is served by a goroutine of the server. It takes the *lifecycle lock*
  of the service for the whole operation, and within it calls the registry (files), the
  map of supervisors (`f.mu`) and the supervisor (`s.mu`).
* The loop is a goroutine per started supervisor. It launches processes, publishes a
  `Status`, and wakes *watchers* (a one-slot channel per attached session) at each change.
* A process has two goroutines: `drain` copies its terminal to the output buffer, and
  `reap` waits for it. The buffer belongs to the service and outlives its processes.
* Readers of the buffer (attached clients, the disk writer) have a channel each, with a
  budget. A reader that exceeds it is cut off rather than waited for.
* A restart of the daemon goes three ways: a crash, in which systemd keeps the filed
  terminals; an upgrade, in which the daemon execs itself with descriptors open; and a
  clean stop, in which the daemon stops serving and the services keep running, their terminals
  with systemd as after a crash.

### What is hard about it

* *Concurrency.* Requests of several clients, the loop being stopped and its successor,
  the exit of a process, a watcher's wake-up and the session's three goroutines meet in
  orders that tests, which drive one of them at a time, hardly reach.
* *Steps that fail half-way.* A definition that cannot be written after the old loop was
  stopped; a log that cannot be opened after its directory was renamed.
* *Crashes.* Between any two steps of an operation; what comes back is what is on disk.
* *Falling behind.* A slow client and a slow disk are cut off; the first must be told, the
  second must catch up from the ring or count what it lost.
* *Endings.* Each goroutine waits for some other one; closing in the wrong order loses
  the last line a shell printed, or blocks for good.

The full list, line by line, is `hazards` in `PROJECT.json`.

### What makes each part correct

| component | properties |
|---|---|
| Output buffer | the ring is the newest `Capacity` bytes; a reader's replay and its stream join with no gap and no overlap; nothing is sent on a closed channel |
| Attach, daemon side | a cut client got everything or was told; renames reach it; every session ends |
| Disk writer | every byte is in the log once and in order, or counted as missing; a removed log stays removed; a close returns |
| Loop and fabric | one copy of a service; no copy that nobody owns; a stopped service stays stopped, crash or not; what runs is what is recorded; no attached client sees a restart as an end; operations finish |
| Process | `Stop` returns, and only when the process has ended and nothing of its cgroup goes on; nobody is killed unasked or before the grace period is over |
| Adoption, store | after a crash exactly the recorded, living processes are adopted, once each, under the right name |
| Upgrade | no process is lost or doubled across the exec; a failed exec leaves a working daemon |
| Log files | readers miss nothing that is kept while they read, rotation or not; `-since` shows each byte once and is as accurate as its index; a log past its limit says so |
| Server | a daemon that serves can be reached; no client is refused while systemd keeps the socket; a stop ends, and leaves no request under way |
| Attach, client side | keys go to the service they were typed at; every command is heard; the screen is the service's own |
| Rendered attach, layout | one reader for each pane, under its service's name; panes tile the window; the arrangement on disk is the one on the screen; the terminal is in the modes of the pane with the keyboard |
| Terminal emulator | what is indexed is there; the scrollback is the newest that scrolled off; a resize keeps text, paragraphs and the cursor's place; reads cut anywhere change nothing |
| Terminal modes | an attached terminal is in the service's modes, one that was left in none |

## 2. The models

| module | models |
|---|---|
| `OutputBuffer` | the ring, subscribers and their budgets. Bytes are offsets in the stream |
| `AttachSession` | `attach` with its three goroutines, over `OutputBuffer` |
| `MCAttachSession` | which offsets are newlines, for TLC |
| `Transcript` | abstract: what a log promises |
| `LogSink` | the disk writer over `OutputBuffer`; implements `Transcript` |
| `RestartTracker` | restart policies and the backoff, as operators |
| `Supervisor` | the loops a service has had, and their processes |
| `Lifecycle` | the fabric's operations on one service over `Supervisor`, the registry and crashes |
| `Recovery` | one service over crashes and upgrades of the daemon, with renames and stops |
| `MCRecovery` | the symmetry TLC uses, and the constraint explained below |
| `LogFile` | the files of one log: rotation, the time index, and the two readers |
| `StoppedProcess` | abstract: what a process promises those who stop it |
| `ProcessStop` | one process, what it has started, its reaping, and the callers of `Process.Stop`; implements `StoppedProcess` |
| `Tabs`, `TerminalInput` | the order of tabs and moving in it; the reader of the keyboard with its commands and fences |
| `AttachClient` | the client of a byte pipe, over these two, and the daemon as it sees it |
| `MCAttachClient` | two tabs at first, and names for TLC |
| `Listener` | daemons, the path and the sockets it leads to, systemd's store, clients |
| `PaneLayout`, `RenderedScreen` | how panes share a window; the modes of the real terminal |
| `Panes` | the rendered session: panes, their connections and readers, the arrangement on disk |
| `MCPanes` | the window's sizes and the symmetry TLC uses |
| `HistoryRing`, `Grid` | the scrollback; the emulator's screen |
| `MCGrid` | the sizes of the screen |
| `EscapeParser` | the emulator's parser, and the modes that sequences set |
| `TermModes` | the follower of modes |
| `ModesReplay` | a service's modes on their way through reads, the buffer and a client's terminal, over both |
| `MCModesReplay` | what the service prints |
| `OutputBuffer_proofs` | what the buffer's operations keep, for whatever reads it; the theorems about its two readers, `AttachSession` and `LogSink` |
| `Lifecycle_proofs`, `Recovery_proofs`, `ProcessStop_proofs`, `Listener_proofs`, `AttachClient_proofs`, `LogFile_proofs`, `Panes_proofs` | the theorems about each |

**`OutputBuffer`.** Variables mirror the struct: `buf`, `start`, `size`, `written`, `subs`
and, per subscriber, `sub` with its channel of chunks, its queued byte count, `lagged` and
`gone`. A byte is its offset, so `buf` holds offsets and a chunk is an interval. One
action is one critical section under the buffer's mutex. `Write` appends to the ring and
offers to every subscriber, which lags when its byte budget or its channel is full.
Each subscriber is also given, as history, the offset it joined at (`from`) and the one at
which it was cut (`upTo`).

**`AttachSession`.** Each goroutine has a program counter; one action is the code between
two points where another goroutine can be observed. The defers of `attach` are its last
steps, in their order. The connection is `up` until the client hangs up (`gone`), the
daemon closes it (`closed`) or input is refused (`refused`). The wake-up channel is
`empty` or holds a `token`, which coalesces. The replay's start is any newline in the
last bytes of the snapshot, or its start.

**`LogSink`.** The writer's goroutine, and a control goroutine that renames or removes
under the lifecycle lock. The file is the sequence of offsets in it; a failed write keeps
a prefix. `LogSink.Close` gives up after five seconds: in the model a close may give up
while the writer is at work, and `timedOut` records that it did.

**`Supervisor` and `Lifecycle`.** One service, several supervisors (each start after an
end makes a fresh one), several clients. The loop's `loop[s]` walks through `run`'s
lines. A process is its leader and the rest of its cgroup (`kids`). An operation takes the
lock with `Acquire` and then walks through its steps; `mine[c]` is the local variable that
holds the supervisor it works on. Every write of the definition may fail (`DiskFails`).
`CrashAndLoad` can happen at any point and does what `Load` does with the registry.

**`Recovery`.** Here the service's process outlives the daemon. The main goroutine walks
through its start (`phase`): take what systemd handed back, adopt each process, mark the
orphans, load the definitions, serve. Beside it run the loops (as far as they take, file
and drop terminals), one reaper for each process, a rename or a stop under the lifecycle
locks, an upgrade, and systemd, which drops a terminal once it has hung up. A *copy* is a
living process whose terminal somebody still has: one that nobody has is hung up by the
kernel, and is no copy whether or not it has exited yet. Pids are not used again while the
store may name them.

The history variable `odd` records six ways in which the code departs from what its
comments promise, each on a narrow interleaving or a failing disk: a rename that a crash cut
short (its definition is on disk twice, or its terminal is not filed); a rename that could
neither remove the old definition nor take the new one back; a terminal filed under a name
that has just changed; a manifest older than what it lists; an orphan whose reaper waits
for it as for a child; and an adopted process stopped before its loop took it. The safety
properties say `odd = {} => ...`; `odd` only grows, so `NothingOdd`, as a constraint, cuts
nothing that they speak of. One of the six is a
run of its own (`recovery_orphan`).

**`LogFile`.** The file is the sequence of its bytes, with an identity as `os.SameFile`
sees it, and a new file has a new one; an index is a sequence of marks in whole seconds, and
the interval between two marks is a number of whole seconds too (`WholeSeconds`), as the
code's one minute is. The writer's steps are the file
operations of `emit`, `rotate` and `mark`, any of which may fail; the readers' are each
look at a file or an index, so that a rotation can fall between any two. The clock is read
only where a mark is made, so that is where time passes. A restart can come anywhere. The
answer's cut to a number of bytes is left out. `odd` records a mark or an index that could
not be written or moved, and a raised limit that outlived its reason.

**`ProcessStop`.** The members are the leader and a bounded set of children; each may be in
the leader's process group, in its cgroup, and may hold the terminal. They fork, leave the
group (`setsid`), let go of the terminal and exit as they like: a signal that a program may
ignore is only a request, so `SIGTERM` and `SIGHUP` change nothing in the model but the
history `owed`, those who were alive when the stop looked and have not been sent `SIGTERM`
yet. `SIGKILL` makes a member `dying`. The cgroup may be missing, may have been given at
birth, or only after the leader had started others (`Cgroup.Add` after a refused `clone3`).
`reap` walks through the wait, `DrainGrace`, the closing of the terminal and `DrainAbandon`.
A caller of `Stop` walks through its two paths under `stopMu`. Time is counted in ticks and
each timer runs down by itself; it may go off late, as a real one may. The history `late`
says that a stop reached its `SIGTERM` after the reaping of the leader and before the report
of its exit (section 5). Seen from outside (`Promise`) the leader is live until its end is
reported, its children go on while a member of the cgroup other than it is alive, and a
caller is stopping from taking `stopMu` to returning; `StoppedProcess` says of these three
only that nothing is started once the leader is gone and that a stop returns when neither
is left. `Supervisor`'s process is the same one, by theorem (section 3).

**`AttachClient`.** The terminal's reader hands over bytes and commands on two channels,
with a fence on the first after each command (`TerminalInput`). The loop is one program
counter through `AttachLoopWith`, `runSession`, the dispatch of each outcome and the prompts;
the pump that reads the connection runs beside it, as does the world: services end, are
renamed or removed by other clients, the daemon goes and comes. The connection is a sequence
of frames and its end, which is `eof` or, with bytes unread, `reset`. Output is a history:
`screen` is the set of services whose output is on the terminal, under the names they have by
now; `usurped` says that another service was given a name that the client still goes by, or
has yet to read in the stream, while the terminal shows something else (section 5). A chunk and a fence carry
how many commands were typed before them, which is what `KeysGoWhereTyped` compares with how
many had been acted on; `loose` holds the commands of which something has read one half.

**`Listener`.** The path is a name that leads to a socket or to none, and a socket lives as
long as anybody has a descriptor of it. A daemon walks through `Listen` (what systemd handed
over, the stale socket's dial and removal, bind, listen, the store), serves, and closes; an
upgrade passes the descriptor on across the exec; systemd starts the unit again. Clients
connect, are accepted, are listed and served. `robbed` holds the sockets whose name was
removed on a verdict that was out of date.

**`Panes`.** A connection is a queue of reports (renamed, finished, modes, lost) that its
reader has put or will put in the session's channel, which keeps each connection's order and
no other. The session takes one report or one command at a time; a command is the whole of
its handler, in two steps where the code looks at the daemon before it attaches. The
arrangement is saved where the code saves it; any save may fail, in the first `MaxRefused`
sessions, and `written`, what the session believes to be there, is set all the same. An attach
goes through several sessions, as the outer loop does, and each begins by saving what it has
restored. A grid that would be left with no cell keeps its size, as `Resize` does. `Becomes` is the name that a service will have for the session once the renames on their way
have been taken, and the first half of `PanesFit`, `SizesTold`, is about who was told how
large a pane is. `PaneLayout` has the arithmetic of `relayout` in fifths of a weight;
`RenderedScreen` has what the terminal is in and, apart from it, what it was told.
`unkept` says why the arrangement on disk may be another than the one shown: a service was
renamed, a save failed, a restore left a pane out. `missed` and `askew` are histories of a resize
and of modes that the code lets go by (section 5).

**`Grid`.** The terminal is one record and an operation a function of it. A cell is blank,
narrow, wide or a wide one's second half, and may have a mark combined with it. Sequences
act as the parser dispatches them; a resize of the primary screen joins rows into paragraphs
and breaks them anew, that of an alternate screen cuts and pads, and leaves the reflow of the
hidden one to its return. `panicked` is an index out of range. `HistoryRing` is the
scrollback as the array that it is, with `all`, the history that it stands for, beside it.

**`EscapeParser`, `TermModes`, `ModesReplay`.** A byte is a string: a control or introducer,
a whole parameter number, the first byte of a character of three, or one that may follow.
`EscapeParser` is the state machine of `parser.feed`, with the characters it draws and the
operations it calls as entries of a list. `TermModes` scans the same bytes in its own way. In
`ModesReplay` a service prints items, the daemon's reads end anywhere, the buffer feeds both,
and a client comes and goes. `whole` is a terminal that gets each byte by itself and `cut`
one that gets each read as it comes. `odd` says what a terminal cannot get over: a client
that came in the middle of a sequence to a picture, or to a picture begun after the cursor
was hidden, or left inside a string (section 5).

### Runs

| run | checks | bounds, and why they are enough |
|---|---|---|
| `attach` | `NoGap`, `CompleteOrTold`; `RenameTold`, `SessionEnds` (liveness) | ring 3, budget 3 bytes and 2 chunks, 4 bytes written in chunks of up to 3: the ring wraps, either budget can be what is exceeded, an offset can be overwritten before it is read. One session: sessions share only the ring, which none of them changes. Two names: a rename and back |
| `log_sink` | `AllKeptOrSaid`; `KeepsTranscript` (refinement), `DeletedStaysDeleted`, `CloseFinishes` (liveness) | ring 2, budget 2, 5 bytes: the writer can fall behind by more than the ring, and twice. One rename, then a removal. Two subscribers: the one being drained and its replacement |
| `lifecycle` | `OneCopy`, `StaysStopped`; `StopIsWhole` (action), `Answered`, `ComesBack` (liveness) | two clients (the lock makes a third one like the second), two supervisors (the stopped and its successor: `Spare` identities are used again), two policies, one restart after one delay |
| `recovery` | `OneCopy`, `NoneLost`; `KeepsTerminal` (action) | two names, since a rename takes one and gives one; three processes: one adopted, its successor and one started in between; two crashes (one during the start after the first), one upgrade, two renames |
| `recovery_orphan` | one property, violated: section 5 | as `recovery`, with one crash and no rename |
| `log_file` | `AnswerComplete`, `SinceAccurate`; `PastLimitSaid` (action) | a limit of two bytes and four written, in ones and twos: two rotations, so a reader can give up after two attempts (the code makes four); two ticks to a second and two seconds between marks: every part of a second, and a mark's interval can end during the next one's; one failure or restart |
| `process_stop` | `KeepsPromise` (refinement of `StoppedProcess`), `StopReturns` (liveness) | two children, so that one can hold what the other has let go of, and one be born while the other is stopped; two callers, as the code has; two ticks of grace, one before `SIGHUP`, one each for the drains: every order of the timers but those in which the grace ends before the `SIGHUP`, which the code's constants exclude |
| `attach_client` | `KeysGoWhereTyped`; `ScreenIsTheServices` (action), `Heard` (liveness) | two tabs and a free name: one to switch to, one to create or be renamed to; one run of keys and two commands, so that either can come between the other and its fence, and a command be typed at a prompt; one event in the daemon beside the two that the commands make. The two safety properties also hold with two events, which takes eight million states and leaves the liveness property out |
| `listener` | `LiveIsReachable`, `KeepsItsPlace`, `NothingAfterClose`; `StopEnds` (liveness) | one daemon of the unit and one started by hand, which is every pair that can meet; four sockets, since either daemon may bind one twice; one death, two stops, one upgrade; one client, as clients do not touch each other |
| `panes` | `OneReader`, `PaneNamed`, `LayoutKept`, `PanesFit`, `KeyboardModes` | three services and three panes, so that two are on the screen while a third takes a place; four connections, so that an exchanged one still has reports waiting; two sessions, two commands and one event; a window with room for two panes and one with room for one; one mode; saves that fail in the first session, so that what it could not save is or is not saved by a later change, and the second one restores either |
| `grid` | `InRange`, `HistoryIsTail`; `ReflowKeepsText`, `CursorKeepsPlace`, `AltGivesBack` (action) | screens of one, two and three columns and two or three rows, two characters at first, three operations, two resizes: a wide character that does not fit, a wrap pending, a resize while the alternate screen is up, a scrollback of none and of two that wraps |
| `modes_replay` | `CutAnyhow`, `TerminalFollows` | three items out of eighteen (text, characters whole and cut short, strings with either end, a character set, the alternate screen, the mouse, the cursor, the keypad, two modes at once), read in every way that cuts them; a ring of six bytes, which drops the switch that a replay needs. One number stands for each kind of mode |

Type invariants (`TypeOK`) document the variables, and no run repeats what is proved of them:
those of `AttachSession`, `LogSink`, `Lifecycle`, `Recovery`, `ProcessStop` and `Listener` are
theorems, as are `DesiredIsRecorded`, `NoneLost` (of `Lifecycle`), `RestartIsNotTheEnd`,
`RingIsTail`, `SendsOnOpenChannel`, `StopIsComplete`, `GraceIsWhole` and `AskedFirst`.

`CHECK_DEADLOCK FALSE` is used everywhere but in `process_stop`, since the systems may really
come to rest: all clients gone and the service removed, all restarts of the bound used up,
the log deleted, a daemon that serves nobody, a terminal detached, a program that prints no
more.

Bounds that the code does not have are named `Max...` in each module, together with the sets
`Pids`, `Kids`, `Socks`, `PaneIds` and `Conns`. A behaviour that reaches one simply writes,
renames, restarts, types, resizes or fails no more.

### Fairness

Weak fairness of each goroutine of the daemon: the Go scheduler runs a goroutine that can
run. Weak fairness of a process's death is assumed only once `Process.Stop` has been
called for it, since that ends in `SIGKILL` and `cgroup.kill`. `AttachSession` assumes
that a connected client reads; a client that does not is cut off by its connection, which
is `HangUp`. Nothing is assumed of services, which need not write or exit, nor of clients,
which need not ask for anything. `ProcessStop` assumes that timers go off, that `SIGKILL` kills,
and that the reader, the reaper and a stop under way run; neither that a closed terminal wakes
its reader, which `DrainAbandon` is there for, nor that anyone obeys `SIGTERM`. No fairness is assumed between requests that wait for a
lock. `Listener` assumes that a daemon's start and its close go on, that systemd starts the
unit again when it is to, and that the handlers of a daemon run; a client need not say
anything. `AttachClient` assumes that the loop, the pump, the prompts and the fence of a
command that has been typed go on, and that each ready case of the session's `select` is
chosen sometime, which Go's random choice gives; not that anyone types, nor that the daemon
comes back, nor that a fence wait does not run out. The remaining modules have safety
properties only.

## 3. What is proved

TLC's runs are small instances. The theorems hold for every ring size, number of
subscribers, clients, supervisors, daemons, sockets, names, children, callers, panes and
connections, for windows of every size, for any delays, limits and grace periods, and for
every value of the bounds. They assume only the named
`ASSUME`s of the modules: sizes are positive and bounds natural numbers, `NoOne`, `None` and
`NoName` are no element of the set they are added to, requests name policies that exist, the
leader is none of its own children, the first tabs are a list of services, marks are made
whole seconds apart, a window has a row and a column. Where a property excuses an interleaving
on which the code departs from its comments (`odd`, `late`, `loose`, `robbed`, `usurped`,
`unkept`, `missed`, `askew`), the theorem does so too, in the same words.

| module | theorem | the property of a run that it states |
|---|---|---|
| `OutputBuffer_proofs` (sessions) | `NoGapAlways`, `CompleteOrToldAlways` | `NoGap`, `CompleteOrTold` |
| `OutputBuffer_proofs` (the writer) | `AllKeptOrSaidAlways`, `KeepsTranscriptAlways`, `DeletedStaysDeletedAlways` | `AllKeptOrSaid`, `KeepsTranscript`, `DeletedStaysDeleted` |
| `Lifecycle_proofs` | `OneCopyAlways`, `StaysStoppedAlways`, `StopIsWholeAlways` | `OneCopy`, `StaysStopped`, `StopIsWhole` |
| `Recovery_proofs` | `OneCopyAlways`, `NoneLostAlways`, `KeepsTerminalAlways` | `OneCopy`, `NoneLost`, `KeepsTerminal` |
| `ProcessStop_proofs` | `KeepsPromiseEver` | `KeepsPromise` |
| `Listener_proofs` | `Reachable`, `PlaceKept`, `ClosedForGood` | `LiveIsReachable`, `KeepsItsPlace`, `NothingAfterClose` |
| `AttachClient_proofs` | `KeysGoWhereTypedAlways`, `ScreenIsTheServicesAlways` | `KeysGoWhereTyped`, `ScreenIsTheServices` |
| `LogFile_proofs` | `AnswerCompleteAlways`, `SinceAccurateAlways`, `PastLimitSaidAlways` | `AnswerComplete`, `SinceAccurate`, `PastLimitSaid` |
| `Panes_proofs` | `OneReaderAlways`, `PaneNamedAlways`, `LayoutKeptAlways`, `PanesFitAlways`, `KeyboardModesAlways` | `OneReader`, `PaneNamed`, `LayoutKept`, `PanesFit`, `KeyboardModes` |

In these nine components every safety property that a run checks is a theorem.

**`OutputBuffer_proofs`.** `RingInv` says that the byte `size - i` places from the end of
the ring is `written - i`, with indices modulo the capacity. `AppendKeepsRing` proves that
an append keeps it. The proof has three cases per byte: an old byte that was there, one
that was overwritten, and a new one, and uses only that an index wraps at most once
(`WrapOnce`), which keeps it free of the non-linear arithmetic of `%`. The second half is
about subscribers, for any set of them. A queue *carries* the stream on from an offset
(`Carries`) when its chunks follow one another without a gap from there to where the
subscriber was cut or, while its channel is open, to `written`. A step is *steady* for a
subscriber when every offset carried on from before it still is after it: a write either
adds exactly its bytes or cuts the queue before them, and closing and detaching cut it where
it had got to (`WriteSteady`, `ClosedSteady`, `DetachSteady`); taking a chunk moves the offset to the chunk's end
(`TakeCarries`). The proofs about both of the buffer's readers, in the same module, rest on
these lemmas.

*Sessions (`AttachSession`).* `IInv` is `RingInv`, the typing of the sessions, and
`SubsInv`: a subscriber in `subs` has an open channel, and its queue is a sequence of
chunks. The type invariant alone is not inductive, because a chunk taken from a queue has
to be a chunk. `StreamInv` adds that what a session was sent has no byte missing, that the chunk its pump
holds follows on from it and that the queue carries on from there (`Flow`), and that a session whose stream
the daemon cut without a word has had it all (`Whole`). `NoGap` is what the first says of the
bytes sent, `CompleteOrTold` what the last says of an ended session.

*The writer (`LogSink`).* `SinkIInv` has, beside types and the buffer: `Bounded`, no queue holds a
byte that was not written; `GoesOn`, for each place of the writer's loop, what it has accounted for
(in the file or admitted missing) ends where what it still gets begins, in the chunk in its hand, its queue,
or a snapshot of the ring with the queue of the subscription that goes with it; `Adds`, the
bytes in the file and those admitted add up; `Followed`, a writer that nobody is closing has a
subscription that is open or was cut for lagging, and after a removal one that goes to the end
unless it lagged; `PutDown`, nothing writes a log that is being moved or was deleted, unless a
`Close` gave up waiting. The refinement is proved step by step: each step of `LogSink` is a
step of `Transcript` under the mapping, or leaves it alone. `KeepsTranscriptAlways` is the
action property for every behaviour, `late` ones excused; `ImplementsTranscript` the
implication `SinkSpec /\ []~late => Log!Spec`, with `Transcript`'s initial states.

**`Lifecycle_proofs`.** `IInv` is the conjunction of
* `TypeOK`;
* `LoopInv`: the published status says where the loop is, and a process is up only at the
  points of the loop that know of it;
* `LockInv`: a client is in the middle of a request exactly while it holds the lock;
* `StepInv`: what each step may count on (while a restart waits, the installed supervisor
  is a fresh one, other than the one waited for; while a stop waits, the definition is
  already disabled; before a launch it is enabled);
* `BusyInv`: a loop at work is the installed supervisor's, which the registry wants up
  unless a stop is under way, or is one that a restart is waiting for;
* `WishInv`: after a stop was reported nothing is at work, the definition is disabled, and
  no request that could start anything is under way.

None of the safety properties is inductive alone: that there is one copy follows from
`BusyInv`, which holds because a successor is launched only from a step that `StepInv` says
comes after the old loop's end. Each lemma has one step per action. Theorems:
`TypeCorrect`, `OneCopyAlways`, `NoneLostEver`, `StaysStoppedAlways`,
`DesiredIsRecordedAlways`, `RestartIsNotTheEndEver`, `StopIsWholeAlways`.

**`Recovery_proofs`.** `IInv == Typed /\ (odd = {} => Sane)`. `Sane` says that there is one copy (`One`) and where it can be (`Accounted`): with the one
installed supervisor, or on its way there, in what systemd handed back, in what is to be adopted
or in hand; that there is one definition on disk but in the middle of a rename
(`OneDefinition`); and that what a terminal is filed under is the name of that definition
(`FiledRight`), so that the next daemon finds the two together. `OneCopy` and `NoneLost` follow from the first two;
the others are what makes them inductive across a crash: without them the next daemon would
start a definition afresh beside the adopted process. A step that adds to `odd` owes nothing
but types.

**`ProcessStop_proofs`.** `IInv` is `TypeOK` and four parts. `MutexInv`: a caller is inside
`Stop` exactly while it has `stopMu`. `MembersInv`: a cgroup that holds anyone holds the
leader, a reaped leader is gone, and nobody unborn is in the cgroup or owed a signal.
`SweepInv`: at the sweep either the time is up or nothing in the cgroup is alive, and after
it nothing is. `AskInv`: by each point of a stop that found its leader unreaped, those it has
signalled are no longer owed. The first is what makes the others inductive: without the
mutex another caller's look at the clock would invalidate what this one relies on, which is
the bug that `stopMu`'s comment tells of. That a killing is the group's or the sweep's
(`KillsOnlyIn`) then gives `GraceIsWholeEver` and `AskedFirstEver`; `StopIsCompleteEver`
follows from `SweepInv` and `MembersInv`; `StopTypeCorrect` is the type invariant.
`StepPromised` takes the refinement step by step. Most leave all three things seen from
outside alone; a death, a signal or a sweep may end the last child; a report ends the
leader; a fork into the cgroup is new to the outside only when the leader made it, since a
child that forks was there itself (`BornOfSomebody`); and a return finds what it promised,
from `SweepInv`. With `Init` that is `KeepsPromiseEver`. On the other side
`SupervisesAPromise`, in `Lifecycle_proofs`, says that what `Supervisor` lets a process do
is exactly what `StoppedProcess` lets it do, and what it waits for when it stops one is
what that promises: so the two models meet in one specification, not in words.

**`Listener_proofs`.** `IInv` is `TypeOK` and: `ShapeInv`, what a daemon is at goes with the
sockets it has; `OwnInv`, a socket of a daemon that is not the unit's is known to no other
daemon nor to the store; `SawInv`, a socket judged abandoned is nobody's, and stays so since only
a new socket, or one that somebody holds, is ever handed on; `NameInv`, a socket that is served, about to be, handed over or stored has the path, unless
it was robbed of it; `ConnInv`, a connection in a daemon's hands is that of one that serves or has
served, and once the daemon has hung up, no listed one is open. `Reachable` and `PlaceKept` follow from
`NameInv` only together with `OwnInv`: a daemon unlinks by name, and what it unlinks has to be its own.

**`AttachClient_proofs`.** Two channels have no order between them. What gives them one is
that the fences are read in the order of their commands: `Queue` says that at any moment there
is a number such that the fences up to it have been read, the others not, and whatever is
queued was typed after it; `Pairing` that every command of which one half has been read is in
`loose`, but for the one that a session is in the middle of. With no command loose the head of the
queue is then for the session that is open, which is `KeysGoWhereTyped`; `FencesInOrder` is
what there is to rely on even then. `ScreenInv` is for the terminal: while it shows
anything, and unless `usurped`, it shows one service, and no name its client has or is yet to read is
another's (`Recognised`); it is clear only on the way to a replay, under a list, or after a
prompt has handed over a command (`Prepared`). It was this proof that showed which names have to
count: the one the client has, the one its pump has noted, and every one still in the stream.

**`LogFile_proofs`.** A reader looks at a file several times, and it may be another file each
time. `IInv` is seven parts. `ShapeInv`: which file has been written where the writer is, and
that identities grow, so that a file seen again is the file seen before (`os.SameFile`).
`BytesInv`: bytes are in the older file and the current one in the order in which they were
written, none missing between them. `TimeInv`: later bytes are not older, and the clock is not
behind them. `IndexInv`: each of the two indexes belongs to its file, but for the moment in
which one has been moved and the other not; its marks say where each interval begins, at most
a second early. `LimitInv`: a log that has outgrown its limit has said so (`Said`). `ReadInv`: what a reader has in
hand at each of its steps is what it claims to be *if the file is still the same*; of an
answer that it is about to throw away nothing is said, which is what makes the part
inductive. `AnswerCompleteAlways` and `SinceAccurateAlways` follow at the reader's last step,
where it has just looked; that a mark's interval is whole seconds is what bounds the error of an index that
is kept in whole seconds.

**`Panes_proofs`.** `IInv` is five parts, of which `ViewInv` has most to say. `Wired` relates
panes and connections: whoever reads a connection says that it is gone last of all and once
(`Line`), a pane on the screen goes by a connection made for it, with a reader and with the
name that its service has or will have when the renames on their way are taken (`Goes`), and
every other pane is closed or has no connection (`Off`), which is how reports that come late
are recognised. `Row`: no pane is on the screen twice. `Sized`: grid, rectangle and the size
told are the same, of a pane that has a cell. `DiskInv`: the session believes to be on disk what
is on the screen, but for a new name, and what it believes is there, but after a save that
failed. (That `LayoutKept` also leaves out a restore that drops a pane is no need of the proof: the
arrangement that is then on disk is not the one that should be, section 5.) `ScreenInv`: terminal
and bookkeeping differ by modes in `askew` only. `WindowInv`: a change of size is waiting,
missed or known. `OneReader` alone is not inductive, since whether a report counts depends on
`Goes`; `PaneNamed` needs `Becomes`, as a pane is behind by the renames in its queue.
Each command and each report is a lemma, built from what it does to one pane (`Replaced`),
one connection (`Told1`), and the screen (`Relaying`, `ShowsKeeps`).

`PanesFitAlways` has two halves more. `PartInv` says that each pane on the screen has the
part that `LayoutPanes` computes from the weights it has now: every step lays all of them out anew,
leaves places and weights alone, or ends the session (`StepMoves`), which is where a handler
that changed a weight, the orientation or the window without `relayout` would be caught.
`PanesFitOnScreen` is about the arithmetic, for any weights: with a cell to each fifth of a
weight each share has at least one cell, the total times the sum of the first shares is at most the room times
the sum of the first weights, so that all but the last leave a cell over for it, and the last
takes what is left. Sums over a sequence are a recursive function, and that it is what it says
(`SumIs`) is an induction; it is done by a least counterexample (`Least`, `OneMore`), in a set
where the library has a predicate that the provers cannot instantiate.

`ScrollbackIsNewest`, in the same module, is about the ring a pane's history is kept in
(`HistoryRing`): `RingOK` says that the array is full or not gone around yet and where in it
the line of each age is; every operation keeps that, and leaves the history it stands for
the newest lines of what was there, whatever the limit is and becomes. A run has it only
for the limits and lines of `Grid`'s states.

**Only model-checked.**

* Liveness: `RenameTold`, `SessionEnds`, `CloseFinishes`, `Answered`, `ComesBack`,
  `StopReturns`, `Heard`, `StopEnds`. The prover has neither fairness nor `ENABLED`.
* `ModesReplay`: it uses recursive operators (`Write`, `Scan`), over which the prover cannot
  reason, and its properties are about what these compute for every input, which would take induction over data.
* `Grid`: a resize, and what had been printed to begin with, are folds over rows and cells,
  and what a fold computes is again an induction over data with the step as a parameter. Its
  ring of history has been proved by itself (`ScrollbackIsNewest`), each operation for every
  length; that the terminal uses it only so, that it stays in range and that a resize keeps
  the text are checked.

## 4. What is not modelled, and what is abstracted

* `Lifecycle` has `Process.Stop` by its promise, that it returns once the leader and its
  cgroup are gone; `ProcessStop` has the inside. What is left out of both: a pid that is used
  again between `SignalGroup`'s look at `reaped` and its `kill`, a cgroup that cannot be read
  or killed, a group that the leader does not lead, and the removal of the cgroup's directory.
* Reads of the registry succeed; only writes fail.
* `Supervisor.Stop`'s request (set `cancel`, look at the current process) is one step: it
  is one critical section in the code but for the call it makes after it.
* In `Lifecycle` a crash takes the processes with it, as a unit without descriptor store and
  with `KillMode=control-group` has it. Processes that survive are `Recovery`'s; there, the
  requests are `Rename` and `Stop` only, an upgrade gathers its handovers in one step, and
  an exec that fails leaves the daemon as it was (in the code the descriptors it had
  prepared stay open across a later exec).
* Who may read a log that has no service any more, and a log with logging off: `Logs` and
  `LogsSince` then answer from elsewhere or refuse, with no state of their own.
* In `AttachSession` the replay is any of the ring's newest bytes from a newline on; the
  preamble and the picture of a screen are `ModesReplay`'s, which has no window of 64 KiB for
  the newline. The size of the picture is not modelled.
* `EscapeParser` has no character but those of three bytes, no malformed one that looks
  complete, no operation but those on modes, and leaves which operation a final byte names,
  colours, character sets, titles and replies out. `ModesReplay`'s service finishes the
  sequences it begins, resets the terminal with ESC c never, and keeps to one number for the
  alternate screen: outside of that `TermModes` and the emulator disagree (section 5).
* `Grid` has neither colours nor attributes nor character sets, and what `ModesReplay` has.
* `AttachClient` takes a run of bytes as one key, leaves the reading of the prefix key and of
  mouse reports out, and gives a daemon that it asks one answer. `Panes` leaves out the keys
  of the frozen view, colours and the painting of cells.
* `Listener` leaves out a full backlog, the failures of `dup`, `chmod` and `sd_notify`, a
  client that hangs up by itself, and what a request does.
* The tree of splits in `internal/vt/layout` is not used by the program yet. Frames of the
  wire protocol are taken as read whole or not at all.
* `waitBackoff`'s notice that cannot be written: the buffer is closed only after the loop
  has ended, so the failure is not reachable from here.
* `pumpOutput` looks at `Lagged` again after its loop; in the model that is part of
  `PumpEnds`.
* A wake-up pending when the watch is removed is replaced by its end: the watcher would
  look once more and then end.
* Status line, command line, addresses, auto-naming, packaging: formatting and I/O around
  the requests, or pure functions with no state to get wrong.

## 5. Where code and comments disagree

* **A living orphan can be taken for ended** (`recovery_orphan`, `EndedIsEnded`).
  `AdoptOrphan` marks the process only after `Adopt` has started the reaper. A reaper that
  looks first waits for it as for a child, is told that it has none, and reports the end:
  the loop has systemd drop the terminal and may start a second copy.

Seen while modelling, and without a run of their own. Where a model's property excuses one of
these, its history variable is named.

*Logs.*

* A rename can repeat or misplace logged output (`late`). `moveTo`'s comment
  (`logfile.go:318`) promises that the new writer resumes at the offset the old one reached,
  so that nothing is written twice. When the old writer has fallen behind and attached again, and
  `Close` sets `closing` before it looks, it drains its fresh subscriber without the catch-up
  that the snapshot was for; `flushed` advances by what it drained rather than to where that
  ends, and the next writer resumes from an offset that is too small.
* A raised limit can outlive its reason (`odd`). When a rotation fails, the limit is raised
  and the status says so; when the next one moves the file and then cannot open a new one, the
  record is cleared and the raised limit is not (`logfile.go:424`).
* A log's writer that has fallen behind when its service ends returns at its refused re-attach
  having neither written nor counted what it missed (`logfile.go:310`), where the type's
  comment says that falling behind "costs scrollback in a file and says so".
* `logs -since` can show too little: a mark made half-way through a second is recorded as of
  the second's start, and the window after it ends early by as much (`logfile.go:577`), where
  the index is said to err "towards showing a little more, never less". `AnswerComplete` is
  what holds: nothing newer than the request by a second is missed.
* `ReadLogTail` does not look again after a rotation as `ReadLogSince` does, so `logs` may show
  the bytes of a file twice, once as the current file and once as the older one; and `-since`
  asked between the move of a log and the opening of the next answers with nothing, as for a
  service that has not written.

*Processes.*

* A failed rename can leave a service defined twice (`odd`). When the old definition cannot be
  removed, the new one is to go again, "so a failed rename never leaves the service defined twice"
  (`fabric.go:577`); whether it went is not looked at (`fabric.go:626`), and a disk that refuses
  the one may refuse the other. After a crash the next daemon adopts the process under one name
  and starts a second copy under the other.
* An upgrade can leave a process behind (`odd`): the manifest is written before the exec with
  everything still running, so a process that a loop starts in between is not in it
  (`main.go:214`), against "keeping every process".
* Children can be killed unasked (`late`). A stop that begins after the leader was reaped and
  before its exit is reported takes the main path; `stopSignal` rightly sends nothing to the
  freed pid's group, but `signalCgroup` is told that it has, and skips the group's members:
  "skipping them means never signalling them", says its comment (`process.go:639`).
* Without a cgroup, a child that ignores `SIGTERM` and `SIGHUP` outlives a stop whose leader
  ends in time, since the group gets no `SIGKILL` once its leader is reaped; `Stop`'s own
  comment (`process.go:588`) only speaks of children that have called `setsid`.

*The socket.*

* `Close` removes the path after it has waited for its handlers (`server.go:235`), by when
  another daemon may have bound it; and the verdict of `clearStaleSocket` may be out of date
  when it is acted on, against its comment (`server.go:69`). Both are what `robbed` records.
* Services are started before `Listen` can refuse. A failed upgrade leaves
  `GOZELLIJ_HANDOVER_LISTENER` in the environment and a descriptor that is not close-on-exec.
  An error of `Accept` that passes, as a lack of descriptors, ends the daemon without `Close`.

*The client.*

* A command that replays sets `first` again (`attachclient.go:472`, `523`, `551`), so an attach
  that meets a daemon being replaced right after it ends at once instead of waiting out the
  reattach window that the comment at `332` promises.
* A command taken by a prompt or by the wait on a dead service leaves its fence behind, and
  what is typed next may go to the session before (`loose`). That wait does not see the
  terminal's end. A service that finishes under a key being written, or a connection that is
  reset, is taken for a lost daemon, or ends the attach.
* A client knows its service by name only (`usurped`). When the service is renamed while its client
  is without a connection, and another is then given the old name, the client attaches to the
  other one, and, as after any lost connection, without clearing the terminal
  (`attachclient.go:614`): the screen shows the one and the keys go to the other.
* A service renamed by somebody else during a prompt ends the attach. A list that hands over
  a command that moves a tab or cannot leaves a cleared screen; a rename, a revive and a
  creation that fails replay without clearing.

*Panes.*

* A restore that leaves a pane out writes the smaller arrangement at once (`unkept`). `written` is
  the signature of what was loaded (`renderedsession.go:172`), so the first `remember()` (`251`)
  finds what is shown to be another and saves it, with no command given: a service that was
  removed, or that the window has no room for, is forgotten. The comment (`162`) says that such a
  restore "must not then write the smaller arrangement back" and that "only something the user
  did changes the file"; `docs/REPLACING_GEZELLIJ.md:362` lists it among what a restore will not
  do. The same goes for an arrangement that does not name the service asked for, which
  `layoutstate.go:157` says is "left on disk".
* A save that fails is noted, believed to be done and not tried again before the next change
  (`renderedsession.go:245`), and a rename is not remembered until the next command (`unkept`).
* A window resized between two sessions goes unnoticed (`missed`); modes can be
  taken for granted by a repaint from nothing (`askew`).
* `restorePanes` does not set `wasRunning` for the service asked for. A key typed into a
  finished pane ends the whole session, and so may an old report of a closed pane.
  `drainToFence` writes even to a pane that is read-only. Weights grown on a small screen
  give panes of no width. Two panes on one service contend for its size.

*The emulator.*

* `CSI ?1048l` fetches a cursor back unclamped onto a smaller screen, and a wide character is
  drawn on a screen of one column: the next operation indexes out of range. `InRange` says that
  these two are all.
* A reflow can put the cursor's row in the scrollback when the text below it fills more than
  the screen, against the comment in `reflow.go` (about line 54). `insertChars` does not count
  what it pushed as used, so a resize loses it; neither is a mark on a blank counted. A resize
  with a wrap pending leaves the cursor on the last character. ESC E keeps the pending wrap,
  ESC c forgets the scrollback's limit, and overwriting half of a wide character leaves the
  other. `Resize`'s comment says "No reflow".
* An OSC that ends in ESC \ leaves the backslash on the screen (`parser.go:745`), which its
  comment calls a case of malformed streams; `render.go` itself emits that ending. The
  branch at `parser.go:155` cannot be taken: what `utf8.FullRune` waits for can complete.

*Modes* (`odd` in `ModesReplay`, or outside of what its service prints).

* A client that attaches to a picture in the middle of a sequence is sent its tail as text,
  and does not switch (`output.go:264`, `attach.go:109`). A picture begun after the cursor was
  hidden ends by showing it, though the preamble had hidden it. A client that leaves inside a
  string or a character set has the first sequence of `Reset` swallowed.
* `TermModes` takes an ESC that interrupts a private sequence for its final byte, does not see
  a switch with a control inside it, does not know ESC c, and holds the alternate screen for
  on when it is entered by one number and left by another. After an upgrade it starts from
  nothing. A switch into the alternate screen that a read cuts is drawn, as text, on the new
  picture, which is fed only the read's own bytes.

## 6. Plan

What is left is what `Only model-checked` lists. Of it `Grid`'s `InRange` could be had
by writing the four folds of a reflow as recursive functions and proving of each, by a least
counterexample as for `SumIs`, that no row it makes is wider than the screen; the operations
between two resizes need only that rows stay as wide as they are.

## 7. Running

    tlc -workers 2 -config Lifecycle.cfg Lifecycle.tla
    tlapm Lifecycle_proofs.tla

`PROJECT.json` lists every run with its module and configuration, the source lines each
definition translates, and for every checked property a mutated definition, written in the
module just before the definition it mutates, under which TLC finds that property violated.
