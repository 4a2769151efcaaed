---------------------------- MODULE AttachClient ----------------------------
(***************************************************************************)
(* The client's side of an attach over a byte pipe (AttachLoopWith and      *)
(* runSession in internal/daemon/attachclient.go, renamekey.go): sessions   *)
(* one after another, the prompts between them, and the way back to a       *)
(* daemon that has gone.  One reader of the keyboard serves them all, in    *)
(* TerminalInput.                                                          *)
(*                                                                         *)
(* The daemon is what the client sees of it: a list of tabs, which of them  *)
(* run, and the frames it sends on the attached connection.  Other clients  *)
(* and the services themselves change it, up to MaxEvents times.           *)
(***************************************************************************)
EXTENDS TerminalInput, Tabs, Integers, FiniteSets

CONSTANTS Service,      \* names a service may have
          Started,      \* the tabs at first, a sequence
          ClosesOnExit, \* those of them made to be closed on exit
          NoName,       \* no service
          MaxEvents     \* bound: what happens in the daemon of its own

ASSUME AttachClientAssumption ==
    /\ Started \in Seq(Service) /\ Started # <<>>
    /\ NoName \notin Service /\ MaxEvents \in Nat
    /\ Commands \subseteq {"detach", "next", "prev", "tab", "move", "list", "rename", "revive",
                           "create", "remove", "redraw"}

VARIABLES up,        \* the daemon answers
          tabs,      \* its services, in order
          live,      \* those with a process
          clean,     \* those that have exited by themselves
          closing,   \* those marked to close on exit
          events,    \* how many things have happened to it
          conn,      \* the connection: "none", "idle" once dialled, "attached"
          on,        \* the service at the daemon's end of it
          stream,    \* frames on their way to the client
          at,        \* pc of AttachLoopWith and runSession
          outcome,   \* why the session ended
          service, shown, cameFrom, first, replay, wasRunning,
          renamedTo, \* the client's, set by the output pump
          fenced,    \* runSession's: data is off until the command is taken
          deaf,      \* runSession's: the terminal has ended
          next,      \* where the dispatch is about to go
          menu,      \* the list pickService shows
          taken,     \* history: commands taken
          era,       \* history: what taken was when the session began
          sent,      \* history: the last chunk sent to a service
          loose,     \* history: commands parted from their fence
          screen,    \* history: the services whose output is on the terminal
          usurped,   \* history: of those, what the client calls one is now another's name
          handed     \* history: a prompt has handed over a command since the last session

daemon == <<up, tabs, live, clean, closing, events>>
link == <<conn, on, stream>>
place == <<service, shown, cameFrom>>
again == <<first, replay>>
local == <<wasRunning, renamedTo, fenced, deaf, era>>
plan == <<next, menu>>
display == <<screen, usurped>>
ghosts == <<sent, loose, display, handed>>
vars == <<keyboard, daemon, link, at, outcome, place, again, local, plan, taken, ghosts>>

Places == {"top", "redial", "look", "attach", "session", "drain", "act", "closing", "removing",
           "pick", "ask", "dead", "back", "over"}
Outcomes == Commands \cup {"finished", "disconnected"}
Frames == [kind : {"renamed"}, to : Service] \cup [kind : {"finished", "eof", "reset"}]

\* Names in S after n has been renamed to m.
Called(S, n, m) == {IF t = n THEN m ELSE t : t \in S}

TypeOK ==
    /\ KeyboardOK
    /\ up \in BOOLEAN /\ tabs \in Seq(Service) /\ events \in 0..MaxEvents
    /\ {live, clean} \subseteq SUBSET Names(tabs) /\ closing \subseteq Service
    /\ live \cap clean = {}
    /\ conn \in {"none", "idle", "attached"} /\ on \in Service \cup {NoName}
    /\ stream \in Seq(Frames)
    /\ at \in Places /\ outcome \in Outcomes
    /\ {service, shown, cameFrom, next, renamedTo} \subseteq Service \cup {NoName}
    /\ {first, replay, wasRunning, fenced, deaf, usurped, handed} \subseteq BOOLEAN
    /\ menu \in Seq(Service)
    /\ taken \in 0..typed /\ era \in 0..taken /\ loose \subseteq 1..MaxCommands
    /\ screen \subseteq Service
    /\ sent \in [typed : 0..MaxCommands, to : 0..MaxCommands, loose : BOOLEAN]

Init ==
    /\ KeyboardInit
    /\ up = TRUE /\ tabs = Started /\ events = 0
    /\ live \in {Names(Started), Names(Started) \ {Started[1]}}
    /\ clean = {} /\ closing = ClosesOnExit
    /\ conn = "none" /\ on = NoName /\ stream = <<>>
    /\ at = "top" /\ outcome = "disconnected"
    /\ service = Started[1] /\ shown = NoName /\ cameFrom = NoName
    /\ first = TRUE /\ replay = TRUE
    /\ wasRunning = FALSE /\ renamedTo = NoName /\ fenced = FALSE /\ deaf = FALSE
    /\ next = NoName /\ menu = <<>>
    /\ taken = 0 /\ era = 0 /\ loose = {} /\ screen = {} /\ usurped = FALSE /\ handed = FALSE
    /\ sent = [typed |-> 0, to |-> 0, loose |-> FALSE]

----------------------------------------------------------------------------
(* The daemon, other clients, and the services. *)

Happens == events < MaxEvents /\ events' = events + 1 /\ at # "over"

\* What the daemon sends to whoever is attached to n; after "finished" it hangs up.
Tells(n, frames) == IF on = n THEN stream \o frames ELSE stream
Ends == <<[kind |-> "finished"]>>

\* A process ends, by itself or by a signal, and its loop does not restart it.
ServiceEnds(n, byItself) ==
    /\ Happens /\ up /\ n \in live
    /\ live' = live \ {n} /\ clean' = IF byItself THEN clean \cup {n} ELSE clean
    /\ stream' = Tells(n, Ends)
    /\ on' = IF on = n THEN NoName ELSE on
    /\ UNCHANGED <<keyboard, up, tabs, closing, conn, at, outcome, place, again, local, plan,
                   taken, ghosts>>

\* The names the client may yet go by: the one it has and those on their way to it.
Heeded == {service, renamedTo} \cup
          {stream[i].to : i \in {j \in DOMAIN stream : stream[j].kind = "renamed"}}

\* By another client, or by the first program run in it.
RenamedElsewhere(n, m) ==
    /\ Happens /\ up /\ n \in Names(tabs) /\ m \notin Names(tabs)
    /\ tabs' = Renamed(tabs, n, m)
    /\ live' = Called(live, n, m) /\ clean' = Called(clean, n, m)
    /\ closing' = Called(closing, n, m) /\ screen' = Called(screen, n, m)
    /\ usurped' = (usurped \/ (m \in Heeded /\ screen \ {n} # {}))
    /\ stream' = Tells(n, <<[kind |-> "renamed", to |-> m]>>)
    /\ on' = IF on = n THEN m ELSE on
    /\ UNCHANGED <<keyboard, up, conn, at, outcome, place, again, local, plan, taken, sent, loose,
                   handed>>

\* The exec of an upgrade, or a crash.  The kernel reports a connection closed
\* with bytes unread as reset.
DaemonGoes ==
    /\ Happens /\ up /\ up' = FALSE
    /\ \E end \in {"eof", "reset"} :
         stream' = IF on = NoName THEN stream ELSE Append(stream, [kind |-> end])
    /\ on' = NoName
    /\ conn' = IF conn = "idle" THEN "none" ELSE conn
    /\ UNCHANGED <<keyboard, tabs, live, clean, closing, at, outcome, place, again, local, plan,
                   taken, ghosts>>

DaemonComes ==
    /\ ~up /\ at # "over" /\ up' = TRUE
    /\ UNCHANGED <<keyboard, tabs, live, clean, closing, events, link, at, outcome, place, again,
                   local, plan, taken, ghosts>>

----------------------------------------------------------------------------
(* The loop, up to the session. *)

Over == at' = "over"

\* Top of the loop: where this terminal is, where it was, and a connection; the
\* variables of the round are new.
Top ==
    /\ at = "top"
    /\ shown' = service
    /\ cameFrom' = IF service # shown /\ shown # NoName THEN shown ELSE cameFrom
    /\ IF up THEN conn' = "idle" /\ at' = "look"
       ELSE /\ UNCHANGED conn
            /\ IF first THEN Over ELSE at' = "redial"
    /\ outcome' = "disconnected" /\ wasRunning' = FALSE
    /\ UNCHANGED <<keyboard, daemon, on, stream, service, again, renamedTo, fenced, deaf, era,
                   plan, taken, ghosts>>

\* waitForDaemonClient, in both places it is called from: either the daemon
\* answers within ReattachWindow, or the attach is given up.
Redialled ==
    /\ at = "redial" /\ up
    /\ conn' = "idle" /\ at' = "look"
    /\ UNCHANGED <<keyboard, daemon, on, stream, outcome, place, again, local, plan, taken,
                   ghosts>>

Returns ==
    /\ at = "back" /\ up
    /\ at' = "top" /\ first' = FALSE /\ replay' = FALSE
    /\ UNCHANGED <<keyboard, daemon, link, outcome, place, local, plan, taken, ghosts>>

GivesUp ==
    /\ at \in {"redial", "back"} /\ ~up
    /\ Over
    /\ UNCHANGED <<keyboard, daemon, link, outcome, place, again, local, plan, taken, ghosts>>

\* serviceIsRunning: anything that goes wrong answers yes.
Look ==
    /\ at = "look"
    /\ wasRunning' = (up /\ service \in Names(tabs) => service \in live)
    /\ at' = "attach"
    /\ UNCHANGED <<keyboard, daemon, link, outcome, place, again, renamedTo, fenced, deaf, era,
                   plan, taken, ghosts>>

\* The attach request.  A refusal, or a connection lost under it, ends it all.
Attach ==
    /\ at = "attach"
    /\ IF conn = "idle" /\ service \in Names(tabs)
       THEN /\ at' = "session" /\ conn' = "attached"
            /\ on' = IF service \in live THEN service ELSE NoName
            /\ stream' = IF service \in live THEN <<>> ELSE Ends
            /\ screen' = screen \cup {service} /\ UNCHANGED usurped
       ELSE /\ Over
            /\ conn' = "none" /\ on' = NoName /\ stream' = <<>> /\ UNCHANGED display
    /\ era' = taken /\ handed' = FALSE
    /\ UNCHANGED <<keyboard, daemon, outcome, place, again, wasRunning, renamedTo, fenced, deaf,
                   plan, taken, sent, loose>>
----------------------------------------------------------------------------
(* A session: one select over the keyboard, the output and the rest. *)

\* What is the session's own goes with it.
Forget == renamedTo' = NoName /\ fenced' = FALSE /\ deaf' = FALSE

\* The connection is closed and the loop told why; a rename the pump has seen
\* is what the service is called from here on.
Leave(o, name) ==
    /\ Forget
    /\ at' = "act" /\ outcome' = o
    /\ conn' = "none" /\ on' = NoName /\ stream' = <<>>
    /\ service' = IF name = NoName THEN service ELSE name
    /\ shown' = IF name = NoName THEN shown ELSE name

\* A command and its fence are parted when only one of them is read; the n-th,
\* until both are, and what was typed up to then has been sent.
Parts(ns) == loose' = {n \in loose \cup ns : n > taken' \/ at' = "drain" \/ Unread(n)'}

InSession(a) ==
    /\ at = a
    /\ UNCHANGED <<daemon, cameFrom, again, wasRunning, era, plan, display, handed>>

\* The pump, which goes on until the connection is closed.
PumpRenamed ==
    /\ at \in {"session", "drain"} /\ stream # <<>> /\ Head(stream).kind = "renamed"
    /\ renamedTo' = Head(stream).to /\ stream' = Tail(stream)
    /\ UNCHANGED <<keyboard, daemon, conn, on, at, outcome, place, again, wasRunning, fenced, deaf,
                   era, plan, taken, ghosts>>

\* `case got := <-output`.  Anything but a plain end is an error, and final.
OutputEnds ==
    /\ InSession("session") /\ stream # <<>> /\ Head(stream).kind # "renamed"
    /\ IF Head(stream).kind = "reset"
       THEN /\ Over
            /\ conn' = "none" /\ on' = NoName /\ stream' = <<>>
            /\ Forget /\ UNCHANGED <<outcome, service, shown>>
       ELSE /\ Leave(IF Head(stream).kind = "finished" THEN "finished" ELSE "disconnected",
                     renamedTo)
    /\ UNCHANGED <<keyboard, taken, sent>>
    /\ Parts(IF fenced THEN {taken + 1} ELSE {})

Listening == ~deaf /\ ~fenced /\ data # <<>>
Read == data' = Tail(data) /\ UNCHANGED <<reader, cmds, ended, typed, keys>>
Sends == sent' = [typed |-> Head(data).at, to |-> era, loose |-> loose # {}]

\* A chunk for the service; when the daemon has hung up it is lost, and the
\* session is a disconnection.  What the pump has not read by then is lost with
\* the connection, a rename included; an error it has come to is final.
SendKeys ==
    /\ InSession("session") /\ Listening /\ ~Head(data).fence /\ Read
    /\ IF on # NoName
       THEN Sends /\ UNCHANGED <<link, at, outcome, service, shown, renamedTo, fenced, deaf>>
       ELSE /\ sent' = sent
            /\ \/ Leave("disconnected", renamedTo)
               \/ /\ stream # <<>> /\ Head(stream).kind = "reset"
                  /\ Over /\ conn' = "none" /\ stream' = <<>>
                  /\ Forget /\ UNCHANGED <<on, outcome, service, shown>>
    /\ UNCHANGED <<taken, loose>>

\* A fence before its command: the keyboard is off until it is taken.  With no
\* command waiting the fence is a stray one.
SeeFence ==
    /\ InSession("session") /\ Listening /\ Head(data).fence /\ Read
    /\ fenced' = (cmds # <<>>)
    /\ UNCHANGED <<link, at, outcome, service, shown, renamedTo, deaf, taken, sent>>
    /\ Parts(IF cmds # <<>> /\ Head(data).at # taken + 1 THEN {taken + 1} ELSE {})

Take == cmds' = <<>> /\ taken' = taken + 1 /\ UNCHANGED <<reader, data, ended, typed, keys>>

\* Mutant: a command is taken only after its fence.
TakeFenced ==
    /\ InSession("session") /\ ~deaf /\ cmds # <<>> /\ fenced /\ Take
    /\ Leave(Head(cmds), renamedTo)
    /\ Parts({})
    /\ UNCHANGED <<sent>>

\* `case want := <-cmds`: what was typed before it goes first.
TakeCommand ==
    /\ InSession("session") /\ ~deaf /\ cmds # <<>> /\ Take
    /\ IF fenced THEN Leave(Head(cmds), renamedTo)
       ELSE /\ at' = "drain" /\ outcome' = Head(cmds)
            /\ UNCHANGED <<link, service, shown, renamedTo, fenced, deaf>>
    /\ Parts({})
    /\ UNCHANGED <<sent>>

\* drainToFence; a write that fails is ignored.
DrainKeys ==
    /\ InSession("drain") /\ data # <<>> /\ ~Head(data).fence /\ Read
    /\ IF on # NoName THEN Sends ELSE sent' = sent
    /\ UNCHANGED <<link, at, outcome, service, shown, renamedTo, fenced, deaf, taken, loose>>

\* Mutant: everything that is queued is drained, past the fence.
DrainAll ==
    /\ InSession("drain")
    /\ IF data # <<>>
       THEN /\ Head(data).fence /\ Read
            /\ UNCHANGED <<link, at, outcome, service, shown, renamedTo, fenced, deaf>>
       ELSE UNCHANGED keyboard /\ Leave(outcome, renamedTo)
    /\ UNCHANGED <<taken, sent, loose>>

DrainFence ==
    /\ InSession("drain") /\ data # <<>> /\ Head(data).fence /\ Read
    /\ Leave(outcome, renamedTo)
    /\ UNCHANGED <<taken, sent>>
    /\ Parts(IF Head(data).at # taken THEN {taken, Head(data).at} ELSE {})

\* fenceWait runs out, under a reader that is not run or a write that blocks.
DrainLate ==
    /\ InSession("drain")
    /\ Leave(outcome, renamedTo)
    /\ UNCHANGED <<keyboard, taken, sent>>
    /\ Parts({taken})

\* `case <-ended`: nothing more is listened to, what has been typed included.
TerminalEnds ==
    /\ InSession("session") /\ ~deaf /\ ended
    /\ deaf' = TRUE /\ ended' = FALSE
    /\ UNCHANGED <<reader, data, cmds, typed, keys, link, at, outcome, service, shown, renamedTo,
                   fenced, taken, sent, loose>>

----------------------------------------------------------------------------
(* The dispatch: what each outcome does before the next session. *)

\* A request on a connection of its own: Dial and Call.
Answers == up

\* serviceIsRunningStrict, and closesOnExit.
IsRunning(n) == Answers /\ n \in live
Closes == Answers /\ service \in clean \cap closing

Does(o) ==
    /\ at = "act" /\ outcome = o
    /\ UNCHANGED <<keyboard, link, local, taken, sent, loose, handed>>

\* Back to the top, with or without a replay; showService clears the terminal.
Again(flag) == at' = "top" /\ first' = flag /\ replay' = flag /\ UNCHANGED <<shown, cameFrom>>
Clear == screen' = {} /\ usurped' = FALSE

Stay(flag) == Again(flag) /\ UNCHANGED <<service, display>>
\* Mutant: the terminal is not cleared.
GoUncleared(n) == Again(TRUE) /\ service' = n /\ UNCHANGED display

GoTo(n) == Again(TRUE) /\ service' = n /\ Clear

Detach ==
    /\ Does("detach") /\ Over
    /\ UNCHANGED <<daemon, outcome, place, again, plan, display>>

\* n and p.
Switch(forward) ==
    /\ Does(IF forward THEN "next" ELSE "prev")
    /\ LET there == IF Answers THEN Neighbour(tabs, service, forward) ELSE {}
       IN  \/ there = {} /\ Stay(FALSE)
           \/ \E n \in there : GoTo(n)
    /\ UNCHANGED <<daemon, outcome, plan>>

\* nthTab: 1 to 9.
GoToTab(i) ==
    /\ Does("tab")
    /\ IF ~Answers \/ i \notin DOMAIN tabs THEN Stay(FALSE)
       ELSE IF tabs[i] = service THEN Stay(TRUE) ELSE GoTo(tabs[i])
    /\ UNCHANGED <<daemon, outcome, plan>>

Move(right) ==
    /\ Does("move") /\ Stay(FALSE)
    /\ tabs' = IF Answers THEN Moved(tabs, service, right) ELSE tabs
    /\ UNCHANGED <<up, live, clean, closing, events, outcome, plan>>

Redraw ==
    /\ Does("redraw") /\ Again(TRUE) /\ Clear
    /\ UNCHANGED <<daemon, outcome, service, plan>>

Revive ==
    /\ Does("revive") /\ Stay(TRUE)
    /\ IF Answers /\ service \in Names(tabs)
       THEN live' = live \cup {service} /\ clean' = clean \ {service}
       ELSE UNCHANGED <<live, clean>>
    /\ UNCHANGED <<up, tabs, closing, events, outcome, plan>>

\* newShell takes the first name that is free.
Create ==
    /\ Does("create")
    /\ LET free == Service \ Names(tabs)
           n == CHOOSE m \in free : TRUE
       IN  IF Answers /\ free # {}
           THEN /\ tabs' = Append(tabs, n) /\ live' = live \cup {n}
                /\ closing' = closing \cup {n}
                /\ GoTo(n)
           ELSE Stay(TRUE) /\ UNCHANGED <<tabs, live, closing>>
    /\ UNCHANGED <<up, clean, events, outcome, plan>>

Drops(n) ==
    /\ tabs' = Without(tabs, n)
    /\ live' = live \ {n} /\ clean' = clean \ {n} /\ closing' = closing \ {n}
    /\ UNCHANGED <<up, events>>

\* removeAndMoveOn: where to go is found before the removal.
RemoveLooks ==
    /\ Does("remove")
    /\ next' \in IF Answers /\ Len(tabs) > 1 THEN Neighbour(tabs, service, TRUE) ELSE {NoName}
    /\ at' = "removing"
    /\ UNCHANGED <<daemon, outcome, place, again, menu, display>>

Remove ==
    /\ at = "removing"
    /\ IF ~Answers \/ service \notin Names(tabs) THEN GoTo(service) /\ UNCHANGED daemon
       ELSE /\ Drops(service)
            /\ IF next = NoName
               THEN /\ Over /\ UNCHANGED <<place, again, display>>
               ELSE GoTo(next)
    /\ next' = NoName
    /\ UNCHANGED <<keyboard, link, outcome, local, menu, taken, sent, loose, handed>>

\* The service ended under its user: back to where they came from if that
\* runs, and otherwise to a neighbour that does.
FinishLooks ==
    /\ Does("finished") /\ wasRunning
    /\ LET to == IF cameFrom # service /\ IsRunning(cameFrom) THEN {cameFrom}
                 ELSE IF Answers THEN RunningNeighbour(tabs, live, service) ELSE {}
       IN  next' \in IF to = {} THEN {NoName} ELSE to
    /\ at' = "closing"
    /\ UNCHANGED <<daemon, outcome, place, again, menu, display>>

\* closesOnExit and the removal, which keeps the log.
Finish ==
    /\ at = "closing"
    /\ IF Closes THEN Drops(service) ELSE UNCHANGED daemon
    /\ IF next # NoName THEN GoTo(next)
       ELSE Over /\ UNCHANGED <<place, again, display>>
    /\ next' = NoName
    /\ UNCHANGED <<keyboard, link, outcome, local, menu, taken, sent, loose, handed>>

\* It had ended before its user came: wait for a command.
StayOnDead ==
    /\ Does("finished") /\ ~wasRunning /\ at' = "dead"
    /\ UNCHANGED <<daemon, outcome, place, again, plan, display>>

Reattach ==
    /\ Does("disconnected") /\ at' = "back"
    /\ UNCHANGED <<daemon, outcome, place, again, plan, display>>

----------------------------------------------------------------------------
(* The prompts, which read the keyboard themselves, with nothing attached. *)

Prompt(a) ==
    /\ at = a
    /\ UNCHANGED <<link, local, sent>>

\* A command given to a prompt is acted on in its place; its fence stays behind
\* unless it has been read already.
HandsOver ==
    /\ cmds # <<>> /\ Take
    /\ at' = "act" /\ outcome' = Head(cmds)
    /\ UNCHANGED <<service, shown, cameFrom, again>>
    /\ Parts({taken + 1})

\* A fence whose command waits is parted from it by a prompt that skips it.
Skips(e) == Parts(IF e.fence /\ e.at > taken THEN {e.at} ELSE {})

\* Ctrl-] l: settledStatuses, and the list over a cleared screen.
ListOpens ==
    /\ Does("list")
    /\ IF Answers /\ tabs # <<>>
       THEN /\ at' = "pick" /\ menu' = tabs /\ Clear
            /\ UNCHANGED <<place, again>>
       ELSE Stay(FALSE) /\ UNCHANGED menu
    /\ UNCHANGED <<daemon, outcome, next>>

\* One key chooses, and any other key stays, as does the end of pickTimeout.
Pick ==
    /\ Prompt("pick") /\ data # <<>> /\ ~Head(data).fence /\ Read
    /\ \E n \in Names(menu) \cup {service} : GoTo(n)
    /\ menu' = <<>>
    /\ UNCHANGED <<daemon, outcome, next, taken, loose, handed>>

PickTimesOut ==
    /\ Prompt("pick") /\ GoTo(service) /\ menu' = <<>>
    /\ UNCHANGED <<keyboard, daemon, outcome, next, taken, loose, handed>>

PickCommand ==
    /\ Prompt("pick") /\ HandsOver /\ handed' = TRUE /\ Clear /\ menu' = <<>>
    /\ UNCHANGED <<daemon, next>>

\* A fence whose command waits is as good as the command.
PickFence ==
    /\ Prompt("pick") /\ data # <<>> /\ Head(data).fence
    /\ data' = Tail(data) /\ UNCHANGED <<reader, ended, typed, keys, daemon, next>>
    /\ IF cmds = <<>>
       THEN /\ UNCHANGED <<cmds, taken, at, outcome, place, again, menu, display, handed>>
            /\ Parts({})
       ELSE /\ cmds' = <<>> /\ taken' = taken + 1
            /\ at' = "act" /\ outcome' = Head(cmds) /\ handed' = TRUE
            /\ Clear /\ menu' = <<>>
            /\ UNCHANGED <<place, again>>
            /\ Parts({taken + 1})

\* Ctrl-] , on the status line: askName.
AskOpens ==
    /\ Does("rename") /\ at' = "ask"
    /\ UNCHANGED <<daemon, outcome, place, again, plan, display>>

\* What is typed edits the name, and a fence has nothing in it.
AskReads ==
    /\ Prompt("ask") /\ data # <<>> /\ Read
    /\ UNCHANGED <<daemon, at, outcome, place, again, plan, taken, display, handed>>
    /\ Skips(Head(data))

\* Enter: another name, and the daemon may have reason to refuse it.
AskRenames(m) ==
    /\ Prompt("ask") /\ data # <<>> /\ ~Head(data).fence /\ Read
    /\ IF Answers /\ service \in Names(tabs) /\ m \notin Names(tabs)
       THEN /\ tabs' = Renamed(tabs, service, m)
            /\ live' = Called(live, service, m) /\ clean' = Called(clean, service, m)
            /\ closing' = Called(closing, service, m) /\ screen' = Called(screen, service, m)
            /\ UNCHANGED usurped
            /\ service' = m /\ shown' = m
       ELSE UNCHANGED <<tabs, live, clean, closing, display, service, shown>>
    /\ at' = "top" /\ first' = TRUE /\ replay' = TRUE
    /\ UNCHANGED <<up, events, outcome, cameFrom, plan, taken, loose, handed>>

\* Escape, or askTimeout between two keys.
AskEnds ==
    /\ Prompt("ask") /\ Stay(TRUE)
    /\ \/ data # <<>> /\ ~Head(data).fence /\ Read
       \/ UNCHANGED keyboard
    /\ UNCHANGED <<daemon, outcome, plan, taken, loose, handed>>

AskCommand ==
    /\ Prompt("ask") /\ HandsOver /\ handed' = TRUE
    /\ UNCHANGED <<daemon, plan, display>>

\* waitForCommandOnADeadService: typing is dropped.
DeadReads ==
    /\ Prompt("dead") /\ data # <<>> /\ Read
    /\ UNCHANGED <<daemon, at, outcome, place, again, plan, taken, display, handed>>
    /\ Skips(Head(data))

DeadCommand ==
    /\ Prompt("dead") /\ HandsOver
    /\ UNCHANGED <<daemon, plan, display, handed>>

----------------------------------------------------------------------------

User ==
    /\ at # "over"
    /\ TypeKeys \/ (\E o \in Commands : TypeCommand(o)) \/ PutFence \/ TypeEnd
    /\ UNCHANGED <<daemon, link, at, outcome, place, again, local, plan, taken, ghosts>>

World ==
    \/ \E n \in Service, byItself \in BOOLEAN : ServiceEnds(n, byItself)
    \/ \E n, m \in Service : RenamedElsewhere(n, m)
    \/ DaemonGoes \/ DaemonComes

Session ==
    \/ PumpRenamed \/ OutputEnds \/ SendKeys \/ SeeFence \/ TakeCommand \/ TerminalEnds
    \/ DrainKeys \/ DrainFence \/ DrainLate

Dispatch ==
    \/ Detach \/ (\E forward \in BOOLEAN : Switch(forward)) \/ (\E i \in 1..9 : GoToTab(i))
    \/ (\E right \in BOOLEAN : Move(right)) \/ Redraw \/ Revive \/ Create
    \/ RemoveLooks \/ Remove \/ FinishLooks \/ Finish \/ StayOnDead \/ Reattach
    \/ ListOpens \/ AskOpens

Prompts ==
    \/ Pick \/ PickTimesOut \/ PickCommand \/ PickFence
    \/ AskReads \/ (\E m \in Service : AskRenames(m)) \/ AskEnds \/ AskCommand
    \/ DeadReads \/ DeadCommand

Loop == Top \/ Redialled \/ Returns \/ GivesUp \/ Look \/ Attach

Next == User \/ World \/ Session \/ Dispatch \/ Prompts \/ Loop

\* The goroutines run: the reader as long as data has room, the loop whenever it
\* has something to do, a select whose keyboard case stays ready takes it, and
\* the timers of the prompts and of the reattach window run out.
Fairness ==
    /\ WF_vars(User /\ PutFence)
    /\ WF_vars(Loop \/ Dispatch)
    /\ WF_vars(SendKeys \/ SeeFence \/ DrainKeys \/ DrainFence \/ DrainLate)
    /\ WF_vars(TakeCommand)
    /\ WF_vars(PumpRenamed \/ OutputEnds)
    /\ WF_vars(Prompts)

Spec == Init /\ [][Next]_vars /\ Fairness

----------------------------------------------------------------------------

\* KeysGoWhereTyped: what is typed before a command goes to the session it was
\* typed at, and what is typed after it to where the command leads, unless
\* something has read the command and not its fence, or the other way about: a
\* prompt, a dead service, a fence that is late, a session that ends in between.
KeysGoWhereTyped == sent.typed = sent.to \/ sent.loose

\* ScreenIsTheServices: whichever way an attach has come to a service, nothing
\* of another is on the terminal; and unless a prompt was up in between, what
\* is on it is the service's own, replayed or still there.  A client knows its
\* service by name only: while it does not hear of a rename, another may take it.
ScreenIsTheServices ==
    [][Attach /\ at' = "session" =>
         \/ usurped
         \/ /\ screen \subseteq {service}
            /\ ~(first /\ replay) /\ service \notin screen => handed]_vars

\* Heard: a command is always acted on in the end, whatever the session, the
\* prompt or the connection it was typed at, unless the terminal has gone.
Heard == cmds # <<>> ~> cmds = <<>> \/ at = "over" \/ reader = "ended"

=============================================================================
