------------------------------- MODULE Panes -------------------------------
(***************************************************************************)
(* A rendered attach: several panes on one screen, each with a connection   *)
(* of its own and a goroutine that reads it, and one session that owns them *)
(* all.  What the goroutines report waits in a channel while the session is *)
(* at something else, so that a report may be of a connection its pane has  *)
(* moved on from.                                                          *)
(*                                                                         *)
(* The channel keeps the order of each connection's reports and no other.   *)
(* A connection closed here is taken to have been read to its end.  A call  *)
(* that fails changes nothing and is left out; the search for a service to  *)
(* show and the look at whether it runs are one step, its attach another.   *)
(* Output is left out but for what it switches on.  Between two sessions the *)
(* loop outside may have gone on to any service; each has an arrangement of *)
(* its own on disk.                                                         *)
(***************************************************************************)
EXTENDS PaneLayout, RenderedScreen, Functions

CONSTANTS Names,       \* names a service may have
          PaneIds,     \* panes in existence at a time
          Conns,       \* connections in existence at a time
          None,        \* no service, no connection, no pane
          Typed,       \* names the attach is begun with
          Sizes,       \* sizes of the screen, [cols, rows]
          MaxSessions, \* bound: sessions of the one attach
          MaxKeys,     \* bound: commands given
          MaxRefused,  \* bound: sessions, from the first, in which a write may fail
          MaxEvents    \* bound: things that happen to services, to the daemon and to the
                       \* window

ASSUME PanesAssumption ==
    /\ Typed \subseteq Names
    /\ None \notin Names \cup PaneIds \cup Conns
    /\ Sizes \subseteq [cols : Nat \ {0}, rows : Nat \ {0}]
    /\ {MaxSessions, MaxKeys, MaxRefused, MaxEvents} \subseteq Nat

VARIABLES
    svc,      \* services: "none", "running" or "stopped", by name
    wish,     \* modes each service's program has switched on
    up,       \* the daemon answers
    conn,     \* connections, with the reports of each not yet taken
    pane,     \* the panes
    shown,    \* those on the screen, in order
    focus,    \* the place of the one with the keyboard
    how,      \* "columns" or "rows"
    at,       \* pc of the session: "out", "idle", "calling", "between"
    doing,    \* the command a call is being made for
    asked,    \* the service this session was asked for
    window,   \* the size of the real terminal
    known,    \* the size this attach goes by
    winch,    \* the signal that it has changed is waiting
    missed,   \* history: it changed while nobody listened for the signal
    saved,    \* the arrangements on disk, by the service asked for
    written,  \* the arrangement this session believes to be there
    owed,     \* a repaint put off
    unkept,   \* history: why the arrangement on disk may be another than the one shown
    count     \* history: sessions, commands and events so far

service == <<svc, wish, up>>
view == <<pane, shown, focus, how>>
size == <<window, known, winch, missed>>
disk == <<asked, saved, written, unkept>>
vars == <<service, conn, view, at, doing, disk, owed, screen, size, count>>

\* size: what the daemon was told over the connection last.
NoSize == [cols |-> 0, rows |-> 0]
NoRect == [col |-> 0, row |-> 0, cols |-> 0, rows |-> 0]
SizeOf(rect) == [cols |-> rect.cols, rows |-> rect.rows]
NoConn == [name |-> None, q |-> <<>>, readers |-> 0, pane |-> None, size |-> NoSize]
NoPane == [name |-> None, conn |-> None, ran |-> FALSE, finished |-> FALSE, frozen |-> FALSE,
           closed |-> FALSE, modes |-> {}, weight |-> InitialWeight, rect |-> NoRect,
           grid |-> NoSize]
Nothing == [cmd |-> None, name |-> None, ran |-> FALSE]
NoLayout == [how |-> "columns", focus |-> 0, panes |-> <<>>]

Finished == [kind |-> "finished"]
GoneAway == [kind |-> "gone"]
Drawn(n) == [kind |-> "modes", modes |-> wish[n]]

Reports == [kind : {"finished", "gone"}] \cup [kind : {"modes"}, modes : SUBSET Modes]
              \cup [kind : {"renamed"}, name : Names]
Dims == [cols : Nat, rows : Nat]
Layouts == [how : {"columns", "rows"}, focus : Nat,
            panes : Seq([name : Names, weight : Nat])]

TypeOK ==
    /\ svc \in [Names -> {"none", "running", "stopped"}] /\ wish \in [Names -> SUBSET Modes]
    /\ {up, owed, winch, missed} \subseteq BOOLEAN
    /\ conn \in [Conns -> [name : Names \cup {None}, q : Seq(Reports), readers : Nat,
                           pane : PaneIds \cup {None}, size : Dims]]
    /\ pane \in [PaneIds -> [name : Names \cup {None}, conn : Conns \cup {None}, ran : BOOLEAN,
                             finished : BOOLEAN, frozen : BOOLEAN, closed : BOOLEAN,
                             modes : SUBSET Modes, weight : Nat,
                             rect : [col : Nat, row : Nat, cols : Nat, rows : Nat], grid : Dims]]
    /\ shown \in Seq(PaneIds) /\ focus \in 0..Len(shown) /\ how \in {"columns", "rows"}
    /\ at \in {"out", "idle", "calling", "between"}
    /\ asked \in Names \cup {None} /\ saved \in [Names -> Layouts] /\ written \in Layouts
    /\ unkept \subseteq {"renamed", "refused", "left out"}
    /\ {window, known} \subseteq Sizes
    /\ {term, told, askew} \subseteq SUBSET Modes

Init ==
    /\ svc \in [Names -> {"none", "running", "stopped"}]
    /\ wish = [n \in Names |-> {}] /\ up = TRUE
    /\ conn = [c \in Conns |-> NoConn] /\ pane = [p \in PaneIds |-> NoPane]
    /\ shown = <<>> /\ focus = 0 /\ how = "columns" /\ at = "out" /\ doing = Nothing
    /\ asked = None /\ saved = [n \in Names |-> NoLayout] /\ written = NoLayout
    /\ owed = FALSE /\ unkept = {}
    /\ window \in Sizes /\ known = window /\ winch = FALSE /\ missed = FALSE
    /\ count = [sessions |-> 0, keys |-> 0, events |-> 0]
    /\ ScreenInit

----------------------------------------------------------------------------
(* The services, and what the daemon tells those attached to them. *)

Tell(n, reports, name) ==
    conn' = [c \in Conns |-> IF conn[c].name = n
                             THEN [conn[c] EXCEPT !.q = @ \o reports, !.name = name] ELSE conn[c]]

Happens ==
    /\ count.events < MaxEvents
    /\ count' = [count EXCEPT !.events = @ + 1]

Change ==
    /\ Happens
    /\ UNCHANGED <<up, view, at, doing, disk, owed, screen, size>>

Exits(n) ==
    /\ Change /\ svc[n] = "running"
    /\ svc' = [svc EXCEPT ![n] = "stopped"] /\ wish' = [wish EXCEPT ![n] = {}]
    /\ Tell(n, <<Finished, GoneAway>>, None)

Switches(n, ms) ==
    /\ Change /\ svc[n] = "running" /\ wish[n] # ms
    /\ wish' = [wish EXCEPT ![n] = ms]
    /\ Tell(n, <<[kind |-> "modes", modes |-> ms]>>, n)
    /\ UNCHANGED svc

Appears(n) ==
    /\ Change /\ svc[n] # "running"
    /\ svc' = [svc EXCEPT ![n] = "running"]
    /\ UNCHANGED <<wish, conn>>

\* By somebody else, or at the rename prompt of this session (see Rename).
RenameService(n, m) ==
    /\ svc[n] # "none" /\ svc[m] = "none"
    /\ svc' = [svc EXCEPT ![m] = svc[n], ![n] = "none"]
    /\ wish' = [wish EXCEPT ![m] = wish[n], ![n] = {}]

RenamedElsewhere(n, m) ==
    /\ Change /\ RenameService(n, m)
    /\ Tell(n, <<[kind |-> "renamed", name |-> m]>>, m)

DaemonGoes ==
    /\ Happens /\ up /\ up' = FALSE
    /\ conn' = [c \in Conns |-> IF conn[c].name # None
                                THEN [conn[c] EXCEPT !.q = Append(@, GoneAway), !.name = None]
                                ELSE conn[c]]
    /\ UNCHANGED <<svc, wish, view, at, doing, disk, owed, screen, size>>

DaemonComes ==
    /\ ~up /\ up' = TRUE
    /\ UNCHANGED <<svc, wish, conn, view, at, doing, disk, owed, screen, size, count>>

\* The signal waits for the session; between two of them nobody listens for it.
WindowChanges ==
    /\ Happens
    /\ window' \in Sizes \ {window}
    /\ IF at \in {"idle", "calling"} THEN winch' = TRUE /\ UNCHANGED missed
       ELSE missed' = (at = "between") /\ UNCHANGED winch
    /\ UNCHANGED <<service, conn, view, at, doing, disk, owed, screen, known>>

----------------------------------------------------------------------------
(* Connections and panes. *)

\* What becomes of connection c when it is attached to n for pane p and a
\* goroutine is set to read it.
Reading(n, p, replay, sz) ==
    LET before == IF replay THEN <<Drawn(n)>> ELSE <<>>
        runs == svc[n] = "running"
    IN  [name |-> IF runs THEN n ELSE None,
         q |-> before \o (IF runs THEN <<>> ELSE <<Finished, GoneAway>>),
         readers |-> 1, pane |-> p, size |-> sz]

\* Client.Close: the goroutine finds out and says so, last of all.
Closed(cn, c) ==
    IF c = None \/ cn[c].name = None THEN cn
    ELSE [cn EXCEPT ![c].name = None, ![c].q = Append(@, GoneAway)]

\* A new connection and a new pane: which of the unused ones makes no difference.
Unused == {c \in Conns : conn[c] = NoConn}
New == CHOOSE c \in Unused : TRUE
UnusedPanes == {p \in PaneIds : pane[p] = NoPane /\ \A c \in Conns : conn[c].pane # p}

\* What nobody refers to any more is as if it had never been.
TidyConns(cn, pn, sh) ==
    [c \in Conns |-> IF cn[c].q = <<>> /\ \A i \in DOMAIN sh : pn[sh[i]].conn # c
                     THEN NoConn ELSE cn[c]]
TidyPanes(cn, pn, sh) ==
    [p \in PaneIds |-> IF (\A i \in DOMAIN sh : sh[i] # p)
                          /\ \A c \in Conns : cn[c].pane # p \/ cn[c].q = <<>>
                       THEN NoPane ELSE pn[p]]

LayoutOf(pn, sh, fo, ho) ==
    [how |-> ho, focus |-> fo,
     panes |-> [i \in DOMAIN sh |-> [name |-> pn[sh[i]].name, weight |-> pn[sh[i]].weight]]]

\* The arrangements on disk when that of the n-th session's service is written.
Write(name, layout, n) ==
    {[saved EXCEPT ![name] = layout]} \cup IF n <= MaxRefused THEN {saved} ELSE {}

\* Written down when it is not what was written last.  A write may fail, and is
\* then believed to be done all the same.
Writes(layout) ==
    saved' \in IF layout = written THEN {saved} ELSE Write(asked, layout, count.sessions)

Remember(layout) ==
    /\ Writes(layout)
    /\ written' = layout
    /\ unkept' = IF layout = written THEN unkept \ {"renamed"}
                 ELSE IF saved'[asked] = layout THEN {} ELSE {"refused"}
    /\ UNCHANGED asked

Shows(pn, cn, sh, fo, ho) ==
    /\ pane' = TidyPanes(cn, pn, sh) /\ conn' = TidyConns(cn, pn, sh)
    /\ shown' = sh /\ focus' = fo /\ how' = ho

\* layoutPanes and resizePanes: every pane is given its part of the screen, and
\* its grid and the daemon are told how large it is.  A grid stays as it was when
\* it would be left with no cell.
HasRoom(rect) == rect.cols >= 1 /\ rect.rows >= 1
Resized(grid, rect) == IF HasRoom(rect) THEN SizeOf(rect) ELSE grid

Laid(pn, sh, ho, sz) ==
    LET rects == LayoutPanes([i \in DOMAIN sh |-> pn[sh[i]].weight], ho, sz.cols, sz.rows)
    IN  [p \in PaneIds |->
            IF \E i \in DOMAIN sh : sh[i] = p
            THEN LET i == CHOOSE i \in DOMAIN sh : sh[i] = p
                 IN  [pn[p] EXCEPT !.rect = rects[i], !.grid = Resized(pn[p].grid, rects[i])]
            ELSE pn[p]]
Told(cn, pn) ==
    [c \in Conns |-> IF cn[c].name # None /\ pn[cn[c].pane].conn = c
                     THEN [cn[c] EXCEPT !.size = SizeOf(pn[cn[c].pane].rect)] ELSE cn[c]]

Without(sh, i) == SubSeq(sh, 1, i - 1) \o SubSeq(sh, i + 1, Len(sh))
Focused == pane[shown[focus]]
Existing == {n \in Names : svc[n] # "none"}
OnScreen == {pane[shown[i]].name : i \in DOMAIN shown}

AllDone(pn, sh) == \A i \in DOMAIN sh : pn[sh[i]].finished \/ pn[sh[i]].frozen

\* The session returns, and every connection is closed behind it.
Ends ==
    /\ at' = "between" /\ doing' = Nothing /\ owed' = FALSE
    /\ pane' = [p \in PaneIds |-> NoPane] /\ conn' = [c \in Conns |-> NoConn]
    /\ shown' = <<>> /\ focus' = 0 /\ how' = "columns"
    /\ asked' = None /\ written' = NoLayout /\ unkept' = {}
    /\ missed' = (missed \/ winch) /\ winch' = FALSE
    /\ UNCHANGED <<window, known>>

Return == Ends /\ UNCHANGED saved

----------------------------------------------------------------------------
(* The beginning: one pane, or what was here last time. *)

PlaceIn(panes, n) ==
    IF \E i \in DOMAIN panes : panes[i].name = n
    THEN CHOOSE i \in DOMAIN panes :
            panes[i].name = n /\ \A j \in 1..(i - 1) : panes[j].name # n
    ELSE 0

\* restorePanes: the panes to open and which of them is the one asked for; the
\* others only if their service is still there.
Restored(layout, n, sz) ==
    LET i == PlaceIn(layout.panes, n)
        room == PaneRoom(layout.how, sz.cols, sz.rows)
        fit == Restorable(layout.panes, i, room)
        j == IF i > room THEN room ELSE i
        Opens(k) == k = j \/ svc[fit[k].name] # "none"
        places == {k \in DOMAIN fit : Opens(k)}
        UpTo(k) == Cardinality({x \in places : x <= k})
    IN  [panes |-> [m \in 1..Cardinality(places) |-> fit[CHOOSE k \in places : UpTo(k) = m]],
         focus |-> UpTo(j)]

Alone(n) == [panes |-> <<[name |-> n, weight |-> InitialWeight]>>, focus |-> 1]

\* The size of the window is read once, when the attach begins.
Looked == IF at = "out" THEN window ELSE known

\* What is shown is written down at once, whether or not it is all that was saved.
Begin(n) ==
    /\ at = "between" \/ (at = "out" /\ n \in Typed)
    /\ count.sessions < MaxSessions
    /\ up /\ svc[n] # "none"
    /\ known' = Looked
    /\ missed' = (missed /\ at = "between")
    /\ LET used == PlaceIn(saved[n].panes, n) # 0
           r == IF used THEN Restored(saved[n], n, Looked) ELSE Alone(n)
           ho == IF used THEN saved[n].how ELSE "columns"
           Choices(S) == {f \in [DOMAIN r.panes -> S] : IsInjective(f)}
           ps == CHOOSE f \in Choices(UnusedPanes) : TRUE
           cs == CHOOSE f \in Choices(Unused) : TRUE
           Which(p) == CHOOSE i \in DOMAIN ps : ps[i] = p
           First(i) == [NoPane EXCEPT !.name = r.panes[i].name, !.conn = cs[i],
                                      !.weight = r.panes[i].weight, !.grid = Looked,
                                      !.ran = svc[r.panes[i].name] = "running"
                                              /\ (i # r.focus \/ saved[n] = NoLayout)]
           pn == Laid([p \in PaneIds |-> IF \E i \in DOMAIN ps : ps[i] = p
                                         THEN First(Which(p)) ELSE NoPane], ps, ho, Looked)
           cn == [c \in Conns |->
                    IF \E i \in DOMAIN cs : cs[i] = c
                    THEN LET i == CHOOSE i \in DOMAIN cs : cs[i] = c
                         IN  Reading(r.panes[i].name, ps[i], TRUE, SizeOf(pn[ps[i]].rect))
                    ELSE NoConn]
           layout == LayoutOf(pn, ps, r.focus, ho)
       IN  /\ Choices(UnusedPanes) # {} /\ Choices(Unused) # {}
           /\ Shows(pn, cn, ps, r.focus, ho)
           /\ asked' = n /\ written' = layout
           /\ saved' \in Write(n, layout, count.sessions + 1)
           /\ unkept' = (IF saved'[n] = layout THEN {} ELSE {"refused"})
                          \cup (IF saved[n] = NoLayout
                                   \/ (used /\ Len(r.panes) = Len(saved[n].panes))
                                THEN {} ELSE {"left out"})
    /\ Paint({})
    /\ at' = "idle" /\ owed' = FALSE
    /\ count' = [count EXCEPT !.sessions = @ + 1]
    /\ UNCHANGED <<service, doing, window, winch>>

\* The attach is over: the terminal is given back.
Leave ==
    /\ at = "between" /\ at' = "out"
    /\ CloseScreen
    /\ UNCHANGED <<service, conn, view, doing, disk, owed, size, count>>

----------------------------------------------------------------------------
(* Commands. *)

Press ==
    /\ at = "idle" /\ count.keys < MaxKeys
    /\ count' = [count EXCEPT !.keys = @ + 1]

Many == Len(shown) > 1

\* A command has been carried out: drawn, and written down.
Done(pn, cn, sh, fo, ho) ==
    /\ Shows(pn, cn, sh, fo, ho)
    /\ Paint(pn[sh[fo]].modes)
    /\ Remember(LayoutOf(pn, sh, fo, ho))
    /\ at' = "idle" /\ doing' = Nothing
    /\ UNCHANGED <<owed, size>>

\* The panes have their places anew.
Relaid(pn, cn, sh, fo, ho) ==
    LET laid == Laid(pn, sh, ho, known) IN Done(laid, Told(cn, laid), sh, fo, ho)

\* What leads to a call, and what is asked of the daemon before it.
Asks(cmd, n, status) ==
    /\ at' = "calling"
    /\ doing' = [cmd |-> cmd, name |-> n, ran |-> status = "running"]
    /\ UNCHANGED <<conn, view, disk, owed, screen, size>>

SplitLooks(orientation) ==
    /\ Press /\ up /\ UnusedPanes # {}
    /\ \E n \in Existing \ OnScreen : Asks(orientation, n, svc[n])
    /\ UNCHANGED service

\* n and p, and the tabs by number.
SwitchLooks ==
    /\ Press /\ up /\ Many
    /\ \E n \in Existing \ {Focused.name} : Asks("swap", n, svc[n])
    /\ UNCHANGED service

Create ==
    /\ Press /\ up /\ Many
    /\ \E n \in Names \ Existing :
          /\ svc' = [svc EXCEPT ![n] = "running"]
          /\ Asks("swap", n, "running")
    /\ UNCHANGED <<wish, up>>

\* Its service is started if it has stopped.
Revive ==
    /\ Press /\ up /\ Focused.name \in Existing
    /\ svc' = [svc EXCEPT ![Focused.name] = "running"]
    /\ Asks("swap", Focused.name, "running")
    /\ UNCHANGED <<wish, up>>

\* Before the panes are laid out.
FirstGuess == [cols |-> Larger(known.cols \div (Len(shown) + 1), 1), rows |-> known.rows]

OpenPane ==
    /\ at = "calling" /\ doing.cmd \in {"columns", "rows"}
    /\ up /\ svc[doing.name] # "none"
    /\ Unused # {} /\ UnusedPanes # {}
    /\ LET c == New
           p == CHOOSE p \in UnusedPanes : TRUE
       IN  Relaid([pane EXCEPT ![p] = [NoPane EXCEPT !.name = doing.name, !.conn = c,
                                                     !.ran = doing.ran, !.grid = FirstGuess]],
                  [conn EXCEPT ![c] = Reading(doing.name, p, TRUE, FirstGuess)],
                  Append(shown, p), Len(shown) + 1, doing.cmd)
    /\ UNCHANGED <<service, count>>

\* grid.New: no grid is without a cell.
NewGrid(rect) == [cols |-> Larger(rect.cols, 1), rows |-> Larger(rect.rows, 1)]

\* The focused pane with connection c to the service the call is about.
Swapped(c) ==
    [pane EXCEPT ![shown[focus]] =
        [NoPane EXCEPT !.name = doing.name, !.conn = c, !.ran = doing.ran,
                       !.weight = Focused.weight, !.rect = Focused.rect,
                       !.grid = NewGrid(Focused.rect)]]

\* Mutant: nobody reads the new connection.
SwapUnread ==
    /\ at = "calling" /\ doing.cmd = "swap"
    /\ up /\ svc[doing.name] # "none"
    /\ Unused # {}
    /\ LET c == New
       IN  Done(Swapped(c),
                [Closed(conn, Focused.conn) EXCEPT ![c] =
                    [Reading(doing.name, shown[focus], TRUE, SizeOf(Focused.rect))
                        EXCEPT !.readers = 0]],
                shown, focus, how)
    /\ UNCHANGED <<service, count>>

\* swapPane: another connection and a grid that nothing has been drawn on.
SwapPane ==
    /\ at = "calling" /\ doing.cmd = "swap"
    /\ up /\ svc[doing.name] # "none"
    /\ Unused # {}
    /\ LET c == New
       IN  Done(Swapped(c),
                [Closed(conn, Focused.conn) EXCEPT ![c] =
                    Reading(doing.name, shown[focus], TRUE, SizeOf(Focused.rect))],
                shown, focus, how)
    /\ UNCHANGED <<service, count>>

\* The service has gone or the daemon has: said, and no pane is changed.  Only a
\* split is not followed by writing the arrangement down.
CallFails ==
    /\ at = "calling" /\ (~up \/ svc[doing.name] = "none")
    /\ at' = "idle" /\ doing' = Nothing
    /\ Paint(Focused.modes)
    /\ IF doing.cmd = "swap" THEN Remember(LayoutOf(pane, shown, focus, how)) ELSE UNCHANGED disk
    /\ UNCHANGED <<service, conn, view, owed, size, count>>

\* The focused pane and its connection are taken off; the focus is the pane after.
DropFocused(cn) ==
    LET sh == Without(shown, focus)
    IN  Relaid([pane EXCEPT ![shown[focus]].closed = TRUE], Closed(cn, Focused.conn), sh,
               IF focus > Len(sh) THEN 1 ELSE focus, how)

ClosePane ==
    /\ Press /\ Many
    /\ DropFocused(conn)
    /\ UNCHANGED service

\* Everybody attached to it hears that it is over, or only loses the connection.
Remove ==
    /\ Press /\ Many /\ up /\ Focused.name \in Existing
    /\ svc' = [svc EXCEPT ![Focused.name] = "none"] /\ wish' = [wish EXCEPT ![Focused.name] = {}]
    /\ \E last \in {<<GoneAway>>, <<Finished, GoneAway>>} :
          DropFocused([c \in Conns |-> IF conn[c].name = Focused.name
                                       THEN [conn[c] EXCEPT !.q = @ \o last, !.name = None]
                                       ELSE conn[c]])
    /\ UNCHANGED up

\* The daemon tells of it as well; a pane is called by the new name at once.
Rename(m) ==
    /\ Press /\ up /\ RenameService(Focused.name, m)
    /\ Done([pane EXCEPT ![shown[focus]].name = m],
            [c \in Conns |-> IF conn[c].name = Focused.name
                             THEN [conn[c] EXCEPT !.q = Append(@, [kind |-> "renamed", name |-> m]),
                                                  !.name = m] ELSE conn[c]],
            shown, focus, how)
    /\ UNCHANGED up

Grow(step) ==
    /\ Press /\ Many
    /\ Relaid([pane EXCEPT ![shown[focus]].weight = Grown(@, step, Len(shown))], conn, shown,
              focus, how)
    /\ UNCHANGED service

Focus ==
    /\ Press /\ Many
    /\ Done(pane, conn, shown, (focus % Len(shown)) + 1, how)
    /\ UNCHANGED service

\* What leaves the panes as they are: reading back, moving a tab.
Scrolls ==
    /\ Press
    /\ Done(pane, conn, shown, focus, how)
    /\ UNCHANGED service

Forget ==
    /\ Press
    /\ Redraw(Focused.modes)
    /\ Remember(LayoutOf(pane, shown, focus, how))
    /\ UNCHANGED <<service, conn, view, at, doing, owed, size>>

\* Detach; and, with one pane, what the loop outside sees to.
Returns ==
    /\ Press
    /\ Return
    /\ UNCHANGED <<service, screen>>

\* A key for a pane whose connection has ended and that is not frozen: the write
\* fails, and the session with it.
KeyFails ==
    /\ at = "idle" /\ ~Focused.frozen /\ conn[Focused.conn].name = None
    /\ Return
    /\ UNCHANGED <<service, screen, count>>

----------------------------------------------------------------------------
(* What the goroutines report. *)

Taken(c) ==
    [conn EXCEPT ![c].q = Tail(@),
                 ![c].readers = IF Head(conn[c].q) = GoneAway THEN @ - 1 ELSE @]

\* Drawn now or later; and that is the end when no pane has anything to say.
After(pn, cn, sh, fo) ==
    IF AllDone(pn, sh)
    THEN Ends /\ Paint(pn[sh[fo]].modes)
    ELSE /\ Shows(pn, cn, sh, fo, how)
         /\ UNCHANGED <<at, doing, size>>
         /\ \/ Paint(pn[sh[fo]].modes) /\ owed' = FALSE
            \/ owed' = TRUE /\ UNCHANGED screen

\* Mutant: only a closed pane's reports are ignored.
StaleClosed(c) == pane[conn[c].pane].closed

\* From a pane that is off the screen, or a connection its pane has moved on from.
Stale(c) == pane[conn[c].pane].closed \/ pane[conn[c].pane].conn # c

Report(c, kind) == at = "idle" /\ conn[c].q # <<>> /\ Head(conn[c].q).kind = kind

TakeStale(c) ==
    /\ at = "idle" /\ conn[c].q # <<>> /\ Stale(c)
    /\ After(pane, Taken(c), shown, focus)
    /\ IF AllDone(pane, shown) THEN UNCHANGED saved ELSE UNCHANGED disk
    /\ UNCHANGED <<service, count>>

TakeModes(c) ==
    /\ Report(c, "modes") /\ ~Stale(c)
    /\ LET pn == [pane EXCEPT ![conn[c].pane].modes = Head(conn[c].q).modes]
       IN  /\ After(pn, Taken(c), shown, focus)
           /\ IF AllDone(pn, shown) THEN UNCHANGED saved ELSE UNCHANGED disk
    /\ UNCHANGED <<service, count>>

TakeRenamed(c) ==
    /\ Report(c, "renamed") /\ ~Stale(c)
    /\ LET pn == [pane EXCEPT ![conn[c].pane].name = Head(conn[c].q).name]
       IN  /\ After(pn, Taken(c), shown, focus)
           /\ UNCHANGED saved
           /\ IF AllDone(pn, shown) THEN TRUE
              ELSE /\ unkept' = IF pn = pane THEN unkept ELSE unkept \cup {"renamed"}
                   /\ UNCHANGED <<asked, written>>
    /\ UNCHANGED <<service, count>>

\* Mutant: a pane that closes by itself is not written down.
TakeFinishedUnsaid(c) ==
    /\ Report(c, "finished") /\ ~Stale(c)
    /\ LET p == conn[c].pane
           i == CHOOSE i \in DOMAIN shown : shown[i] = p
           pn == [pane EXCEPT ![p].finished = TRUE, ![p].closed = pane[p].ran /\ Many]
           sh == Without(shown, i)
           fo == IF focus > Len(sh) THEN Len(sh) ELSE IF focus > i THEN focus - 1 ELSE focus
           laid == Laid(pn, sh, how, known)
       IN  IF pn[p].closed
           THEN /\ After(laid, Told(Closed(Taken(c), c), laid), sh, fo)
                /\ IF AllDone(pn, sh) THEN UNCHANGED saved ELSE UNCHANGED disk
           ELSE /\ After(pn, Taken(c), shown, focus)
                /\ IF AllDone(pn, shown) THEN UNCHANGED saved ELSE UNCHANGED disk
    /\ UNCHANGED <<service, count>>

\* Natural death: the pane goes when its service does, unless it was put on a
\* service that had stopped already or is the only one.  That is written down
\* before it is known whether the session goes on.
TakeFinished(c) ==
    /\ Report(c, "finished") /\ ~Stale(c)
    /\ LET p == conn[c].pane
           i == CHOOSE i \in DOMAIN shown : shown[i] = p
           pn == [pane EXCEPT ![p].finished = TRUE, ![p].closed = pane[p].ran /\ Many]
           sh == Without(shown, i)
           fo == IF focus > Len(sh) THEN Len(sh) ELSE IF focus > i THEN focus - 1 ELSE focus
           laid == Laid(pn, sh, how, known)
       IN  IF pn[p].closed
           THEN /\ After(laid, Told(Closed(Taken(c), c), laid), sh, fo)
                /\ LET layout == LayoutOf(pn, sh, fo, how)
                   IN  IF AllDone(pn, sh) THEN Writes(layout) ELSE Remember(layout)
           ELSE /\ After(pn, Taken(c), shown, focus)
                /\ IF AllDone(pn, shown) THEN UNCHANGED saved ELSE UNCHANGED disk
    /\ UNCHANGED <<service, count>>

\* reopenPane: the connection is made again and the grid kept.  The wait for a
\* daemon may end without one.
TakeGone(c) ==
    /\ Report(c, "gone") /\ ~Stale(c)
    /\ LET p == conn[c].pane
           back == up /\ svc[pane[p].name] # "none"
       IN  IF pane[p].finished
           THEN /\ After(pane, Taken(c), shown, focus)
                /\ IF AllDone(pane, shown) THEN UNCHANGED saved ELSE UNCHANGED disk
           ELSE IF back
           THEN /\ Unused # {}
                /\ After([pane EXCEPT ![p].conn = New],
                         [Taken(c) EXCEPT ![New] = Reading(pane[p].name, p, FALSE, pane[p].grid)],
                         shown, focus)
                /\ UNCHANGED disk
           ELSE LET pn == [pane EXCEPT ![p].frozen = TRUE]
                IN  /\ After(pn, Taken(c), shown, focus)
                    /\ IF AllDone(pn, shown) THEN UNCHANGED saved ELSE UNCHANGED disk
    /\ UNCHANGED <<service, count>>

Due ==
    /\ at = "idle" /\ owed
    /\ owed' = FALSE
    /\ Paint(Focused.modes)
    /\ UNCHANGED <<service, conn, view, at, doing, disk, size, count>>

\* The screen has the size of the window again.
Winch ==
    /\ at = "idle" /\ winch
    /\ known' = window /\ winch' = FALSE /\ missed' = FALSE
    /\ LET laid == Laid(pane, shown, how, window)
       IN  Shows(laid, Told(conn, laid), shown, focus, how)
    /\ Paint(Focused.modes)
    /\ UNCHANGED <<service, at, doing, disk, owed, window, count>>

----------------------------------------------------------------------------

Next ==
    \/ \E n \in Names : \/ Exits(n) \/ Appears(n)
                        \/ \E ms \in SUBSET Modes : Switches(n, ms)
                        \/ \E m \in Names : RenamedElsewhere(n, m) \/ Rename(m)
    \/ DaemonGoes \/ DaemonComes \/ WindowChanges
    \/ \E n \in Names : Begin(n)
    \/ Leave
    \/ \E o \in {"columns", "rows"} : SplitLooks(o)
    \/ SwitchLooks \/ Create \/ Revive \/ OpenPane \/ SwapPane \/ CallFails
    \/ ClosePane \/ Remove \/ Focus \/ Scrolls \/ Forget \/ Returns \/ KeyFails
    \/ \E step \in {-1, 1} : Grow(step)
    \/ \E c \in Conns : \/ TakeStale(c) \/ TakeModes(c) \/ TakeRenamed(c)
                        \/ TakeFinished(c) \/ TakeGone(c)
    \/ Due \/ Winch

Spec == Init /\ [][Next]_vars

----------------------------------------------------------------------------
(* What the session keeps straight. *)

\* A connection has one reader as long as it has anything to say and a pane goes
\* by it: none would leave a pane that drew once and never moves, and two would
\* read each other's frames apart.
OneReader ==
    /\ \A c \in Conns : conn[c].readers <= 1
    /\ \A i \in DOMAIN shown :
          LET p == pane[shown[i]]
          IN  conn[p.conn].readers = 1 \/ p.finished \/ p.frozen

\* What is called name now is n once all of these reports have been taken.
Becomes(q, name, n) ==
    LET renames == {i \in DOMAIN q : q[i].kind = "renamed"}
    IN  IF renames = {} THEN name = n
        ELSE \E last \in renames : q[last].name = n /\ \A i \in renames : i <= last

\* What remove, revive, rename and next go by is the name of the service that the
\* pane shows: no report of an earlier connection or name changes it, and a
\* rename not heard of yet is on its way.
PaneNamed ==
    at = "idle" =>
        \A i \in DOMAIN shown :
            LET p == pane[shown[i]]
            IN  conn[p.conn].name # None => Becomes(conn[p.conn].q, p.name, conn[p.conn].name)

\* Whenever the session waits, the arrangement on the screen is the one on disk,
\* since a client is more often cut off than detached.  Not so until the next
\* change after a write that failed, after a restore that left something out, and
\* after a service was renamed, which is written with the next command.
LayoutKept == at = "idle" /\ unkept = {} => saved[asked] = LayoutOf(pane, shown, focus, how)

\* The grid of each pane that has a cell and the daemon at the other end know how
\* large it is, and the session the window: but for one that changed while no
\* session ran.
SizesTold ==
    shown # <<>> =>
        /\ winch \/ missed \/ known = window
        /\ \A i \in DOMAIN shown :
              LET p == pane[shown[i]]
              IN  HasRoom(p.rect) =>
                      /\ p.grid = SizeOf(p.rect)
                      /\ conn[p.conn].name # None => conn[p.conn].size = p.grid

\* The panes share the window out: each has room, none lies on another and
\* nothing is left over, as long as there is a cell to a fifth of a weight.
PanesFit ==
    LET weights == [i \in DOMAIN shown |-> pane[shown[i]].weight]
        rects == [i \in DOMAIN shown |-> pane[shown[i]].rect]
        room == IF how = "rows" THEN known.rows ELSE known.cols - (Len(shown) - 1)
    IN  /\ SizesTold
        /\ shown # <<>> /\ Total(weights) <= room => Fits(rects, known.cols, known.rows)

\* The terminal is in the modes of the pane that has the keyboard, whenever no
\* repaint is owed, and in none of them when the attach is over; but for those a
\* redraw took for granted.
KeyboardModes ==
    /\ at = "idle" /\ ~owed => Differs(term, Focused.modes) \subseteq askew
    /\ at = "out" => term \subseteq askew

=============================================================================
