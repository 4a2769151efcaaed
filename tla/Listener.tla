------------------------------ MODULE Listener ------------------------------
(***************************************************************************)
(* The daemon's socket: how a daemon comes to listen on it, gives it up and *)
(* hands it on, and what becomes of the clients that connect meanwhile.     *)
(*                                                                         *)
(* The path is a name on disk that leads to a socket or to none; a socket   *)
(* outlives its name and its daemon as long as anybody holds a descriptor   *)
(* of it - a daemon, systemd's store, or a service that inherited one - and *)
(* a connect to it succeeds as long as that lasts.  Daemons in Managed run  *)
(* under the systemd unit, one at a time and with the store; the others are *)
(* started by hand, whenever somebody does.                                 *)
(*                                                                         *)
(* Left out: a full backlog, a connection that hangs up by itself, the      *)
(* failures of dup, chmod and sd_notify, a store that holds a socket of     *)
(* another path, and the failures of Listen before it looks at the path.    *)
(***************************************************************************)
EXTENDS Naturals, FiniteSets

CONSTANTS Daemons,     \* gozellijd processes at a time
          Managed,     \* those that are the systemd unit's main process
          Clients,     \* each connects once: a bound
          Socks,       \* sockets in existence at a time
          None,        \* no socket, no daemon
          MaxDeaths,   \* bound: daemons killed, crashed, or ended by Accept
          MaxStops,    \* bound: SIGTERMs
          MaxUpgrades  \* bound: upgrades begun

ASSUME ListenerAssumption ==
    /\ Managed \subseteq Daemons
    /\ None \notin Daemons \cup Socks
    /\ MaxDeaths \in Nat /\ MaxStops \in Nat /\ MaxUpgrades \in Nat

VARIABLES
    path,       \* the socket the path leads to
    listening,  \* sockets listen has been called on
    store,      \* the socket systemd holds for the unit
    unit,       \* "off", "running", "restart" (to be started again), "stop"
    kids,       \* sockets a service inherited a descriptor of
    daemon,     \* the daemons
    client,     \* the clients and their connections
    robbed,     \* history: sockets whose name was removed on a stale verdict
    count       \* history: deaths, stops and upgrades so far

vars == <<path, listening, store, unit, kids, daemon, client, robbed, count>>

\* given is a descriptor handed over at the start, by the unit's store or by
\* the image before an exec; made, that net.Listen made the socket; saw, the
\* abandoned socket clearStaleSocket found; leak, what a failed upgrade left.
Off == [at |-> "off", ln |-> None, given |-> None, made |-> FALSE, held |-> FALSE,
        saw |-> None, leak |-> None, serving |-> FALSE]

Away == [at |-> "away", sock |-> None, by |-> None, open |-> TRUE]
Cut == [Away EXCEPT !.at = "cut"]
Done == [Away EXCEPT !.at = "done"]

Stages == {"off", "booting", "dialling", "clearing", "binding", "bound", "up",
           "closing", "shut", "hung", "drained"}

TypeOK ==
    /\ path \in Socks \cup {None} /\ listening \subseteq Socks
    /\ store \in Socks \cup {None} /\ kids \subseteq Socks /\ robbed \subseteq Socks
    /\ unit \in {"off", "running", "restart", "stop"}
    /\ daemon \in [Daemons -> [at : Stages, ln : Socks \cup {None}, given : Socks \cup {None},
                               made : BOOLEAN, held : BOOLEAN, saw : Socks \cup {None},
                               leak : Socks \cup {None}, serving : BOOLEAN]]
    /\ client \in [Clients -> [at : {"away", "queued", "taken", "listed", "asked", "answered",
                                     "done", "cut", "refused"},
                               sock : Socks \cup {None}, by : Daemons \cup {None},
                               open : BOOLEAN]]
    /\ count \in [deaths : 0..MaxDeaths, stops : 0..MaxStops, upgrades : 0..MaxUpgrades]

Init ==
    /\ path = None /\ listening = {} /\ store = None /\ unit = "off" /\ kids = {}
    /\ daemon = [d \in Daemons |-> Off] /\ client = [c \in Clients |-> Away]
    /\ robbed = {} /\ count = [deaths |-> 0, stops |-> 0, upgrades |-> 0]

----------------------------------------------------------------------------
(* Who holds a socket, and what a client's connection hangs on. *)

Opened(dm, d) ==
    {dm[d].given, dm[d].leak} \cup
    (IF dm[d].at \in {"bound", "up", "closing"} THEN {dm[d].ln} ELSE {})

HeldBy(dm, st, ks) == ({st} \cup ks \cup UNION {Opened(dm, d) : d \in Daemons}) \ {None}

Holders == HeldBy(daemon, store, kids)

\* A connect gets through, into the backlog.
Connects(s) == s \in listening \cap Holders

\* The backlog of a socket goes with its last descriptor.
Reset(cl, held) ==
    [c \in Clients |-> IF cl[c].at = "queued" /\ cl[c].sock \notin held
                       THEN Cut ELSE cl[c]]

\* A connection goes with its daemon.
CutBy(d) ==
    [c \in Clients |-> IF client[c].by # d THEN client[c]
                       ELSE IF client[c].at = "answered" THEN Done ELSE Cut]

\* Process d is no more.  systemd starts the unit again after a failure, and for
\* a restart, and keeps the store for that; otherwise it lets go of it.
Gone(d, failed) ==
    LET again == unit = "restart" \/ (failed /\ unit = "running")
        dm == [daemon EXCEPT ![d] = Off]
        st == IF d \in Managed /\ ~again THEN None ELSE store
    IN  /\ daemon' = dm
        /\ store' = st
        /\ unit' = IF d \notin Managed THEN unit ELSE IF again THEN "restart" ELSE "off"
        /\ client' = Reset(CutBy(d), HeldBy(dm, st, kids))

Goes(d, at) == daemon' = [daemon EXCEPT ![d].at = at]

\* Whatever the path leads to loses its name; the name was another's.
Unname(own) ==
    /\ path' = None
    /\ robbed' = IF path \in {None, own} THEN robbed ELSE robbed \cup {path}

----------------------------------------------------------------------------
(* Starting: what is handed over, or a socket of its own. *)

ByHand(d) ==
    /\ d \notin Managed /\ daemon[d].at = "off"
    /\ Goes(d, "booting")
    /\ UNCHANGED <<path, listening, store, unit, kids, client, robbed, count>>

StartUnit(d) ==
    /\ d \in Managed /\ \A e \in Managed : daemon[e].at = "off"
    /\ unit \in {"off", "restart"} /\ unit' = "running"
    /\ daemon' = [daemon EXCEPT ![d].at = "booting", ![d].given = store]
    /\ UNCHANGED <<path, listening, store, kids, client, robbed, count>>

Adopt(d) ==
    /\ daemon[d].at = "booting" /\ daemon[d].given # None
    /\ daemon' = [daemon EXCEPT ![d] = [Off EXCEPT !.at = "up", !.ln = daemon[d].given,
                                                   !.held = d \in Managed, !.serving = TRUE]]
    /\ UNCHANGED <<path, listening, store, unit, kids, client, robbed, count>>

Stat(d) ==
    /\ daemon[d].at = "booting" /\ daemon[d].given = None
    /\ Goes(d, IF path = None THEN "binding" ELSE "dialling")
    /\ UNCHANGED <<path, listening, store, unit, kids, client, robbed, count>>

\* Mutant: the stale socket is removed without asking.
DialNobody(d) ==
    /\ daemon[d].at = "dialling"
    /\ daemon' = [daemon EXCEPT ![d].at = "clearing", ![d].saw = path]
    /\ UNCHANGED <<path, listening, store, unit, kids, client, robbed, count>>

\* Nobody there, as far as a connect can tell: a socket between bind and listen
\* refuses as an abandoned one does.
Dial(d) ==
    /\ daemon[d].at = "dialling" /\ ~Connects(path)
    /\ daemon' = [daemon EXCEPT ![d].at = "clearing",
                                ![d].saw = IF path \in Holders THEN None ELSE path]
    /\ UNCHANGED <<path, listening, store, unit, kids, client, robbed, count>>

\* ErrDaemonRunning, or EADDRINUSE from bind.
Refused(d) ==
    /\ \/ daemon[d].at = "dialling" /\ Connects(path)
       \/ daemon[d].at = "binding" /\ path # None
    /\ Gone(d, TRUE)
    /\ UNCHANGED <<path, listening, kids, robbed, count>>

Clear(d) ==
    /\ daemon[d].at = "clearing"
    /\ daemon' = [daemon EXCEPT ![d].at = "binding", ![d].saw = None]
    /\ Unname(daemon[d].saw)
    /\ UNCHANGED <<listening, store, unit, kids, client, count>>

\* A socket nobody has a descriptor of, or knows, is a new one.
Fresh == Socks \ (Holders \cup UNION {{daemon[e].ln, daemon[e].saw} : e \in Daemons})

Bind(d) ==
    /\ daemon[d].at = "binding" /\ path = None /\ Fresh # {}
    /\ LET s == CHOOSE s \in Fresh : TRUE
       IN  /\ path' = s /\ listening' = listening \ {s} /\ robbed' = robbed \ {s}
           /\ daemon' = [daemon EXCEPT ![d].at = "bound", ![d].ln = s, ![d].made = TRUE]
    /\ UNCHANGED <<store, unit, kids, client, count>>

\* systemd is given a copy where there is a systemd.
StoreListener(d) == IF d \in Managed THEN daemon[d].ln ELSE store

Listens(d) ==
    /\ daemon[d].at = "bound"
    /\ listening' = listening \cup {daemon[d].ln}
    /\ daemon' = [daemon EXCEPT ![d].at = "up", ![d].held = d \in Managed, ![d].serving = TRUE]
    /\ store' = StoreListener(d)
    /\ UNCHANGED <<path, unit, kids, client, robbed, count>>

----------------------------------------------------------------------------
(* Serving: the accept loop and the handlers. *)

Connect(c) ==
    /\ client[c].at = "away"
    /\ client' = [client EXCEPT ![c] = IF path # None /\ Connects(path)
                                       THEN [Away EXCEPT !.at = "queued", !.sock = path]
                                       ELSE [Away EXCEPT !.at = "refused"]]
    /\ UNCHANGED <<path, listening, store, unit, kids, daemon, robbed, count>>

\* Serve has one connection in hand at a time.
InHand(d) == \E c \in Clients : client[c].by = d /\ client[c].at \in {"taken", "listed"}

\* Mutant: the connection is put on the list whether or not the server closes.
RegisterLate(d, c) ==
    /\ client[c].at = "taken" /\ client[c].by = d
    /\ client' = [client EXCEPT ![c].at = "listed"]
    /\ UNCHANGED <<path, listening, store, unit, kids, daemon, robbed, count>>

Accept(d, c) ==
    /\ daemon[d].serving /\ ~InHand(d)
    /\ daemon[d].at \in {"up", "closing"}
    /\ client[c].at = "queued" /\ client[c].sock = daemon[d].ln
    /\ client' = [client EXCEPT ![c].at = "taken", ![c].by = d]
    /\ UNCHANGED <<path, listening, store, unit, kids, daemon, robbed, count>>

Register(d, c) ==
    /\ client[c].at = "taken" /\ client[c].by = d /\ daemon[d].at = "up"
    /\ client' = [client EXCEPT ![c].at = "listed"]
    /\ UNCHANGED <<path, listening, store, unit, kids, daemon, robbed, count>>

\* Closed meanwhile: Serve hangs up and returns.
TurnAway(d, c) ==
    /\ client[c].at = "taken" /\ client[c].by = d /\ daemon[d].at # "up"
    /\ client' = [client EXCEPT ![c] = Cut]
    /\ daemon' = [daemon EXCEPT ![d].serving = FALSE]
    /\ UNCHANGED <<path, listening, store, unit, kids, robbed, count>>

\* wg.Add, outside the lock that registered it; then the request, if the
\* connection has not been closed meanwhile.
Handle(d, c) ==
    /\ client[c].at = "listed" /\ client[c].by = d
    /\ client' = [client EXCEPT ![c] = IF client[c].open THEN [@ EXCEPT !.at = "asked"] ELSE Cut]
    /\ UNCHANGED <<path, listening, store, unit, kids, daemon, robbed, count>>

Answer(d, c) ==
    /\ client[c].at = "asked" /\ client[c].by = d
    /\ client' = [client EXCEPT ![c] = IF client[c].open THEN [@ EXCEPT !.at = "answered"] ELSE Cut]
    /\ UNCHANGED <<path, listening, store, unit, kids, daemon, robbed, count>>

\* The handler waits for the next request until either end hangs up.
Drop(d, c) ==
    /\ client[c].by = d /\ client[c].at = "answered" /\ ~client[c].open
    /\ client' = [client EXCEPT ![c] = Done]
    /\ UNCHANGED <<path, listening, store, unit, kids, daemon, robbed, count>>

ClientLeaves(c) ==
    /\ client[c].at = "answered" /\ client[c].open
    /\ client' = [client EXCEPT ![c].open = FALSE]
    /\ UNCHANGED <<path, listening, store, unit, kids, daemon, robbed, count>>

----------------------------------------------------------------------------
(* Stopping: Server.Close, on SIGTERM. *)

Term(d) ==
    /\ daemon[d].at = "up" /\ count.stops < MaxStops
    /\ Goes(d, "closing")
    /\ \/ d \notin Managed /\ unit' = unit
       \/ d \in Managed /\ unit' \in {"stop", "restart"}
    /\ count' = [count EXCEPT !.stops = @ + 1]
    /\ UNCHANGED <<path, listening, store, kids, client, robbed>>

\* The listener unlinks what it made, unless told that systemd has it.
CloseListener(d) ==
    /\ daemon[d].at = "closing"
    /\ Goes(d, "shut")
    /\ IF daemon[d].made /\ ~daemon[d].held THEN Unname(daemon[d].ln)
       ELSE UNCHANGED <<path, robbed>>
    /\ client' = Reset(client, HeldBy([daemon EXCEPT ![d].at = "shut"], store, kids))
    /\ UNCHANGED <<listening, store, unit, kids, count>>

\* Mutant: the clients are left to hang up themselves.
HangUpNobody(d) ==
    /\ daemon[d].at = "shut"
    /\ Goes(d, "hung")
    /\ UNCHANGED <<path, listening, store, unit, kids, client, robbed, count>>

\* Every connection on the list when the flag was set; none is added after.
HangUp(d) ==
    /\ daemon[d].at = "shut"
    /\ Goes(d, "hung")
    /\ client' = [c \in Clients |-> IF client[c].by = d /\ client[c].at # "taken"
                                    THEN [client[c] EXCEPT !.open = FALSE] ELSE client[c]]
    /\ UNCHANGED <<path, listening, store, unit, kids, robbed, count>>

Waited(d) ==
    /\ daemon[d].at = "hung"
    /\ \A c \in Clients : client[c].by = d => client[c].at \in {"taken", "listed"}
    /\ Goes(d, "drained")
    /\ UNCHANGED <<path, listening, store, unit, kids, client, robbed, count>>

\* Mutant: a socket systemd holds loses its path with the rest.
LeaveNothing(d) ==
    /\ daemon[d].at = "drained"
    /\ Unname(daemon[d].ln)
    /\ Gone(d, FALSE)
    /\ UNCHANGED <<listening, kids, count>>

\* The path is removed once more, by name, and the process ends.
Leave(d) ==
    /\ daemon[d].at = "drained"
    /\ IF daemon[d].held THEN UNCHANGED <<path, robbed>> ELSE Unname(daemon[d].ln)
    /\ Gone(d, FALSE)
    /\ UNCHANGED <<listening, kids, count>>

\* A crash, a SIGKILL, or an Accept that failed.
Dies(d) ==
    /\ daemon[d].at # "off" /\ count.deaths < MaxDeaths
    /\ Gone(d, TRUE)
    /\ count' = [count EXCEPT !.deaths = @ + 1]
    /\ UNCHANGED <<path, listening, kids, robbed>>

----------------------------------------------------------------------------
(* Upgrading: the exec keeps the pid and one descriptor of the socket. *)

KeepListenerAcrossExec(d) == daemon[d].ln

Exec(d) ==
    /\ daemon[d].at = "up" /\ count.upgrades < MaxUpgrades
    /\ daemon' = [daemon EXCEPT ![d] = [Off EXCEPT !.at = "booting",
                                                   !.given = KeepListenerAcrossExec(d),
                                                   !.leak = daemon[d].leak]]
    /\ client' = CutBy(d)
    /\ count' = [count EXCEPT !.upgrades = @ + 1]
    /\ UNCHANGED <<path, listening, store, unit, kids, robbed>>

\* No binary to exec: the descriptor made for it stays open ...
ExecFails(d) ==
    /\ daemon[d].at = "up" /\ count.upgrades < MaxUpgrades
    /\ daemon' = [daemon EXCEPT ![d].leak = KeepListenerAcrossExec(d)]
    /\ count' = [count EXCEPT !.upgrades = @ + 1]
    /\ UNCHANGED <<path, listening, store, unit, kids, client, robbed>>

\* ... and the next service to be started inherits it.
ServiceStarts(d) ==
    /\ daemon[d].at = "up" /\ daemon[d].leak # None
    /\ kids' = kids \cup {daemon[d].leak}
    /\ UNCHANGED <<path, listening, store, unit, daemon, client, robbed, count>>

----------------------------------------------------------------------------

Serves(d, c) ==
    \/ Accept(d, c) \/ Register(d, c) \/ TurnAway(d, c) \/ Handle(d, c)
    \/ Answer(d, c) \/ Drop(d, c)

Starts(d) ==
    \/ Adopt(d) \/ Stat(d) \/ Dial(d) \/ Refused(d) \/ Clear(d) \/ Bind(d)
    \/ Listens(d)

Closing(d) ==
    CloseListener(d) \/ HangUp(d) \/ Waited(d) \/ Leave(d)

Next ==
    \/ \E d \in Daemons :
          \/ ByHand(d) \/ StartUnit(d) \/ Starts(d)
          \/ Term(d) \/ Closing(d) \/ Dies(d)
          \/ Exec(d) \/ ExecFails(d) \/ ServiceStarts(d)
          \/ \E c \in Clients : Serves(d, c)
    \/ \E c \in Clients : Connect(c) \/ ClientLeaves(c)

\* The goroutines of a daemon go on while it lives, and systemd starts a unit
\* again that it said it would; nobody has to start one otherwise.
Fairness ==
    \A d \in Daemons :
        /\ WF_vars(Starts(d)) /\ WF_vars(Closing(d))
        /\ WF_vars(unit = "restart" /\ StartUnit(d))
        /\ \A c \in Clients : WF_vars(Serves(d, c))

Spec == Init /\ [][Next]_vars /\ Fairness

----------------------------------------------------------------------------
(* What the socket is for. *)

\* A daemon that serves can be reached: the path leads to its socket, unless
\* another daemon took the name away on a verdict that was out of date - which
\* is the harm clearStaleSocket is there to prevent.
LiveIsReachable ==
    \A d \in Daemons : daemon[d].at = "up" => path = daemon[d].ln \/ daemon[d].ln \in robbed

\* While systemd holds the socket for the unit nobody is refused, whether a
\* daemon is there to accept or not: neither the shutdown nor the start-up of a
\* daemon takes the path away from it.
KeepsItsPlace == store # None => path = store \/ store \in robbed

\* Once Close has waited, no request is still being carried out: a connection
\* accepted while the server was closing is turned away, or finds itself closed.
NothingAfterClose ==
    \A d \in Daemons, c \in Clients :
        daemon[d].at = "drained" /\ client[c].by = d =>
            client[c].at = "taken" \/ (client[c].at = "listed" /\ ~client[c].open)

\* A daemon told to stop does, whatever its clients do: Close hangs up on every
\* connection there is before it waits for their handlers.
StopEnds == \A d \in Daemons : daemon[d].at = "closing" ~> daemon[d].at = "off"
=============================================================================
