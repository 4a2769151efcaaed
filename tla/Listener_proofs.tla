-------------------------- MODULE Listener_proofs --------------------------
(***************************************************************************)
(* The socket keeps its name, for every set of daemons, clients and sockets *)
(* and every bound on deaths, stops and upgrades.                           *)
(*                                                                         *)
(* The inductive invariant says who may know a socket: one of a daemon that *)
(* is not the unit's is known to no other daemon and not to the store, so   *)
(* that unlinking it by name can only hurt its owner; and a socket judged   *)
(* abandoned is nobody's and stays so, since only a new socket or one       *)
(* somebody holds is ever handed on.                                        *)
(***************************************************************************)
EXTENDS Listener, TLAPS

Binds == {"bound", "up"}
Serving == {"up", "closing", "shut", "hung", "drained"}

\* What a daemon is at goes with the sockets it knows.
ShapeInv ==
    \A d \in Daemons :
        /\ daemon[d].given # None => daemon[d].at = "booting"
        /\ daemon[d].ln # None <=> daemon[d].at \in Serving \cup {"bound"}
        /\ daemon[d].at \in Serving => (daemon[d].held <=> d \in Managed)

\* The sockets a daemon listens on, has closed, or has been handed.
Known(d) == {daemon[d].ln, daemon[d].given} \ {None}

\* A daemon started by hand shares its socket with nobody.
OwnInv ==
    \A d \in Daemons \ Managed :
        /\ store \notin Known(d)
        /\ \A e \in Daemons : e # d => Known(d) \cap Known(e) = {}

\* A socket found abandoned is not in use and does not come into use.
SawInv ==
    \A d \in Daemons :
        /\ daemon[d].saw # None => daemon[d].saw # store
        /\ \A e \in Daemons : 
            /\ daemon[d].saw # None => daemon[e].given # daemon[d].saw
            /\ daemon[d].saw # None /\ daemon[e].at \in Binds => daemon[e].ln # daemon[d].saw

Named(s) == path = s \/ s \in robbed

\* A socket that is served, about to be, handed over or stored has its name.
NameInv ==
    /\ store # None => Named(store)
    /\ \A d \in Daemons :
        /\ daemon[d].given # None => Named(daemon[d].given)
        /\ daemon[d].at \in Binds => Named(daemon[d].ln)

\* A connection is in the hands of a daemon that serves, or has served; once the
\* daemon has hung up, those on its list are closed.
ConnInv ==
    \A c \in Clients :
        /\ client[c].at \in {"away", "queued", "done", "cut", "refused"} => client[c].by = None
        /\ \A d \in Daemons : client[c].by = d =>
            /\ daemon[d].at \in Serving
            /\ daemon[d].at = "hung" => client[c].at = "taken" \/ ~client[c].open
            /\ daemon[d].at = "drained" =>
                  client[c].at = "taken" \/ (client[c].at = "listed" /\ ~client[c].open)

IInv == TypeOK /\ ShapeInv /\ OwnInv /\ SawInv /\ NameInv /\ ConnInv

----------------------------------------------------------------------------
(* What each step does to its daemon and to the connections. *)

Daemon == [at : Stages, ln : Socks \cup {None}, given : Socks \cup {None}, made : BOOLEAN,
           held : BOOLEAN, saw : Socks \cup {None}, leak : Socks \cup {None},
           serving : BOOLEAN]

Conn == [at : {"away", "queued", "taken", "listed", "asked", "answered", "done", "cut",
               "refused"},
         sock : Socks \cup {None}, by : Daemons \cup {None}, open : BOOLEAN]

Becomes(d, at, ln, given, saw, held) ==
    /\ daemon' \in [Daemons -> Daemon]
    /\ \A e \in Daemons \ {d} : daemon'[e] = daemon[e]
    /\ daemon'[d].at = at /\ daemon'[d].ln = ln /\ daemon'[d].given = given
    /\ daemon'[d].saw = saw /\ daemon'[d].held = held

\* Daemon d is at another stage and knows the sockets it knew.
Advances(d, at) ==
    Becomes(d, at, daemon[d].ln, daemon[d].given, daemon[d].saw, daemon[d].held)

\* Membership is a value a record can hold.
LEMMA Truth == ASSUME NEW d, NEW M PROVE \E b \in BOOLEAN : b = (d \in M)
<1>1. CASE d \in M
  <2>1. TRUE = (d \in M)
    BY <1>1
  <2> QED
    BY <2>1
<1>2. CASE d \notin M
  <2>1. FALSE = (d \in M)
    BY <1>2
  <2> QED
    BY <2>1
<1> QED
  BY <1>1, <1>2

LEMMA Replaced ==
    ASSUME TypeOK, NEW d \in Daemons, NEW r \in Daemon, daemon' = [daemon EXCEPT ![d] = r]
    PROVE  Becomes(d, r.at, r.ln, r.given, r.saw, r.held)
  BY DEF TypeOK, Becomes, Daemon

\* A step that names a stage changes nothing else about its daemon.
LEMMA GoesAdvances ==
    ASSUME TypeOK, NEW d \in Daemons, NEW at \in Stages, Goes(d, at)
    PROVE  Advances(d, at)
  BY DEF Goes, TypeOK, Advances, Becomes, Daemon

\* What the steps that learn of a socket, or forget one, make of their daemon.
LEMMA DaemonSteps ==
    ASSUME TypeOK, NEW d \in Daemons
    PROVE  /\ StartUnit(d) =>
                Becomes(d, "booting", daemon[d].ln, store, daemon[d].saw, daemon[d].held)
           /\ Adopt(d) => Becomes(d, "up", daemon[d].given, None, None, d \in Managed)
           /\ Dial(d) => \E s \in {None, path} \ Holders :
                Becomes(d, "clearing", daemon[d].ln, daemon[d].given, s, daemon[d].held)
           /\ Clear(d) => Becomes(d, "binding", daemon[d].ln, daemon[d].given, None, daemon[d].held)
           /\ Bind(d) => \E s \in Fresh :
                /\ path' = s /\ robbed' = robbed \ {s} /\ listening' = listening \ {s}
                /\ Becomes(d, "bound", s, daemon[d].given, daemon[d].saw, daemon[d].held)
           /\ Listens(d) =>
                Becomes(d, "up", daemon[d].ln, daemon[d].given, daemon[d].saw, d \in Managed)
           /\ Exec(d) => Becomes(d, "booting", None, daemon[d].ln, None, FALSE)
           /\ ExecFails(d) => Advances(d, "up")
           /\ \A c \in Clients : TurnAway(d, c) => Advances(d, daemon[d].at)
           /\ \A failed \in BOOLEAN : Gone(d, failed) => Becomes(d, "off", None, None, None, FALSE)
<1> DEFINE r == daemon[d]
<1>1. r \in Daemon /\ r = daemon[d]
  BY DEF TypeOK, Daemon
<1>2. {"off", "booting", "clearing", "binding", "bound", "up"} \subseteq Stages
  BY DEF Stages
<1>3. ASSUME StartUnit(d)
      PROVE  Becomes(d, "booting", daemon[d].ln, store, daemon[d].saw, daemon[d].held)
  <2> DEFINE n == [r EXCEPT !.at = "booting", !.given = store]
  <2>1. daemon' = [daemon EXCEPT ![d] = n]
    BY <1>3 DEF StartUnit, TypeOK
  <2>2. n \in Daemon /\ n.at = "booting" /\ n.ln = r.ln /\ n.given = store /\ n.saw = r.saw
        /\ n.held = r.held
    BY <1>1, <1>2 DEF TypeOK, Daemon
  <2> HIDE DEF n
  <2> QED
    BY <2>1, <2>2, Replaced
<1>4. ASSUME Adopt(d) PROVE Becomes(d, "up", daemon[d].given, None, None, d \in Managed)
  <2>0. PICK b \in BOOLEAN : b = (d \in Managed)
    BY Truth
  <2> DEFINE n == [Off EXCEPT !.at = "up", !.ln = r.given, !.held = b, !.serving = TRUE]
  <2>1. daemon' = [daemon EXCEPT ![d] = n]
    BY <1>4, <2>0 DEF Adopt
  <2>2. n \in Daemon /\ n.at = "up" /\ n.ln = r.given /\ n.given = None /\ n.saw = None
        /\ n.held = b
    BY <1>1, <1>2 DEF Daemon, Off
  <2> HIDE DEF n
  <2> QED
    BY <2>0, <2>1, <2>2, Replaced
<1>5. ASSUME Dial(d)
      PROVE  \E s \in {None, path} \ Holders :
                Becomes(d, "clearing", daemon[d].ln, daemon[d].given, s, daemon[d].held)
  <2> DEFINE s == IF path \in Holders THEN None ELSE path
             n == [r EXCEPT !.at = "clearing", !.saw = s]
  <2>1. daemon' = [daemon EXCEPT ![d] = n]
    BY <1>5 DEF Dial, TypeOK
  <2>2. s \in {None, path} \ Holders /\ s \in Socks \cup {None}
    BY DEF TypeOK, Holders, HeldBy
  <2>3. n \in Daemon /\ n.at = "clearing" /\ n.ln = r.ln /\ n.given = r.given /\ n.saw = s
        /\ n.held = r.held
    <3> HIDE DEF s
    <3> QED
      BY <1>1, <1>2, <2>2 DEF Daemon
  <2> HIDE DEF n, s
  <2> QED
    BY <2>1, <2>2, <2>3, Replaced
<1>6. ASSUME Clear(d)
      PROVE  Becomes(d, "binding", daemon[d].ln, daemon[d].given, None, daemon[d].held)
  <2> DEFINE n == [r EXCEPT !.at = "binding", !.saw = None]
  <2>1. daemon' = [daemon EXCEPT ![d] = n]
    BY <1>6 DEF Clear, TypeOK
  <2>2. n \in Daemon /\ n.at = "binding" /\ n.ln = r.ln /\ n.given = r.given /\ n.saw = None
        /\ n.held = r.held
    BY <1>1, <1>2 DEF Daemon
  <2> HIDE DEF n
  <2> QED
    BY <2>1, <2>2, Replaced
<1>7. ASSUME Bind(d)
      PROVE  \E s \in Fresh :
                /\ path' = s /\ robbed' = robbed \ {s} /\ listening' = listening \ {s}
                /\ Becomes(d, "bound", s, daemon[d].given, daemon[d].saw, daemon[d].held)
  <2>1. PICK s \in Fresh :
              /\ path' = s /\ robbed' = robbed \ {s} /\ listening' = listening \ {s}
              /\ daemon' = [daemon EXCEPT ![d].at = "bound", ![d].ln = s, ![d].made = TRUE]
    BY <1>7 DEF Bind
  <2> DEFINE n == [r EXCEPT !.at = "bound", !.ln = s, !.made = TRUE]
  <2>2. daemon' = [daemon EXCEPT ![d] = n]
    BY <2>1 DEF TypeOK
  <2>3. n \in Daemon /\ n.at = "bound" /\ n.ln = s /\ n.given = r.given /\ n.saw = r.saw
        /\ n.held = r.held
    BY <1>1, <1>2 DEF Daemon, Fresh
  <2> HIDE DEF n
  <2> QED
    BY <2>1, <2>2, <2>3, Replaced
<1>8. ASSUME Listens(d)
      PROVE  Becomes(d, "up", daemon[d].ln, daemon[d].given, daemon[d].saw, d \in Managed)
  <2>0. PICK b \in BOOLEAN : b = (d \in Managed)
    BY Truth
  <2> DEFINE n == [r EXCEPT !.at = "up", !.held = b, !.serving = TRUE]
  <2>1. daemon' = [daemon EXCEPT ![d] = n]
    BY <1>8, <2>0 DEF Listens, TypeOK
  <2>2. n \in Daemon /\ n.at = "up" /\ n.ln = r.ln /\ n.given = r.given /\ n.saw = r.saw
        /\ n.held = b
    BY <1>1, <1>2 DEF Daemon
  <2> HIDE DEF n
  <2> QED
    BY <2>0, <2>1, <2>2, Replaced
<1>9. ASSUME Exec(d) PROVE Becomes(d, "booting", None, daemon[d].ln, None, FALSE)
  <2> DEFINE n == [Off EXCEPT !.at = "booting", !.given = r.ln, !.leak = r.leak]
  <2>1. daemon' = [daemon EXCEPT ![d] = n]
    BY <1>9 DEF Exec, KeepListenerAcrossExec
  <2>2. n \in Daemon /\ n.at = "booting" /\ n.ln = None /\ n.given = r.ln /\ n.saw = None
        /\ n.held = FALSE
    BY <1>1, <1>2 DEF Daemon, Off
  <2> HIDE DEF n
  <2> QED
    BY <2>1, <2>2, Replaced
<1>10. ASSUME ExecFails(d) PROVE Advances(d, "up")
  BY ZenonT(60), <1>10 DEF ExecFails, KeepListenerAcrossExec, TypeOK, Advances, Becomes, Daemon
<1>11. ASSUME NEW c \in Clients, TurnAway(d, c) PROVE Advances(d, daemon[d].at)
  <2> DEFINE n == [r EXCEPT !.serving = FALSE]
  <2>1. daemon' = [daemon EXCEPT ![d] = n]
    BY <1>11 DEF TurnAway, TypeOK
  <2>2. n \in Daemon /\ n.at = r.at /\ n.ln = r.ln /\ n.given = r.given /\ n.saw = r.saw
        /\ n.held = r.held
    BY <1>1 DEF Daemon
  <2> HIDE DEF n
  <2> QED
    BY <2>1, <2>2, Replaced DEF Advances
<1>12. ASSUME NEW failed \in BOOLEAN, Gone(d, failed)
       PROVE  Becomes(d, "off", None, None, None, FALSE)
  <2>1. Off \in Daemon
    BY <1>2 DEF Off, Daemon
  <2>2. daemon' = [daemon EXCEPT ![d] = Off]
    BY <1>12 DEF Gone
  <2> QED
    BY <2>1, <2>2, Replaced DEF Off
<1> QED
  BY <1>3, <1>4, <1>5, <1>6, <1>7, <1>8, <1>9, <1>10, <1>11, <1>12

----------------------------------------------------------------------------
(* Types. *)

\* A connection hung up on, or that loses its backlog, is still one.
LEMMA ConnsTyped ==
    ASSUME TypeOK
    PROVE  /\ client \in [Clients -> Conn]
           /\ Cut \in Conn /\ Done \in Conn
           /\ \A held : Reset(client, held) \in [Clients -> Conn]
           /\ \A d : CutBy(d) \in [Clients -> Conn]
           /\ \A d, held : Reset(CutBy(d), held) \in [Clients -> Conn]
<1>1. client \in [Clients -> Conn] /\ Cut \in Conn /\ Done \in Conn
  BY DEF TypeOK, Conn, Cut, Done, Away
<1>2. ASSUME NEW cl \in [Clients -> Conn], NEW held PROVE Reset(cl, held) \in [Clients -> Conn]
  BY <1>1 DEF Reset
<1>3. \A d : CutBy(d) \in [Clients -> Conn]
  BY <1>1 DEF CutBy
<1> QED
  BY <1>1, <1>2, <1>3

LEMMA TypeKept == TypeOK /\ ShapeInv /\ [Next]_vars => TypeOK'
<1> SUFFICES ASSUME TypeOK, ShapeInv, [Next]_vars PROVE TypeOK'
  OBVIOUS
<1> DEFINE C == [deaths : 0..MaxDeaths, stops : 0..MaxStops, upgrades : 0..MaxUpgrades]
<1>0. /\ daemon \in [Daemons -> Daemon] /\ client \in [Clients -> Conn] /\ count \in C
      /\ \A d \in Daemons : daemon[d] \in Daemon
      /\ \A c \in Clients : client[c] \in Conn
  BY DEF TypeOK, Daemon, Conn
<1>1. CASE UNCHANGED vars
  BY <1>1 DEF vars, TypeOK
<1>2. ASSUME NEW d \in Daemons, ByHand(d) \/ Stat(d) \/ Waited(d) PROVE TypeOK'
  <2>1. daemon' \in [Daemons -> Daemon]
    BY <1>2, GoesAdvances DEF ByHand, Stat, Waited, Stages, Advances, Becomes
  <2> QED
    BY <1>2, <2>1 DEF ByHand, Stat, Waited, TypeOK, Daemon
<1>3. ASSUME NEW d \in Daemons,
             StartUnit(d) \/ Adopt(d) \/ Dial(d) \/ Clear(d) \/ Bind(d) \/ Listens(d)
      PROVE  TypeOK'
  <2>1. daemon' \in [Daemons -> Daemon]
    BY <1>3, DaemonSteps DEF Becomes
  <2>2. /\ path' \in Socks \cup {None} /\ listening' \subseteq Socks
        /\ store' \in Socks \cup {None} /\ kids' \subseteq Socks /\ robbed' \subseteq Socks
        /\ unit' \in {"off", "running", "restart", "stop"}
        /\ UNCHANGED <<client, count>>
    <3>1. daemon[d].at = "bound" => daemon[d].ln \in Socks
      BY <1>0 DEF Daemon, ShapeInv
    <3>2. CASE StartUnit(d)
      BY <3>2 DEF StartUnit, TypeOK
    <3>3. CASE Adopt(d) \/ Dial(d)
      BY <3>3 DEF Adopt, Dial, TypeOK
    <3>4. CASE Clear(d)
      BY <3>4 DEF Clear, Unname, TypeOK
    <3>5. CASE Bind(d)
      BY <3>5, DaemonSteps DEF Bind, Fresh, TypeOK
    <3>6. CASE Listens(d)
      BY <3>1, <3>6 DEF Listens, StoreListener, TypeOK
    <3> QED
      BY <1>3, <3>2, <3>3, <3>4, <3>5, <3>6
  <2> QED
    BY <2>1, <2>2 DEF TypeOK, Daemon
<1>4. ASSUME NEW d \in Daemons, Term(d) PROVE TypeOK'
  <2>1. daemon' \in [Daemons -> Daemon]
    BY <1>4, GoesAdvances DEF Term, Stages, Advances, Becomes
  <2>2. count' \in C
    BY <1>0, <1>4, ListenerAssumption DEF Term
  <2> QED
    BY <1>4, <2>1, <2>2 DEF Term, TypeOK, Daemon
<1>5. ASSUME NEW d \in Daemons, CloseListener(d) \/ HangUp(d) PROVE TypeOK'
  <2>1. daemon' \in [Daemons -> Daemon]
    BY <1>5, GoesAdvances DEF CloseListener, HangUp, Stages, Advances, Becomes
  <2>2. client' \in [Clients -> Conn]
    <3>1. CASE CloseListener(d)
      BY <3>1, ConnsTyped DEF CloseListener
    <3>2. CASE HangUp(d)
      <4>1. \A c \in Clients : [client[c] EXCEPT !.open = FALSE] \in Conn
        BY <1>0 DEF Conn
      <4> QED
        BY <1>0, <3>2, <4>1 DEF HangUp
    <3> QED
      BY <1>5, <3>1, <3>2
  <2> QED
    BY <1>5, <2>1, <2>2 DEF CloseListener, HangUp, Unname, TypeOK, Daemon, Conn
<1>6. ASSUME NEW d \in Daemons, Refused(d) \/ Leave(d) \/ Dies(d) PROVE TypeOK'
  <2>1. PICK failed \in BOOLEAN : Gone(d, failed)
    BY <1>6 DEF Refused, Leave, Dies
  <2>2. daemon' \in [Daemons -> Daemon]
    BY <2>1, DaemonSteps DEF Becomes
  <2>3. client' \in [Clients -> Conn] /\ store' \in Socks \cup {None}
        /\ unit' \in {"off", "running", "restart", "stop"}
    BY <2>1, ConnsTyped DEF Gone, TypeOK
  <2>4. count' \in C
    <3>1. CASE Refused(d) \/ Leave(d)
      BY <1>0, <3>1 DEF Refused, Leave
    <3>2. CASE Dies(d)
      BY <1>0, <3>2, ListenerAssumption DEF Dies
    <3> QED
      BY <1>6, <3>1, <3>2
  <2>5. path' \in Socks \cup {None} /\ robbed' \subseteq Socks
    BY <1>6 DEF Refused, Leave, Dies, Unname, TypeOK
  <2>6. UNCHANGED <<listening, kids>>
    BY <1>6 DEF Refused, Leave, Dies
  <2> QED
    BY <2>2, <2>3, <2>4, <2>5, <2>6 DEF TypeOK, Daemon, Conn
<1>7. ASSUME NEW d \in Daemons, Exec(d) \/ ExecFails(d) \/ ServiceStarts(d) PROVE TypeOK'
  <2>1. daemon' \in [Daemons -> Daemon]
    BY <1>0, <1>7, DaemonSteps DEF ServiceStarts, Advances, Becomes
  <2>2. client' \in [Clients -> Conn]
    BY <1>0, <1>7, ConnsTyped DEF Exec, ExecFails, ServiceStarts
  <2>3. count' \in C
    BY <1>0, <1>7, ListenerAssumption DEF Exec, ExecFails, ServiceStarts
  <2>4. kids' \subseteq Socks
    BY <1>0, <1>7 DEF Exec, ExecFails, ServiceStarts, TypeOK, Daemon
  <2>5. UNCHANGED <<path, listening, store, unit, robbed>>
    BY <1>7 DEF Exec, ExecFails, ServiceStarts
  <2> QED
    BY <2>1, <2>2, <2>3, <2>4, <2>5 DEF TypeOK, Daemon, Conn
<1>8. ASSUME NEW d \in Daemons, NEW c \in Clients, Serves(d, c) PROVE TypeOK'
  <2>1. daemon' \in [Daemons -> Daemon]
    BY <1>0, <1>8, DaemonSteps
    DEF Serves, Accept, Register, Handle, Answer, Drop, Advances, Becomes
  <2>2. \E r \in Conn : client' = [client EXCEPT ![c] = r]
    <3>1. \A at \in {"taken", "listed", "asked", "answered"} :
             [client[c] EXCEPT !.at = at] \in Conn /\ [client[c] EXCEPT !.at = at, !.by = d] \in Conn
      BY <1>0 DEF Conn
    <3>2. CASE Accept(d, c)
      BY <1>0, <3>1, <3>2 DEF Accept
    <3>3. CASE Register(d, c)
      BY <1>0, <3>1, <3>3 DEF Register
    <3>4. CASE TurnAway(d, c) \/ Drop(d, c)
      BY <3>4, ConnsTyped DEF TurnAway, Drop
    <3>5. CASE Handle(d, c) \/ Answer(d, c)
      BY <1>0, <3>1, <3>5, ConnsTyped DEF Handle, Answer
    <3> QED
      BY <1>8, <3>2, <3>3, <3>4, <3>5 DEF Serves
  <2>3. client' \in [Clients -> Conn]
    BY <1>0, <2>2
  <2> QED
    BY <1>8, <2>1, <2>3
    DEF Serves, Accept, Register, TurnAway, Handle, Answer, Drop, TypeOK, Daemon, Conn
<1>9. ASSUME NEW c \in Clients, Connect(c) \/ ClientLeaves(c) PROVE TypeOK'
  <2>1. client' \in [Clients -> Conn]
    <3>1. CASE Connect(c)
      BY <1>0, <3>1 DEF Connect, Conn, Away, TypeOK
    <3>2. CASE ClientLeaves(c)
      BY <1>0, <3>2 DEF ClientLeaves, Conn
    <3> QED
      BY <1>9, <3>1, <3>2
  <2> QED
    BY <1>9, <2>1 DEF Connect, ClientLeaves, TypeOK, Conn
<1> QED
  BY <1>1, <1>2, <1>3, <1>4, <1>5, <1>6, <1>7, <1>8, <1>9 DEF Next, Starts, Closing

----------------------------------------------------------------------------
(* Who knows a socket, and its name. *)

SocketInv == ShapeInv /\ OwnInv /\ SawInv /\ NameInv

\* A socket nobody holds is neither stored nor handed over nor listened on.
LEMMA NotHeld ==
    ASSUME NEW s, s # None, s \notin Holders
    PROVE  /\ s # store
           /\ \A e \in Daemons :
                daemon[e].given # s /\ (daemon[e].at \in Binds => daemon[e].ln # s)
  BY DEF Holders, HeldBy, Opened, Binds

\* Steps after which a daemon knows the sockets it knew, and all have the names
\* they had.
LEMMA QuietStep ==
    ASSUME TypeOK, SocketInv, NEW d \in Daemons, NEW at \in Stages, Advances(d, at),
           UNCHANGED <<path, store, robbed>>,
           daemon[d].given # None => at = "booting",
           at \in Serving \cup {"bound"} <=> daemon[d].at \in Serving \cup {"bound"},
           at \in Serving => daemon[d].at \in Serving,
           at \in Binds => daemon[d].at \in Binds
    PROVE  SocketInv'
<1> USE DEF Advances, Becomes, SocketInv
<1>1. ShapeInv'
  BY DEF ShapeInv
<1>2. OwnInv'
  BY DEF OwnInv, Known
<1>3. SawInv'
  BY DEF SawInv
<1>4. NameInv'
  BY DEF NameInv, Named
<1> QED
  BY <1>1, <1>2, <1>3, <1>4

\* Whoever takes a name away takes it, unless robbing, only from the socket it
\* has in mind.
LEMMA UnnameHarmless ==
    ASSUME NEW own, Unname(own), NEW s, s # None, s # own, Named(s)
    PROVE  path' = s \/ s \in robbed'
  BY DEF Named, Unname

LEMMA SocketsKept == TypeOK /\ SocketInv /\ [Next]_vars => SocketInv'
<1> SUFFICES ASSUME TypeOK, SocketInv, [Next]_vars PROVE SocketInv'
  OBVIOUS
<1> USE DEF SocketInv
<1>0. \A d \in Daemons : daemon[d] \in Daemon
  BY DEF TypeOK, Daemon
<1>1. CASE UNCHANGED <<path, store, robbed, daemon>>
  BY <1>1 DEF ShapeInv, OwnInv, SawInv, NameInv, Known, Named
<1>2. ASSUME NEW d \in Daemons,
             ByHand(d) \/ Stat(d) \/ Term(d) \/ HangUp(d) \/ Waited(d) \/ ExecFails(d)
      PROVE  SocketInv'
  <2>1. PICK at \in Stages :
           /\ Advances(d, at)
           /\ daemon[d].given # None => at = "booting"
           /\ at \in Serving \cup {"bound"} <=> daemon[d].at \in Serving \cup {"bound"}
           /\ at \in Serving => daemon[d].at \in Serving
           /\ at \in Binds => daemon[d].at \in Binds
    <3>1. CASE ByHand(d)
      BY <3>1, GoesAdvances DEF ByHand, Stages, Serving, Binds, ShapeInv
    <3>2. CASE Stat(d)
      BY <3>2, GoesAdvances DEF Stat, Stages, Serving, Binds, ShapeInv
    <3>3. CASE Term(d) \/ HangUp(d) \/ Waited(d)
      BY <3>3, GoesAdvances DEF Term, HangUp, Waited, Stages, Serving, Binds, ShapeInv
    <3>4. CASE ExecFails(d)
      BY <3>4, DaemonSteps DEF ExecFails, Stages, Serving, Binds, ShapeInv
    <3> QED
      BY <1>2, <3>1, <3>2, <3>3, <3>4
  <2>2. UNCHANGED <<path, store, robbed>>
    BY <1>2 DEF ByHand, Stat, Term, HangUp, Waited, ExecFails
  <2> QED
    BY <2>1, <2>2, QuietStep
<1>3. ASSUME NEW d \in Daemons, NEW c \in Clients, TurnAway(d, c) PROVE SocketInv'
  <2>1. Advances(d, daemon[d].at) /\ daemon[d].at \in Stages
    BY <1>0, <1>3, DaemonSteps DEF Daemon
  <2> QED
    BY <1>3, <2>1, QuietStep DEF TurnAway, ShapeInv
<1>4. ASSUME NEW d \in Daemons, StartUnit(d) PROVE SocketInv'
  <2>1. /\ Becomes(d, "booting", daemon[d].ln, store, daemon[d].saw, daemon[d].held)
        /\ UNCHANGED <<path, store, robbed>> /\ d \in Managed /\ daemon[d].at = "off"
    BY <1>4, DaemonSteps DEF StartUnit
  <2>2. ShapeInv'
    BY <2>1 DEF ShapeInv, Becomes, Serving
  <2>3. OwnInv'
    BY <2>1 DEF OwnInv, Known, Becomes
  <2>4. SawInv'
    BY <2>1 DEF SawInv, Becomes, Binds
  <2>5. NameInv'
    BY <2>1 DEF NameInv, Named, Becomes, Binds
  <2> QED
    BY <2>2, <2>3, <2>4, <2>5
<1>5. ASSUME NEW d \in Daemons, Adopt(d) PROVE SocketInv'
  <2>1. /\ Becomes(d, "up", daemon[d].given, None, None, d \in Managed)
        /\ UNCHANGED <<path, store, robbed>> /\ daemon[d].given # None
    BY <1>5, DaemonSteps DEF Adopt
  <2>2. ShapeInv'
    BY <2>1 DEF ShapeInv, Becomes, Serving
  <2>3. OwnInv'
    BY <2>1 DEF OwnInv, Known, Becomes
  <2>4. SawInv'
    BY <2>1 DEF SawInv, Becomes, Binds
  <2>5. NameInv'
    BY <2>1 DEF NameInv, Named, Becomes, Binds
  <2> QED
    BY <2>2, <2>3, <2>4, <2>5
<1>6. ASSUME NEW d \in Daemons, Dial(d) PROVE SocketInv'
  <2>1. PICK s \in {None, path} \ Holders :
           Becomes(d, "clearing", daemon[d].ln, daemon[d].given, s, daemon[d].held)
    BY <1>6, DaemonSteps
  <2>2. UNCHANGED <<path, store, robbed>> /\ daemon[d].at = "dialling"
    BY <1>6 DEF Dial
  <2>3. s # None =>
          /\ s # store
          /\ \A e \in Daemons :
               daemon[e].given # s /\ (daemon[e].at \in Binds => daemon[e].ln # s)
    BY <2>1, NotHeld
  <2>4. ShapeInv'
    BY <2>1, <2>2 DEF ShapeInv, Becomes, Serving
  <2>5. OwnInv'
    BY <2>1, <2>2 DEF OwnInv, Known, Becomes
  <2>6. SawInv'
    BY <2>1, <2>2, <2>3 DEF SawInv, Becomes, Binds
  <2>7. NameInv'
    BY <2>1, <2>2 DEF NameInv, Named, Becomes, Binds
  <2> QED
    BY <2>4, <2>5, <2>6, <2>7
<1>7. ASSUME NEW d \in Daemons, Clear(d) PROVE SocketInv'
  <2>1. /\ Becomes(d, "binding", daemon[d].ln, daemon[d].given, None, daemon[d].held)
        /\ store' = store /\ daemon[d].at = "clearing" /\ Unname(daemon[d].saw)
    BY <1>7, DaemonSteps DEF Clear
  <2>2. ShapeInv'
    BY <2>1 DEF ShapeInv, Becomes, Serving
  <2>3. OwnInv'
    BY <2>1 DEF OwnInv, Known, Becomes
  <2>4. SawInv'
    BY <2>1 DEF SawInv, Becomes, Binds
  <2>5. NameInv'
    <3>1. store # None => path' = store \/ store \in robbed'
      BY <2>1, UnnameHarmless DEF NameInv, SawInv
    <3>2. ASSUME NEW e \in Daemons
          PROVE  /\ daemon[e].given # None =>
                      path' = daemon[e].given \/ daemon[e].given \in robbed'
                 /\ daemon[e].at \in Binds => path' = daemon[e].ln \/ daemon[e].ln \in robbed'
      BY <2>1, UnnameHarmless DEF NameInv, SawInv, ShapeInv, Binds, Serving
    <3> QED
      BY <2>1, <3>1, <3>2 DEF NameInv, Named, Becomes, Binds
  <2> QED
    BY <2>2, <2>3, <2>4, <2>5
<1>8. ASSUME NEW d \in Daemons, Bind(d) PROVE SocketInv'
  <2>1. PICK s \in Fresh :
           /\ path' = s /\ robbed' = robbed \ {s}
           /\ Becomes(d, "bound", s, daemon[d].given, daemon[d].saw, daemon[d].held)
    BY <1>8, DaemonSteps
  <2>2. store' = store /\ daemon[d].at = "binding" /\ path = None
    BY <1>8 DEF Bind
  <2>3. /\ s # None /\ s # store
        /\ \A e \in Daemons : daemon[e].given # s /\ daemon[e].ln # s /\ daemon[e].saw # s
    <3>1. s # None /\ s \notin Holders
      BY ListenerAssumption DEF Fresh
    <3> QED
      BY <3>1, NotHeld DEF Fresh
  <2>4. ShapeInv'
    BY <2>1, <2>2, <2>3 DEF ShapeInv, Becomes, Serving
  <2>5. OwnInv'
    BY SMTT(30), <2>1, <2>2, <2>3 DEF OwnInv, Known, Becomes, ShapeInv, Serving
  <2>6. SawInv'
    BY <2>1, <2>2, <2>3 DEF SawInv, Becomes, Binds
  <2>7. NameInv'
    BY <2>1, <2>2, <2>3 DEF NameInv, Named, Becomes, Binds, ShapeInv, Serving
  <2> QED
    BY <2>4, <2>5, <2>6, <2>7
<1>9. ASSUME NEW d \in Daemons, Listens(d) PROVE SocketInv'
  <2>1. /\ Becomes(d, "up", daemon[d].ln, daemon[d].given, daemon[d].saw, d \in Managed)
        /\ UNCHANGED <<path, robbed>> /\ daemon[d].at = "bound"
        /\ store' = IF d \in Managed THEN daemon[d].ln ELSE store
    BY <1>9, DaemonSteps DEF Listens, StoreListener
  <2>2. ShapeInv'
    BY ZenonT(60), <2>1 DEF ShapeInv, Becomes, Serving
  <2>3. OwnInv'
    BY <2>1 DEF OwnInv, Known, Becomes
  <2>4. SawInv'
    BY <2>1 DEF SawInv, Becomes, Binds
  <2>5. NameInv'
    BY <2>1 DEF NameInv, Named, Becomes, Binds
  <2> QED
    BY <2>2, <2>3, <2>4, <2>5
<1>10. ASSUME NEW d \in Daemons, CloseListener(d) PROVE SocketInv'
  <2>1. /\ Advances(d, "shut") /\ daemon[d].at = "closing" /\ store' = store
        /\ \/ UNCHANGED <<path, robbed>>
           \/ d \notin Managed /\ Unname(daemon[d].ln)
    BY <1>10, GoesAdvances DEF CloseListener, Stages, ShapeInv, Serving
  <2>2. ShapeInv'
    BY <2>1 DEF ShapeInv, Advances, Becomes, Serving
  <2>3. OwnInv'
    BY ZenonT(60), <2>1 DEF OwnInv, Known, Advances, Becomes
  <2>4. SawInv'
    BY <2>1 DEF SawInv, Advances, Becomes, Binds
  <2>5. NameInv'
    <3>1. CASE UNCHANGED <<path, robbed>>
      BY <2>1, <3>1 DEF NameInv, Named, Advances, Becomes, Binds
    <3>2. CASE d \notin Managed /\ Unname(daemon[d].ln)
      <4>1. store # None => path' = store \/ store \in robbed'
        BY <3>2, UnnameHarmless DEF NameInv, OwnInv, Known
      <4>2. ASSUME NEW e \in Daemons \ {d}
            PROVE  /\ daemon[e].given # None =>
                        path' = daemon[e].given \/ daemon[e].given \in robbed'
                   /\ daemon[e].at \in Binds =>
                        path' = daemon[e].ln \/ daemon[e].ln \in robbed'
        <5>1. Known(d) \cap Known(e) = {} /\ daemon[d].ln # None
          BY <2>1, <3>2 DEF OwnInv, ShapeInv, Serving
        <5>2. daemon[e].at \in Binds => daemon[e].ln # None
          BY DEF ShapeInv, Serving, Binds
        <5> QED
          BY <3>2, <5>1, <5>2, UnnameHarmless DEF NameInv, Known
      <4>3. daemon[d].given = None
        BY <2>1 DEF ShapeInv
      <4> QED
        BY <2>1, <4>1, <4>2, <4>3 DEF NameInv, Named, Advances, Becomes, Binds
    <3> QED
      BY <2>1, <3>1, <3>2
  <2> QED
    BY <2>2, <2>3, <2>4, <2>5
<1>11. ASSUME NEW d \in Daemons, Refused(d) \/ Leave(d) \/ Dies(d) PROVE SocketInv'
  <2>1. PICK failed \in BOOLEAN : Gone(d, failed)
    BY <1>11 DEF Refused, Leave, Dies
  <2>2. Becomes(d, "off", None, None, None, FALSE) /\ store' \in {store, None}
    BY <2>1, DaemonSteps DEF Gone
  <2>3. \/ UNCHANGED <<path, robbed>>
        \/ d \notin Managed /\ Unname(daemon[d].ln) /\ daemon[d].ln # None
    BY <1>11 DEF Refused, Leave, Dies, ShapeInv, Serving
  <2>4. ShapeInv'
    BY <2>2 DEF ShapeInv, Becomes, Serving
  <2>5. OwnInv'
    BY <2>2 DEF OwnInv, Known, Becomes
  <2>6. SawInv'
    BY <2>2 DEF SawInv, Becomes, Binds
  <2>7. NameInv'
    <3>1. CASE UNCHANGED <<path, robbed>>
      BY <2>2, <3>1 DEF NameInv, Named, Becomes, Binds
    <3>2. CASE d \notin Managed /\ Unname(daemon[d].ln) /\ daemon[d].ln # None
      <4>1. store # None => path' = store \/ store \in robbed'
        BY <3>2, UnnameHarmless DEF NameInv, OwnInv, Known
      <4>2. ASSUME NEW e \in Daemons \ {d}
            PROVE  /\ daemon[e].given # None =>
                        path' = daemon[e].given \/ daemon[e].given \in robbed'
                   /\ daemon[e].at \in Binds =>
                        path' = daemon[e].ln \/ daemon[e].ln \in robbed'
        <5>1. Known(d) \cap Known(e) = {}
          BY <3>2 DEF OwnInv
        <5>2. daemon[e].at \in Binds => daemon[e].ln # None
          BY DEF ShapeInv, Serving, Binds
        <5> QED
          BY <3>2, <5>1, <5>2, UnnameHarmless DEF NameInv, Known
      <4> QED
        BY <2>2, <4>1, <4>2 DEF NameInv, Named, Becomes, Binds
    <3> QED
      BY <2>3, <3>1, <3>2
  <2> QED
    BY <2>4, <2>5, <2>6, <2>7
<1>12. ASSUME NEW d \in Daemons, Exec(d) PROVE SocketInv'
  <2>1. /\ Becomes(d, "booting", None, daemon[d].ln, None, FALSE)
        /\ UNCHANGED <<path, store, robbed>> /\ daemon[d].at = "up"
    BY <1>12, DaemonSteps DEF Exec
  <2>2. ShapeInv'
    BY <2>1 DEF ShapeInv, Becomes, Serving
  <2>3. OwnInv'
    BY <2>1 DEF OwnInv, Known, Becomes
  <2>4. SawInv'
    BY <2>1 DEF SawInv, Becomes, Binds
  <2>5. NameInv'
    BY <2>1 DEF NameInv, Named, Becomes, Binds
  <2> QED
    BY <2>2, <2>3, <2>4, <2>5
<1>13. ASSUME NEW d \in Daemons, NEW c \in Clients, Serves(d, c) PROVE SocketInv'
  BY <1>1, <1>3, <1>13 DEF Serves, Accept, Register, Handle, Answer, Drop
<1>14. ASSUME NEW d \in Daemons, ServiceStarts(d) PROVE SocketInv'
  BY <1>1, <1>14 DEF ServiceStarts
<1>15. ASSUME NEW c \in Clients, Connect(c) \/ ClientLeaves(c) PROVE SocketInv'
  BY <1>1, <1>15 DEF Connect, ClientLeaves
<1> QED
  BY <1>1, <1>2, <1>3, <1>4, <1>5, <1>6, <1>7, <1>8, <1>9, <1>10, <1>11, <1>12, <1>13, <1>14,
     <1>15 DEF Next, Starts, Closing, vars

----------------------------------------------------------------------------
(* Connections, and the daemon that has them in hand. *)

\* The stages of a connection that no daemon has in hand.
Rest == {"away", "queued", "done", "cut", "refused"}

\* Connection c is as it was, or nobody's.
Dropped(c) == client'[c] = client[c] \/ (client'[c].by = None /\ client'[c].at \in Rest)

\* A daemon that ends or is replaced leaves no connection in its hands.
LEMMA ConnsDropped ==
    ASSUME TypeOK, ConnInv, NEW d \in Daemons, NEW held,
           client' \in {CutBy(d), Reset(CutBy(d), held)}, NEW c \in Clients
    PROVE  Dropped(c) /\ client'[c].by # d
<1>1. CutBy(d)[c] = client[c] \/ CutBy(d)[c] \in {Cut, Done}
  BY DEF CutBy
<1>2. CutBy(d)[c] = client[c] => client[c].by # d
  BY ListenerAssumption DEF CutBy, Cut, Done, Away, ConnInv
<1>3. Cut.by = None /\ Done.by = None /\ Cut.at \in Rest /\ Done.at \in Rest
  BY DEF Cut, Done, Away, Rest
<1>4. client'[c] = CutBy(d)[c] \/ client'[c] = Cut
  BY DEF Reset
<1> QED
  BY <1>1, <1>2, <1>3, <1>4, ListenerAssumption DEF Dropped

\* A step of daemon d to another stage keeps what is known of the connections,
\* if it keeps what is known of those it leaves in the hands of d.
LEMMA ConnsOfOne ==
    ASSUME ConnInv, NEW d \in Daemons, \A e \in Daemons \ {d} : daemon'[e] = daemon[e],
           \A c \in Clients :
              /\ Dropped(c)
              /\ client'[c].by = d =>
                    /\ daemon'[d].at \in Serving
                    /\ daemon'[d].at = "hung" => client'[c].at = "taken" \/ ~client'[c].open
                    /\ daemon'[d].at = "drained" =>
                          \/ client'[c].at = "taken"
                          \/ client'[c].at = "listed" /\ ~client'[c].open
    PROVE  ConnInv'
  BY ListenerAssumption DEF ConnInv, Dropped, Rest

LEMMA ConnsKept == TypeOK /\ ShapeInv /\ ConnInv /\ [Next]_vars => ConnInv'
<1> SUFFICES ASSUME TypeOK, ShapeInv, ConnInv, [Next]_vars PROVE ConnInv'
  OBVIOUS
<1>0. /\ \A d \in Daemons : daemon[d] \in Daemon
      /\ client \in [Clients -> Conn] /\ \A c \in Clients : client[c] \in Conn
  BY DEF TypeOK, Daemon, Conn
<1>1. CASE UNCHANGED <<client, daemon>>
  BY <1>1 DEF ConnInv
<1>2. ASSUME NEW d \in Daemons,
             \/ ByHand(d) \/ Stat(d) \/ Term(d) \/ ExecFails(d) \/ StartUnit(d) \/ Adopt(d)
             \/ Dial(d) \/ Clear(d) \/ Bind(d) \/ Listens(d)
      PROVE  ConnInv'
  <2>1. client' = client /\ daemon[d].at \notin {"shut", "hung", "drained", "closing"}
    BY <1>2 DEF ByHand, Stat, Term, ExecFails, StartUnit, Adopt, Dial, Clear, Bind, Listens
  <2>2. \E at \in Stages : \E ln, given, saw, held :
           /\ Becomes(d, at, ln, given, saw, held)
           /\ at \notin {"hung", "drained"}
           /\ daemon[d].at \in Serving => at \in Serving
    <3>1. CASE ByHand(d)
      BY <3>1, GoesAdvances DEF ByHand, Stages, Serving, Advances
    <3>2. CASE Stat(d)
      BY <3>2, GoesAdvances DEF Stat, Stages, Serving, Advances
    <3>3. CASE Term(d)
      BY <3>3, GoesAdvances DEF Term, Stages, Serving, Advances
    <3>4. CASE ExecFails(d)
      BY <3>4, DaemonSteps DEF ExecFails, Stages, Serving, Advances
    <3>5. CASE StartUnit(d)
      BY <3>5, DaemonSteps DEF StartUnit, Stages, Serving
    <3>6. CASE Adopt(d)
      BY <3>6, DaemonSteps DEF Adopt, Stages, Serving
    <3>7. CASE Dial(d)
      BY <3>7, DaemonSteps DEF Dial, Stages, Serving
    <3>8. CASE Clear(d)
      BY <3>8, DaemonSteps DEF Clear, Stages, Serving
    <3>9. CASE Bind(d)
      BY <3>9, DaemonSteps DEF Bind, Stages, Serving
    <3>10. CASE Listens(d)
      BY <3>10, DaemonSteps DEF Listens, Stages, Serving
    <3> QED
      BY <1>2, <3>1, <3>2, <3>3, <3>4, <3>5, <3>6, <3>7, <3>8, <3>9, <3>10
  <2> QED
    BY <2>1, <2>2, ConnsOfOne DEF ConnInv, Becomes, Dropped
<1>3. ASSUME NEW d \in Daemons, CloseListener(d) PROVE ConnInv'
  <2>1. Advances(d, "shut") /\ daemon[d].at = "closing"
    BY <1>3, GoesAdvances DEF CloseListener, Stages
  <2>2. \A c \in Clients : Dropped(c)
    BY <1>3 DEF CloseListener, Reset, Cut, Away, Dropped, Rest
  <2> QED
    BY <2>1, <2>2, ConnsOfOne, ListenerAssumption DEF ConnInv, Advances, Becomes, Dropped, Serving
<1>4. ASSUME NEW d \in Daemons, HangUp(d) PROVE ConnInv'
  <2>1. Advances(d, "hung") /\ daemon[d].at = "shut"
    BY <1>4, GoesAdvances DEF HangUp, Stages
  <2>2. ASSUME NEW c \in Clients
        PROVE  /\ client'[c].at = client[c].at /\ client'[c].by = client[c].by
               /\ client[c].by = d => client[c].at = "taken" \/ ~client'[c].open
               /\ client[c].by # d => client'[c] = client[c]
    BY <1>0, <1>4 DEF HangUp, Conn
  <2>3. ASSUME NEW c \in Clients, NEW e \in Daemons, client'[c].by = e
        PROVE  /\ daemon'[e].at \in Serving
               /\ daemon'[e].at = "hung" => client'[c].at = "taken" \/ ~client'[c].open
               /\ daemon'[e].at = "drained" =>
                     \/ client'[c].at = "taken"
                     \/ client'[c].at = "listed" /\ ~client'[c].open
    BY <2>1, <2>2, <2>3 DEF ConnInv, Advances, Becomes, Serving
  <2> QED
    BY <2>2, <2>3 DEF ConnInv
<1>5. ASSUME NEW d \in Daemons, Waited(d) PROVE ConnInv'
  <2>1. Advances(d, "drained") /\ daemon[d].at = "hung" /\ client' = client
    BY <1>5, GoesAdvances DEF Waited, Stages
  <2>2. \A c \in Clients : client[c].by = d => client[c].at \in {"taken", "listed"}
    BY <1>5 DEF Waited
  <2> QED
    BY <2>1, <2>2, ConnsOfOne DEF ConnInv, Advances, Becomes, Dropped, Serving
<1>6. ASSUME NEW d \in Daemons, Refused(d) \/ Leave(d) \/ Dies(d) \/ Exec(d) PROVE ConnInv'
  <2>1. \A e \in Daemons \ {d} : daemon'[e] = daemon[e]
    BY <1>6, DaemonSteps DEF Refused, Leave, Dies, Becomes
  <2>2. \E held : client' \in {CutBy(d), Reset(CutBy(d), held)}
    BY <1>6 DEF Refused, Leave, Dies, Exec, Gone
  <2> QED
    BY <2>1, <2>2, ConnsDropped, ConnsOfOne
<1>7. ASSUME NEW d \in Daemons, NEW c \in Clients, TurnAway(d, c) \/ Drop(d, c) PROVE ConnInv'
  <2>1. \A e \in Daemons : daemon'[e].at = daemon[e].at
    BY <1>7, DaemonSteps DEF Drop, Advances, Becomes
  <2>2. client' \in {[client EXCEPT ![c] = Cut], [client EXCEPT ![c] = Done]}
    BY <1>7 DEF TurnAway, Drop
  <2>3. \A k \in Clients : Dropped(k)
    BY <1>0, <2>2 DEF Dropped, Cut, Done, Away, Rest
  <2> QED
    BY <2>1, <2>3, ListenerAssumption DEF ConnInv, Dropped, Rest
<1>8. ASSUME NEW d \in Daemons, NEW c \in Clients,
             Accept(d, c) \/ Register(d, c) \/ Handle(d, c) \/ Answer(d, c)
      PROVE  ConnInv'
  <2>1. daemon' = daemon
    BY <1>8 DEF Accept, Register, Handle, Answer
  <2>2. \A k \in Clients \ {c} : client'[k] = client[k]
    BY <1>0, <1>8 DEF Accept, Register, Handle, Answer
  <2>3. /\ daemon[d].at \in Serving
        /\ \/ client'[c].by = None /\ client'[c].at \in Rest
           \/ /\ client'[c].by = d /\ client'[c].at \notin Rest
              /\ daemon[d].at = "hung" => client'[c].at = "taken" \/ ~client'[c].open
              /\ daemon[d].at = "drained" =>
                    \/ client'[c].at = "taken"
                    \/ client'[c].at = "listed" /\ ~client'[c].open
    <3>1. CASE Accept(d, c)
      BY <1>0, <3>1 DEF Accept, Conn, Serving, Rest
    <3>2. CASE Register(d, c)
      BY <1>0, <3>2 DEF Register, Conn, Serving, Rest
    <3>3. CASE Handle(d, c)
      <4>1. CASE client[c].open
        BY <1>0, <3>3, <4>1 DEF Handle, Conn, Rest, ConnInv
      <4>2. CASE ~client[c].open
        BY <1>0, <3>3, <4>2 DEF Handle, Cut, Away, Rest, ConnInv
      <4> QED
        BY <4>1, <4>2
    <3>4. CASE Answer(d, c)
      <4>1. CASE client[c].open
        BY <1>0, <3>4, <4>1 DEF Answer, Conn, Rest, ConnInv
      <4>2. CASE ~client[c].open
        BY <1>0, <3>4, <4>2 DEF Answer, Cut, Away, Rest, ConnInv
      <4> QED
        BY <4>1, <4>2
    <3> QED
      BY <1>8, <3>1, <3>2, <3>3, <3>4
  <2> QED
    BY <2>1, <2>2, <2>3, ListenerAssumption DEF ConnInv, Rest
<1>9. ASSUME NEW c \in Clients, Connect(c) \/ ClientLeaves(c) PROVE ConnInv'
  <2>1. daemon' = daemon /\ \A k \in Clients \ {c} : client'[k] = client[k]
    BY <1>0, <1>9 DEF Connect, ClientLeaves
  <2>2. CASE Connect(c)
    <3>1. client'[c].by = None
      BY <1>0, <2>2 DEF Connect, Away
    <3> QED
      BY <2>1, <3>1, ListenerAssumption DEF ConnInv
  <2>3. CASE ClientLeaves(c)
    <3>1. client'[c].by = client[c].by /\ client'[c].at = "answered" /\ client[c].at = "answered"
          /\ client'[c].open = FALSE
      BY <1>0, <2>3 DEF ClientLeaves, Conn
    <3> QED
      BY <2>1, <3>1 DEF ConnInv
  <2> QED
    BY <1>9, <2>2, <2>3
<1> QED
  BY <1>1, <1>2, <1>3, <1>4, <1>5, <1>6, <1>7, <1>8, <1>9
  DEF Next, Starts, Closing, Serves, ServiceStarts, vars

----------------------------------------------------------------------------
(* The theorems. *)

LEMMA InitIInv == Init => IInv
<1> SUFFICES ASSUME Init PROVE IInv
  OBVIOUS
<1>1. Off \in Daemon /\ Away \in Conn
  BY DEF Off, Daemon, Away, Conn, Stages
<1>2. TypeOK
  <2>1. count \in [deaths : 0..MaxDeaths, stops : 0..MaxStops, upgrades : 0..MaxUpgrades]
    BY ListenerAssumption DEF Init
  <2> QED
    BY <1>1, <2>1 DEF Init, TypeOK, Daemon, Conn
<1>3. ShapeInv /\ OwnInv /\ SawInv /\ NameInv
  BY DEF Init, Off, ShapeInv, OwnInv, SawInv, NameInv, Known, Serving, Binds
<1>4. ConnInv
  BY ListenerAssumption DEF Init, Away, ConnInv
<1> QED
  BY <1>2, <1>3, <1>4 DEF IInv

LEMMA IInvKept == IInv /\ [Next]_vars => IInv'
BY TypeKept, SocketsKept, ConnsKept DEF IInv, SocketInv

LEMMA Invariance == Spec => []IInv
<1>1. Init => IInv
  BY InitIInv
<1>2. IInv /\ [Next]_vars => IInv'
  BY IInvKept
<1> QED
  BY <1>1, <1>2, PTL DEF Spec

\* The types hold, whoever starts, stops, upgrades or dies.
THEOREM Typed == Spec => []TypeOK
<1>1. IInv => TypeOK
  BY DEF IInv
<1> QED
  BY <1>1, Invariance, PTL

\* A daemon that serves can be reached by the path, unless another daemon's
\* verdict on the socket was out of date when it removed it (clearStaleSocket).
THEOREM Reachable == Spec => []LiveIsReachable
<1>1. IInv => LiveIsReachable
  BY DEF IInv, NameInv, Named, Binds, LiveIsReachable
<1> QED
  BY <1>1, Invariance, PTL

\* A socket systemd holds keeps its path through every shutdown and start-up of
\* the unit (Server.Close, StoreListener).
THEOREM PlaceKept == Spec => []KeepsItsPlace
<1>1. IInv => KeepsItsPlace
  BY DEF IInv, NameInv, Named, KeepsItsPlace
<1> QED
  BY <1>1, Invariance, PTL

\* No request is under way once Server.Close has waited for its handlers.
THEOREM ClosedForGood == Spec => []NothingAfterClose
<1>1. IInv => NothingAfterClose
  BY DEF IInv, ConnInv, NothingAfterClose
<1> QED
  BY <1>1, Invariance, PTL

\* Unlinking what net.Listen made never takes the path from another daemon, nor
\* from systemd: the socket of a daemon started by hand is its own.
THEOREM NobodysButItsOwn == Spec => []OwnInv
<1>1. IInv => OwnInv
  BY DEF IInv
<1> QED
  BY <1>1, Invariance, PTL
=============================================================================
