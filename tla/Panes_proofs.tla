---------------------------- MODULE Panes_proofs ----------------------------
(***************************************************************************)
(* That a session with several panes keeps them straight - who reads which   *)
(* connection, what each pane is called and how large it is, the arrangement *)
(* on disk and the modes of the terminal - for any number of panes,          *)
(* connections, services and sizes of the window, and of any length; and, at *)
(* the end, what a pane's scrollback shows, of any length too.               *)
(***************************************************************************)
EXTENDS Panes, FiniteSetTheorems, SequenceTheorems, WellFoundedInduction, TLAPS

Weights == Nat \ {0}
On(sh) == {sh[i] : i \in 1..Len(sh)}

\* Panes side by side, one of which has the keyboard.
Row(sh, fo) ==
    /\ sh \in Seq(PaneIds) /\ fo \in 1..Len(sh)
    /\ \A i, j \in 1..Len(sh) : sh[i] = sh[j] => i = j

IsPane(x) ==
    x = [name |-> x.name, conn |-> x.conn, ran |-> x.ran, finished |-> x.finished,
         frozen |-> x.frozen, closed |-> x.closed, modes |-> x.modes, weight |-> x.weight,
         rect |-> x.rect, grid |-> x.grid]
IsConn(x) ==
    x = [name |-> x.name, q |-> x.q, readers |-> x.readers, pane |-> x.pane, size |-> x.size]

\* A connection: whoever reads it says that it is over last of all, and once.
Line(x) ==
    /\ IsConn(x)
    /\ x.name \in Names \cup {None} /\ x.q \in Seq(Reports) /\ x.readers \in {0, 1}
    /\ x = NoConn \/ x.pane \in PaneIds
    /\ x.name # None => x.readers = 1
    /\ \A i \in 1..Len(x.q) :
          x.q[i] = GoneAway => i = Len(x.q) /\ x.readers = 1 /\ x.name = None

\* Pane p on the screen, which is x: it goes by a connection made for it.
Goes(p, x, cn) ==
    /\ ~x.closed /\ x.name \in Names /\ x.conn \in Conns
    /\ cn[x.conn].pane = p
    /\ cn[x.conn].readers = 1 \/ x.finished \/ x.frozen
    /\ cn[x.conn].name # None => Becomes(cn[x.conn].q, x.name, cn[x.conn].name)

\* A pane that is not there: whatever a connection reports of it is stale.
Off(x) == x.closed \/ x.conn = None

Wired(pn, cn, S) ==
    /\ pn = [p \in PaneIds |-> pn[p]] /\ cn = [c \in Conns |-> cn[c]]
    /\ \A p \in PaneIds : IsPane(pn[p]) /\ pn[p].weight \in Weights
    /\ \A c \in Conns : Line(cn[c])
    /\ S \subseteq PaneIds
    /\ \A p \in S : Goes(p, pn[p], cn)
    /\ \A p \in PaneIds \ S : Off(pn[p])

Sized(pn, cn, S) ==
    \A p \in S :
        HasRoom(pn[p].rect) =>
            /\ pn[p].grid = SizeOf(pn[p].rect)
            /\ cn[pn[p].conn].name # None => cn[pn[p].conn].size = pn[p].grid

Runs == at \in {"idle", "calling"}

ViewInv ==
    /\ at \in {"out", "idle", "calling", "between"}
    /\ Runs => /\ Wired(pane, conn, On(shown)) /\ Row(shown, focus)
               /\ Sized(pane, conn, On(shown))
    /\ ~Runs => /\ pane = [p \in PaneIds |-> NoPane] /\ conn = [c \in Conns |-> NoConn]
                /\ shown = <<>>
    /\ at = "calling" => doing.name \in Names

ServiceInv == wish \in [Names -> SUBSET Modes]

\* What may be on disk.
Arrangements(sv) ==
    /\ sv = [n \in Names |-> sv[n]]
    /\ \A n \in Names : sv[n].panes \in Seq([name : Names, weight : Weights])

DiskInv ==
    /\ Arrangements(saved)
    /\ Runs => /\ asked \in Names
               /\ "refused" \notin unkept => saved[asked] = written
               /\ "renamed" \notin unkept => written = LayoutOf(pane, shown, focus, how)

ScreenInv ==
    /\ Differs(term, told) \subseteq askew
    /\ Runs /\ ~owed => told = Focused.modes
    /\ at = "out" => told = {}

WindowInv ==
    /\ window \in Sizes /\ known \in Sizes
    /\ at # "out" => winch \/ missed \/ known = window

IInv == ViewInv /\ ServiceInv /\ DiskInv /\ ScreenInv /\ WindowInv
----------------------------------------------------------------------------
(* Reports, and the connections they wait in. *)

\* What is assumed of None.
LEMMA NoneIsNone == None \notin Names /\ None \notin PaneIds /\ None \notin Conns
BY PanesAssumption

\* What a report may be of.
LEMMA ReportKinds ==
    /\ GoneAway \in Reports /\ Finished \in Reports
    /\ \A n \in Names : [kind |-> "renamed", name |-> n] \in Reports
    /\ \A ms \in SUBSET Modes : [kind |-> "modes", modes |-> ms] \in Reports
    /\ \A r \in Reports : /\ r = GoneAway <=> r.kind = "gone"
                         /\ r.kind = "renamed" => r.name \in Names
BY DEF Reports, GoneAway, Finished

\* A rename is to a name.
LEMMA RenamedKnown == \A r \in Reports : r.kind = "renamed" => r.name \in Names
BY DEF Reports

\* The fields of NoConn and of NoPane.
LEMMA Empty ==
    /\ Line(NoConn) /\ NoConn.name = None /\ NoConn.pane = None /\ NoConn.q = <<>>
    /\ NoConn.readers = 0
    /\ IsPane(NoPane) /\ NoPane.conn = None /\ NoPane.weight \in Weights /\ Off(NoPane)
BY DEF Line, IsConn, NoConn, IsPane, NoPane, Off, InitialWeight, NoRect, NoSize, Weights

\* What a sequence holds when more is put after it.
LEMMA Joined ==
    ASSUME NEW S, NEW q \in Seq(S), NEW r \in Seq(S)
    PROVE  /\ q \o r \in Seq(S)
           /\ Len(q \o r) = Len(q) + Len(r)
           /\ \A i \in 1..Len(q) : (q \o r)[i] = q[i]
           /\ \A i \in 1..Len(r) : (q \o r)[Len(q) + i] = r[i]
           /\ \A i \in 1..Len(q \o r) :
                 \/ i \in 1..Len(q) /\ (q \o r)[i] = q[i]
                 \/ \E j \in 1..Len(r) : i = Len(q) + j /\ (q \o r)[i] = r[j]
<1>1. Len(q) \in Nat /\ Len(r) \in Nat
  BY LenProperties
<1>2. /\ q \o r \in Seq(S) /\ Len(q \o r) = Len(q) + Len(r)
      /\ \A i \in 1..(Len(q) + Len(r)) :
            (q \o r)[i] = IF i <= Len(q) THEN q[i] ELSE r[i - Len(q)]
  BY ConcatProperties
<1>3. \A i \in 1..Len(q) : (q \o r)[i] = q[i]
  BY <1>1, <1>2
<1>4. \A i \in 1..Len(r) : (q \o r)[Len(q) + i] = r[i]
  <2> SUFFICES ASSUME NEW i \in 1..Len(r) PROVE (q \o r)[Len(q) + i] = r[i]
    OBVIOUS
  <2>1. Len(q) + i \in 1..(Len(q) + Len(r)) /\ ~(Len(q) + i <= Len(q))
        /\ (Len(q) + i) - Len(q) = i
    BY <1>1
  <2> QED
    BY <2>1, <1>2
<1>5. ASSUME NEW i \in 1..Len(q \o r)
      PROVE  \/ i \in 1..Len(q) /\ (q \o r)[i] = q[i]
             \/ \E j \in 1..Len(r) : i = Len(q) + j /\ (q \o r)[i] = r[j]
  <2>1. CASE i <= Len(q)
    BY <2>1, <1>1, <1>2
  <2>2. CASE ~(i <= Len(q))
    <3>1. i - Len(q) \in 1..Len(r) /\ i = Len(q) + (i - Len(q))
      BY <2>2, <1>1, <1>2
    <3> QED
      BY <3>1, <1>4
  <2> QED
    BY <2>1, <2>2
<1> QED
  BY <1>2, <1>3, <1>4, <1>5

\* Append is such a join.
LEMMA Appended ==
    ASSUME NEW S, NEW q \in Seq(S), NEW e \in S
    PROVE  /\ Append(q, e) = q \o <<e>>
           /\ <<e>> \in Seq(S) /\ Len(<<e>>) = 1 /\ <<e>>[1] = e
<1>1. <<e>> \in Seq(S) /\ Len(<<e>>) = 1 /\ <<e>>[1] = e
  OBVIOUS
<1>2. Append(q, e) = q \o <<e>>
  BY AppendIsConcat, <1>1
<1> QED
  BY <1>1, <1>2

\* A connection over which r has been told, and whose service is called m now.
Said(x, r, m) ==
    [name |-> m, q |-> x.q \o r, readers |-> x.readers, pane |-> x.pane, size |-> x.size]

\* One field changed.
LEMMA FieldsOf ==
    ASSUME NEW x, IsConn(x), NEW v
    PROVE  /\ [x EXCEPT !.q = v] = [name |-> x.name, q |-> v, readers |-> x.readers,
                                    pane |-> x.pane, size |-> x.size]
           /\ [x EXCEPT !.name = v] = [name |-> v, q |-> x.q, readers |-> x.readers,
                                       pane |-> x.pane, size |-> x.size]
BY DEF IsConn

\* Both fields at a time, in either order.
LEMMA SaidIs ==
    ASSUME NEW x, IsConn(x), NEW q, NEW m
    PROVE  LET y == [name |-> m, q |-> q, readers |-> x.readers, pane |-> x.pane, size |-> x.size]
           IN  [x EXCEPT !.q = q, !.name = m] = y /\ [x EXCEPT !.name = m, !.q = q] = y
<1> DEFINE y == [x EXCEPT !.q = q]
           z == [x EXCEPT !.name = m]
<1>1. y = [name |-> x.name, q |-> q, readers |-> x.readers, pane |-> x.pane, size |-> x.size]
  BY DEF IsConn
<1>2. z = [name |-> m, q |-> x.q, readers |-> x.readers, pane |-> x.pane, size |-> x.size]
  BY DEF IsConn
<1>3. /\ [x EXCEPT !.q = q, !.name = m] = [y EXCEPT !.name = m]
      /\ [x EXCEPT !.name = m, !.q = q] = [z EXCEPT !.q = q]
  BY Zenon
<1> HIDE DEF y, z
<1>4. /\ [y EXCEPT !.name = m] = [name |-> m, q |-> q, readers |-> x.readers, pane |-> x.pane,
                                   size |-> x.size]
      /\ [z EXCEPT !.q = q] = [name |-> m, q |-> q, readers |-> x.readers, pane |-> x.pane,
                               size |-> x.size]
  BY <1>1, <1>2
<1> QED
  BY <1>3, <1>4

\* What is told over a connection: a "gone" comes last and takes its name.
LEMMA Telling ==
    ASSUME NEW x, Line(x), x.name # None,
           NEW r \in Seq(Reports), NEW m \in Names \cup {None},
           \A i \in 1..Len(r) : r[i] = GoneAway => i = Len(r) /\ m = None
    PROVE  /\ Line(Said(x, r, m))
           /\ Said(x, r, m).pane = x.pane /\ Said(x, r, m).readers = x.readers
           /\ Said(x, r, m).name = m /\ Said(x, r, m).q = x.q \o r /\ Said(x, r, m).size = x.size
<1> DEFINE y == Said(x, r, m)
           q == x.q
<1>1. /\ IsConn(y) /\ y.name = m /\ y.q = q \o r /\ y.readers = x.readers
      /\ y.pane = x.pane /\ y.size = x.size
  BY DEF Said, IsConn
<1>2. /\ q \in Seq(Reports) /\ x.readers = 1 /\ x.pane \in PaneIds
      /\ \A i \in 1..Len(q) : q[i] # GoneAway
  BY Empty DEF Line
<1> HIDE DEF y, q
<1>3. q \o r \in Seq(Reports)
  BY <1>2, Joined
<1>4. ASSUME NEW i \in 1..Len(q \o r), (q \o r)[i] = GoneAway
      PROVE  i = Len(q \o r) /\ m = None
  <2>1. PICK j \in 1..Len(r) : i = Len(q) + j /\ (q \o r)[i] = r[j]
    <3>1. q \in Seq(Reports)
      BY <1>2
    <3>2. \A k \in 1..Len(q \o r) :
             \/ k \in 1..Len(q) /\ (q \o r)[k] = q[k]
             \/ \E j \in 1..Len(r) : k = Len(q) + j /\ (q \o r)[k] = r[j]
      BY ONLY <3>1, r \in Seq(Reports), Joined
    <3> QED
      BY <3>2, <1>2, <1>4
  <2>2. j = Len(r) /\ m = None
    <3>1. r[j] = GoneAway
      BY <2>1, <1>4
    <3> QED
      BY <3>1
  <2>3. Len(q \o r) = Len(q) + Len(r)
    BY <1>2, Joined
  <2> QED
    BY <2>1, <2>2, <2>3
<1>5. Line(y)
  BY <1>1, <1>2, <1>3, <1>4 DEF Line
<1> QED
  BY <1>1, <1>5 DEF y, q

\* What a name becomes: nothing else than a rename tells.
LEMMA BecomesTold ==
    ASSUME NEW q \in Seq(Reports), NEW r \in Seq(Reports), NEW name, NEW n,
           \A i \in 1..Len(r) : r[i].kind # "renamed",
           Becomes(q, name, n)
    PROVE  Becomes(q \o r, name, n)
<1> DEFINE s == q \o r
           before == {i \in DOMAIN q : q[i].kind = "renamed"}
           after == {i \in DOMAIN s : s[i].kind = "renamed"}
<1>1. /\ DOMAIN q = 1..Len(q) /\ DOMAIN s = 1..Len(s) /\ Len(q) \in Nat /\ Len(r) \in Nat
      /\ Len(s) = Len(q) + Len(r) /\ \A i \in 1..Len(q) : s[i] = q[i]
  BY Joined
<1>2. ASSUME NEW i \in 1..Len(s), s[i].kind = "renamed"
      PROVE  i \in 1..Len(q)
  BY <1>2, Joined
<1>3. \A i \in 1..Len(q) : i \in 1..Len(s)
  BY <1>1
<1> HIDE DEF s
<1>4. before = after
  BY <1>1, <1>2, <1>3
<1>5. \A i \in before : s[i] = q[i]
  BY <1>1
<1> HIDE DEF before, after
<1>6. IF before = {} THEN name = n
      ELSE \E last \in before : q[last].name = n /\ \A i \in before : i <= last
  BY DEF Becomes, before
<1>7. IF after = {} THEN name = n
      ELSE \E last \in after : s[last].name = n /\ \A i \in after : i <= last
  BY <1>4, <1>5, <1>6
<1> QED
  BY <1>7 DEF Becomes, after, s

\* And the last of them is what counts.
LEMMA BecomesRenamed ==
    ASSUME NEW q \in Seq(Reports), NEW name, NEW m \in Names
    PROVE  Becomes(q \o <<[kind |-> "renamed", name |-> m]>>, name, m)
<1> DEFINE e == [kind |-> "renamed", name |-> m]
           s == q \o <<e>>
           after == {i \in DOMAIN s : s[i].kind = "renamed"}
<1>1. e \in Reports /\ e.kind = "renamed" /\ e.name = m
  BY ReportKinds
<1> HIDE DEF e
<1>2. <<e>> \in Seq(Reports) /\ Len(<<e>>) = 1 /\ <<e>>[1] = e
  BY <1>1, Appended
<1>3. /\ s \in Seq(Reports) /\ Len(s) = Len(q) + 1 /\ s[Len(q) + 1] = e
      /\ Len(q) \in Nat /\ DOMAIN s = 1..Len(s)
  BY <1>2, Joined
<1> HIDE DEF s
<1>4. Len(q) + 1 \in after /\ \A i \in after : i <= Len(q) + 1
  BY <1>1, <1>3
<1> HIDE DEF after
<1>5. IF after = {} THEN name = m
      ELSE \E last \in after : s[last].name = m /\ \A i \in after : i <= last
  BY <1>1, <1>3, <1>4
<1> QED
  BY <1>5 DEF Becomes, after, s, e

\* Once a rename is on its way it does not matter what a pane was called.
LEMMA BecomesAnyhow ==
    ASSUME NEW q, NEW name, NEW n, NEW other, Becomes(q, name, n), name # n
    PROVE  Becomes(q, other, n)
BY DEF Becomes

\* y is x over which something has been told that x's pane will make sense of.
Tells(x, y) ==
    \/ y = x
    \/ /\ x.name # None
       /\ \E r \in Seq(Reports), m \in Names \cup {None} :
             /\ y = Said(x, r, m)
             /\ \A i \in 1..Len(r) : r[i] = GoneAway => i = Len(r) /\ m = None
             /\ \/ m = None
                \/ m = x.name /\ \A i \in 1..Len(r) : r[i].kind # "renamed"
                \/ m # None /\ r = <<[kind |-> "renamed", name |-> m]>>

\* What is told when a service or the daemon ends, or a program switches a mode, and
\* when a service has another name.
LEMMA WhatIsTold ==
    ASSUME NEW x, Line(x), x.name # None
    PROVE  /\ Tells(x, Said(x, <<Finished, GoneAway>>, None))
           /\ Tells(x, Said(x, <<GoneAway>>, None))
           /\ \A ms \in SUBSET Modes :
                 Tells(x, Said(x, <<[kind |-> "modes", modes |-> ms]>>, x.name))
           /\ \A m \in Names : Tells(x, Said(x, <<[kind |-> "renamed", name |-> m]>>, m))
<1>1. x.name \in Names /\ None \notin Names
  BY NoneIsNone DEF Line
<1>2. Tells(x, Said(x, <<Finished, GoneAway>>, None))
  <2> DEFINE r == <<Finished, GoneAway>>
  <2>1. r \in Seq(Reports) /\ Len(r) = 2 /\ r[1] = Finished /\ r[2] = GoneAway
    BY ReportKinds
  <2>2. Finished # GoneAway
    BY DEF Finished, GoneAway
  <2> HIDE DEF r
  <2>3. \A i \in 1..Len(r) : r[i] = GoneAway => i = Len(r)
    BY <2>1, <2>2
  <2>4. Tells(x, Said(x, r, None))
    BY <2>1, <2>3 DEF Tells
  <2> QED
    BY <2>4 DEF r
<1>3. Tells(x, Said(x, <<GoneAway>>, None))
  <2>1. <<GoneAway>> \in Seq(Reports) /\ Len(<<GoneAway>>) = 1
    BY ReportKinds
  <2>2. \A i \in 1..Len(<<GoneAway>>) : i = Len(<<GoneAway>>)
    BY <2>1
  <2> QED
    BY <2>1, <2>2 DEF Tells
<1>4. ASSUME NEW ms \in SUBSET Modes
      PROVE  Tells(x, Said(x, <<[kind |-> "modes", modes |-> ms]>>, x.name))
  <2> DEFINE e == [kind |-> "modes", modes |-> ms]
             r == <<e>>
  <2>1. e \in Reports /\ e # GoneAway /\ e.kind # "renamed"
    BY ReportKinds DEF GoneAway
  <2> HIDE DEF e
  <2>2. r \in Seq(Reports) /\ Len(r) = 1 /\ r[1] = e
    BY <2>1
  <2> HIDE DEF r
  <2>3. \A i \in 1..Len(r) : r[i] # GoneAway /\ r[i].kind # "renamed"
    BY <2>1, <2>2
  <2>4. Tells(x, Said(x, r, x.name))
    BY <2>2, <2>3, <1>1 DEF Tells
  <2> QED
    BY <2>4 DEF r, e
<1>5. ASSUME NEW m \in Names
      PROVE  Tells(x, Said(x, <<[kind |-> "renamed", name |-> m]>>, m))
  <2> DEFINE e == [kind |-> "renamed", name |-> m]
  <2>1. e \in Reports /\ e # GoneAway
    BY ReportKinds DEF GoneAway
  <2> HIDE DEF e
  <2>2. <<e>> \in Seq(Reports) /\ Len(<<e>>) = 1 /\ <<e>>[1] = e
    BY <2>1
  <2>3. \A i \in 1..Len(<<e>>) : <<e>>[i] # GoneAway
    BY <2>1, <2>2
  <2>4. /\ x.name # None /\ m \in Names \cup {None} /\ m # None
        /\ <<e>> = <<[kind |-> "renamed", name |-> m]>>
    BY <1>1 DEF e
  <2>5. Tells(x, Said(x, <<e>>, m))
    BY <2>2, <2>3, <2>4, Zenon DEF Tells
  <2> QED
    BY <2>5 DEF e
<1> QED
  BY <1>2, <1>3, <1>4, <1>5

\* A connection told something is still a line to the pane it was made for, and what
\* the pane is called comes right again.
LEMMA Told1 ==
    ASSUME NEW x, Line(x), NEW y, Tells(x, y)
    PROVE  /\ Line(y) /\ y.pane = x.pane /\ y.readers = x.readers /\ y.size = x.size
           /\ y.name # None => x.name # None
           /\ \A name : (x.name # None => Becomes(x.q, name, x.name))
                       => (y.name # None => Becomes(y.q, name, y.name))
<1>1. CASE y = x
  BY <1>1
<1>2. CASE y # x
  <2>1. PICK r \in Seq(Reports), m \in Names \cup {None} :
             /\ x.name # None /\ y = Said(x, r, m)
             /\ \A i \in 1..Len(r) : r[i] = GoneAway => i = Len(r) /\ m = None
             /\ \/ m = None
                \/ m = x.name /\ \A i \in 1..Len(r) : r[i].kind # "renamed"
                \/ m # None /\ r = <<[kind |-> "renamed", name |-> m]>>
    BY <1>2 DEF Tells
  <2>2. /\ Line(y) /\ y.pane = x.pane /\ y.readers = x.readers
        /\ y.name = m /\ y.q = x.q \o r /\ y.size = x.size
    BY <2>1, Telling
  <2>3. x.q \in Seq(Reports)
    BY DEF Line
  <2>4. ASSUME NEW name, Becomes(x.q, name, x.name), m # None
        PROVE  Becomes(x.q \o r, name, m)
    <3>1. CASE m = x.name /\ \A i \in 1..Len(r) : r[i].kind # "renamed"
      BY <3>1, <2>3, <2>4, BecomesTold
    <3>2. CASE r = <<[kind |-> "renamed", name |-> m]>>
      <4>1. m \in Names
        BY <2>4
      <4> QED
        BY <4>1, <3>2, <2>3, BecomesRenamed
    <3> QED
      BY <3>1, <3>2, <2>1, <2>4
  <2> QED
    BY <2>1, <2>2, <2>4
<1> QED
  BY <1>1, <1>2

\* Whatever is told, the panes go on by their connections, and know as much of sizes.
LEMMA AllTold ==
    ASSUME NEW pn, NEW cn, NEW dn, NEW S, Wired(pn, cn, S), dn = [c \in Conns |-> dn[c]],
           \A c \in Conns : Tells(cn[c], dn[c])
    PROVE  Wired(pn, dn, S) /\ (Sized(pn, cn, S) => Sized(pn, dn, S))
<1>1. \A c \in Conns : Line(cn[c])
  BY DEF Wired
<1>2. \A c \in Conns :
        /\ Line(dn[c]) /\ dn[c].pane = cn[c].pane /\ dn[c].readers = cn[c].readers
        /\ dn[c].size = cn[c].size /\ (dn[c].name # None => cn[c].name # None)
        /\ \A name : (cn[c].name # None => Becomes(cn[c].q, name, cn[c].name))
                    => (dn[c].name # None => Becomes(dn[c].q, name, dn[c].name))
  BY <1>1, Told1
<1>3. ASSUME NEW p \in S PROVE Goes(p, pn[p], dn)
  <2>1. Goes(p, pn[p], cn)
    BY DEF Wired
  <2>2. pn[p].conn \in Conns
    BY <2>1 DEF Goes
  <2> QED
    BY <2>1, <2>2, <1>2 DEF Goes
<1>4. Wired(pn, dn, S)
  BY <1>2, <1>3 DEF Wired
<1>5. \A p \in S : pn[p].conn \in Conns
  BY DEF Wired, Goes
<1>6. Sized(pn, cn, S) => Sized(pn, dn, S)
  BY <1>2, <1>5 DEF Sized
<1> QED
  BY <1>4, <1>6

\* Pane p becomes x, and is on the screen or not, and the connections change that no
\* other pane on the screen goes by.
Becoming(cn, dn, S, T, p, x) ==
    /\ IsPane(x) /\ x.weight \in Weights /\ p \in PaneIds
    /\ T \subseteq PaneIds /\ T \ {p} = S \ {p}
    /\ dn = [c \in Conns |-> dn[c]] /\ \A c \in Conns : Line(dn[c])
    /\ \A c \in Conns : cn[c].pane \in S \ {p} => dn[c] = cn[c]
    /\ p \in T => Goes(p, x, dn)
    /\ p \notin T => Off(x)

\* That is all there is to do for the panes to go on.
LEMMA Replaced ==
    ASSUME NEW pn, NEW cn, NEW dn, NEW S, NEW T, Wired(pn, cn, S), NEW p, NEW x,
           Becoming(cn, dn, S, T, p, x)
    PROVE  /\ Wired([pn EXCEPT ![p] = x], dn, T)
           /\ Sized(pn, cn, S \ {p}) => Sized([pn EXCEPT ![p] = x], dn, T \ {p})
<1> USE DEF Becoming
<1> DEFINE qn == [pn EXCEPT ![p] = x]
<1>1. pn = [r \in PaneIds |-> pn[r]]
  BY DEF Wired
<1>2. /\ qn = [r \in PaneIds |-> IF r = p THEN x ELSE pn[r]]
  BY <1>1
<1>3. /\ qn = [r \in PaneIds |-> qn[r]] /\ qn[p] = x
      /\ \A r \in PaneIds \ {p} : qn[r] = pn[r]
  BY <1>2
<1> HIDE DEF qn
<1>4. ASSUME NEW r \in T PROVE Goes(r, qn[r], dn)
  <2>1. CASE r = p
    BY <2>1, <1>3
  <2>2. CASE r # p
    <3>1. r \in S /\ Goes(r, pn[r], cn) /\ qn[r] = pn[r]
      BY <2>2, <1>3 DEF Wired
    <3>2. pn[r].conn \in Conns /\ cn[pn[r].conn].pane \in S \ {p}
      BY <2>2, <3>1 DEF Goes
    <3>3. dn[pn[r].conn] = cn[pn[r].conn]
      BY <3>2
    <3> QED
      BY <3>1, <3>3 DEF Goes
  <2> QED
    BY <2>1, <2>2
<1>5. \A r \in PaneIds \ T : Off(qn[r])
  BY <1>3 DEF Wired
<1>6. \A r \in PaneIds : IsPane(qn[r]) /\ qn[r].weight \in Weights
  BY <1>3 DEF Wired
<1>7. Wired(qn, dn, T)
  BY <1>3, <1>4, <1>5, <1>6 DEF Wired
<1>8. ASSUME Sized(pn, cn, S \ {p}) PROVE Sized(qn, dn, T \ {p})
  <2> SUFFICES ASSUME NEW r \in T \ {p}
               PROVE  HasRoom(qn[r].rect) =>
                          /\ qn[r].grid = SizeOf(qn[r].rect)
                          /\ dn[qn[r].conn].name # None => dn[qn[r].conn].size = qn[r].grid
    BY DEF Sized
  <2>1. r \in S \ {p} /\ Goes(r, pn[r], cn) /\ qn[r] = pn[r]
    BY <1>3 DEF Wired
  <2>2. dn[pn[r].conn] = cn[pn[r].conn]
    BY <2>1 DEF Goes
  <2> QED
    BY <2>1, <2>2, <1>8 DEF Sized
<1> QED
  BY <1>7, <1>8 DEF qn

----------------------------------------------------------------------------
(* What is forgotten, laid out and drawn after every command and report. *)

\* The places of the screen.
LEMMA Places ==
    ASSUME NEW sh \in Seq(PaneIds)
    PROVE  /\ DOMAIN sh = 1..Len(sh) /\ Len(sh) \in Nat
           /\ On(sh) \subseteq PaneIds
           /\ \A i \in 1..Len(sh) : sh[i] \in On(sh)
           /\ \A p : p \in On(sh) <=> \E i \in DOMAIN sh : sh[i] = p
BY DEF On

\* Forgetting what nobody refers to changes nothing that anybody sees.
LEMMA Tidied ==
    ASSUME NEW pn, NEW cn, NEW sh \in Seq(PaneIds), Wired(pn, cn, On(sh))
    PROVE  LET qn == TidyPanes(cn, pn, sh)
               dn == TidyConns(cn, pn, sh)
           IN  /\ Wired(qn, dn, On(sh))
               /\ Sized(pn, cn, On(sh)) => Sized(qn, dn, On(sh))
               /\ \A i \in 1..Len(sh) : qn[sh[i]] = pn[sh[i]]
<1> DEFINE qn == TidyPanes(cn, pn, sh)
           dn == TidyConns(cn, pn, sh)
           S == On(sh)
<1>1. \A c \in Conns : Line(dn[c])
  BY Empty DEF Wired, TidyConns
<1>2. /\ qn = [p \in PaneIds |-> qn[p]] /\ dn = [c \in Conns |-> dn[c]]
  BY DEF TidyPanes, TidyConns
<1>3. \A p \in PaneIds : /\ IsPane(qn[p]) /\ qn[p].weight \in Weights
                         /\ qn[p] = pn[p] \/ Off(qn[p])
  BY Empty DEF Wired, TidyPanes
<1>4. \A p \in S : qn[p] = pn[p]
  BY Places DEF TidyPanes
<1>5. ASSUME NEW p \in S PROVE dn[pn[p].conn] = cn[pn[p].conn] /\ Goes(p, pn[p], cn)
  <2>1. PICK i \in DOMAIN sh : sh[i] = p
    BY Places
  <2>2. Goes(p, pn[p], cn)
    BY DEF Wired
  <2>3. pn[p].conn \in Conns
    BY <2>2 DEF Goes
  <2> QED
    BY <2>1, <2>2, <2>3 DEF TidyConns
<1>6. S \subseteq PaneIds
  BY Places
<1>7. \A p \in PaneIds \ S : Off(pn[p])
  BY DEF Wired
<1>8. \A i \in 1..Len(sh) : sh[i] \in S
  BY Places
<1> HIDE DEF qn, dn, S
<1>9. ASSUME NEW p \in S PROVE Goes(p, qn[p], dn)
  BY <1>4, <1>5 DEF Goes
<1>10. Wired(qn, dn, S)
  <2>1. \A p \in PaneIds : IsPane(qn[p]) /\ qn[p].weight \in Weights
    BY <1>3
  <2>2. \A p \in PaneIds \ S : Off(qn[p])
    BY <1>3, <1>7, Zenon
  <2> QED
    BY ONLY <1>1, <1>2, <1>6, <1>9, <2>1, <2>2 DEF Wired
<1>11. Sized(pn, cn, S) => Sized(qn, dn, S)
  BY <1>4, <1>5 DEF Sized
<1> QED
  BY <1>4, <1>8, <1>10, <1>11 DEF qn, dn, S

\* The arrangement, and whether any pane has anything to say, depend on the panes
\* that are on the screen.
LEMMA LayoutAlike ==
    ASSUME NEW pn, NEW qn, NEW sh \in Seq(PaneIds), NEW fo, NEW ho,
           \A i \in 1..Len(sh) : /\ qn[sh[i]].name = pn[sh[i]].name
                                 /\ qn[sh[i]].weight = pn[sh[i]].weight
    PROVE  LayoutOf(qn, sh, fo, ho) = LayoutOf(pn, sh, fo, ho)
<1>1. DOMAIN sh = 1..Len(sh)
  BY Places
<1>2. [i \in DOMAIN sh |-> [name |-> qn[sh[i]].name, weight |-> qn[sh[i]].weight]]
      = [i \in DOMAIN sh |-> [name |-> pn[sh[i]].name, weight |-> pn[sh[i]].weight]]
  BY <1>1
<1> QED
  BY <1>2 DEF LayoutOf

\* What may be on disk of an arrangement.
LEMMA LayoutPanesKnown ==
    ASSUME NEW pn, NEW cn, NEW sh \in Seq(PaneIds), NEW fo, NEW ho, Wired(pn, cn, On(sh))
    PROVE  LayoutOf(pn, sh, fo, ho).panes \in Seq([name : Names, weight : Weights])
<1> DEFINE ps == [i \in 1..Len(sh) |-> [name |-> pn[sh[i]].name, weight |-> pn[sh[i]].weight]]
<1>1. \A i \in 1..Len(sh) : /\ sh[i] \in PaneIds
                            /\ pn[sh[i]].name \in Names /\ pn[sh[i]].weight \in Weights
  BY Places DEF Wired, Goes
<1>2. ps \in [1..Len(sh) -> [name : Names, weight : Weights]]
  BY <1>1
<1>3. Len(sh) \in Nat /\ DOMAIN sh = 1..Len(sh)
  BY Places
<1>4. ps \in Seq([name : Names, weight : Weights])
  BY <1>2, <1>3, IsASeq
<1>5. LayoutOf(pn, sh, fo, ho).panes = ps
  BY <1>3 DEF LayoutOf
<1> QED
  BY <1>4, <1>5

\* The panes of qn are those of pn, those on the screen in other places.
Placed(pn, qn, S) ==
    /\ qn = [p \in PaneIds |-> qn[p]]
    /\ \A p \in PaneIds \ S : qn[p] = pn[p]
    /\ \A p \in S : HasRoom(qn[p].rect) => qn[p].grid = SizeOf(qn[p].rect)
    /\ \A p \in PaneIds :
          /\ IsPane(qn[p])
          /\ qn[p].name = pn[p].name /\ qn[p].conn = pn[p].conn
          /\ qn[p].ran = pn[p].ran /\ qn[p].finished = pn[p].finished
          /\ qn[p].frozen = pn[p].frozen /\ qn[p].closed = pn[p].closed
          /\ qn[p].modes = pn[p].modes /\ qn[p].weight = pn[p].weight

\* A pane that has been laid out is the same pane in another place.
LEMMA LaidOut ==
    ASSUME NEW pn, NEW sh \in Seq(PaneIds), NEW ho, NEW sz, pn = [p \in PaneIds |-> pn[p]],
           \A p \in PaneIds : IsPane(pn[p])
    PROVE  Placed(pn, Laid(pn, sh, ho, sz), On(sh))
<1> DEFINE qn == Laid(pn, sh, ho, sz)
           rects == LayoutPanes([i \in DOMAIN sh |-> pn[sh[i]].weight], ho, sz.cols, sz.rows)
           Put(x, r) == [x EXCEPT !.rect = r, !.grid = Resized(x.grid, r)]
<1>1. ASSUME NEW x, IsPane(x), NEW r
      PROVE  /\ IsPane(Put(x, r))
             /\ HasRoom(Put(x, r).rect) => Put(x, r).grid = SizeOf(Put(x, r).rect)
             /\ Put(x, r).name = x.name /\ Put(x, r).conn = x.conn
             /\ Put(x, r).ran = x.ran /\ Put(x, r).finished = x.finished
             /\ Put(x, r).frozen = x.frozen /\ Put(x, r).closed = x.closed
             /\ Put(x, r).modes = x.modes /\ Put(x, r).weight = x.weight
  <2> DEFINE y == [x EXCEPT !.rect = r]
  <2>1. y = [name |-> x.name, conn |-> x.conn, ran |-> x.ran, finished |-> x.finished,
             frozen |-> x.frozen, closed |-> x.closed, modes |-> x.modes, weight |-> x.weight,
             rect |-> r, grid |-> x.grid]
    BY <1>1 DEF IsPane
  <2>2. Put(x, r) = [y EXCEPT !.grid = Resized(x.grid, r)]
    BY Zenon
  <2> HIDE DEF y
  <2>3. [y EXCEPT !.grid = Resized(x.grid, r)]
        = [name |-> x.name, conn |-> x.conn, ran |-> x.ran, finished |-> x.finished,
           frozen |-> x.frozen, closed |-> x.closed, modes |-> x.modes, weight |-> x.weight,
           rect |-> r, grid |-> Resized(x.grid, r)]
    BY <2>1
  <2> HIDE DEF Put
  <2> QED
    BY <2>2, <2>3 DEF IsPane, Resized
<1>2. qn = [p \in PaneIds |->
              IF p \in On(sh) THEN Put(pn[p], rects[CHOOSE i \in DOMAIN sh : sh[i] = p]) ELSE pn[p]]
  BY Places, Zenon DEF Laid
<1> HIDE DEF rects, Put, qn
<1>3. \A p \in PaneIds :
         qn[p] = IF p \in On(sh) THEN Put(pn[p], rects[CHOOSE i \in DOMAIN sh : sh[i] = p])
                 ELSE pn[p]
  BY <1>2
<1>4. On(sh) \subseteq PaneIds
  BY Places
<1>5. qn = [p \in PaneIds |-> qn[p]]
  BY <1>2
<1>6. \A p \in PaneIds \ On(sh) : qn[p] = pn[p]
  BY <1>3
<1>7. ASSUME NEW p \in PaneIds
      PROVE  /\ p \in On(sh) /\ HasRoom(qn[p].rect) => qn[p].grid = SizeOf(qn[p].rect)
             /\ IsPane(qn[p])
             /\ qn[p].name = pn[p].name /\ qn[p].conn = pn[p].conn
             /\ qn[p].ran = pn[p].ran /\ qn[p].finished = pn[p].finished
             /\ qn[p].frozen = pn[p].frozen /\ qn[p].closed = pn[p].closed
             /\ qn[p].modes = pn[p].modes /\ qn[p].weight = pn[p].weight
  <2>1. IsPane(pn[p])
    OBVIOUS
  <2>2. CASE p \in On(sh)
    <3>1. PICK r : qn[p] = Put(pn[p], r)
      BY <2>2, <1>3
    <3> QED
      BY <2>1, <3>1, <1>1
  <2>3. CASE p \notin On(sh)
    BY <2>1, <2>3, <1>3
  <2> QED
    BY <2>2, <2>3
<1> QED
  BY <1>4, <1>5, <1>6, <1>7 DEF qn, Placed

\* Laid out and told of it, every pane goes on, and knows its size.
LEMMA Relaying ==
    ASSUME NEW pn, NEW cn, NEW sh \in Seq(PaneIds), NEW ho, NEW sz, Wired(pn, cn, On(sh))
    PROVE  LET qn == Laid(pn, sh, ho, sz)
           IN  /\ Wired(qn, Told(cn, qn), On(sh)) /\ Sized(qn, Told(cn, qn), On(sh))
               /\ \A p \in PaneIds : /\ qn[p].name = pn[p].name /\ qn[p].weight = pn[p].weight
                                     /\ qn[p].modes = pn[p].modes
                                     /\ qn[p].finished = pn[p].finished
                                     /\ qn[p].frozen = pn[p].frozen
<1> DEFINE qn == Laid(pn, sh, ho, sz)
           dn == Told(cn, qn)
           S == On(sh)
<1>1. /\ pn = [p \in PaneIds |-> pn[p]] /\ cn = [c \in Conns |-> cn[c]] /\ S \subseteq PaneIds
      /\ \A p \in PaneIds : IsPane(pn[p]) /\ pn[p].weight \in Weights
      /\ \A c \in Conns : Line(cn[c])
  BY DEF Wired
<1>2. /\ qn = [p \in PaneIds |-> qn[p]]
      /\ \A p \in S : HasRoom(qn[p].rect) => qn[p].grid = SizeOf(qn[p].rect)
      /\ \A p \in PaneIds :
            /\ IsPane(qn[p])
            /\ qn[p].name = pn[p].name /\ qn[p].conn = pn[p].conn
            /\ qn[p].finished = pn[p].finished
            /\ qn[p].frozen = pn[p].frozen /\ qn[p].closed = pn[p].closed
            /\ qn[p].modes = pn[p].modes /\ qn[p].weight = pn[p].weight
  <2>1. \A p \in PaneIds : IsPane(pn[p])
    BY <1>1
  <2>2. pn = [p \in PaneIds |-> pn[p]]
    BY <1>1
  <2>3. Placed(pn, qn, S)
    BY <2>1, <2>2, LaidOut
  <2> HIDE DEF qn
  <2> QED
    BY <2>3 DEF Placed
<1> HIDE DEF qn
<1>3. \A x, sz2 : IsConn(x) =>
         /\ IsConn([x EXCEPT !.size = sz2]) /\ [x EXCEPT !.size = sz2].size = sz2
         /\ [x EXCEPT !.size = sz2].name = x.name /\ [x EXCEPT !.size = sz2].q = x.q
         /\ [x EXCEPT !.size = sz2].readers = x.readers /\ [x EXCEPT !.size = sz2].pane = x.pane
  BY DEF IsConn
<1>4. ASSUME NEW c \in Conns
      PROVE  /\ IsConn(dn[c])
             /\ dn[c].name = cn[c].name /\ dn[c].q = cn[c].q
             /\ dn[c].readers = cn[c].readers /\ dn[c].pane = cn[c].pane
             /\ cn[c].name # None /\ qn[cn[c].pane].conn = c => dn[c].size = SizeOf(qn[cn[c].pane].rect)
             /\ cn[c].name = None => dn[c] = cn[c]
  <2>1. IsConn(cn[c])
    BY <1>1 DEF Line
  <2>2. dn[c] = IF cn[c].name # None /\ qn[cn[c].pane].conn = c
                THEN [cn[c] EXCEPT !.size = SizeOf(qn[cn[c].pane].rect)] ELSE cn[c]
    BY DEF Told
  <2> HIDE DEF dn
  <2>3. CASE cn[c].name # None /\ qn[cn[c].pane].conn = c
    <3>1. dn[c] = [cn[c] EXCEPT !.size = SizeOf(qn[cn[c].pane].rect)]
      BY <2>2, <2>3
    <3> DEFINE z == SizeOf(qn[cn[c].pane].rect)
               y == [cn[c] EXCEPT !.size = z]
    <3>2. /\ IsConn(y) /\ y.size = z /\ y.name = cn[c].name /\ y.q = cn[c].q
          /\ y.readers = cn[c].readers /\ y.pane = cn[c].pane
      <4> HIDE DEF z
      <4> QED
        BY ONLY <2>1, <1>3, Zenon
    <3>3. dn[c] = y
      BY <3>1, Zenon
    <3> HIDE DEF y
    <3> QED
      BY <2>3, <3>2, <3>3
  <2>4. CASE ~(cn[c].name # None /\ qn[cn[c].pane].conn = c)
    <3>1. dn[c] = cn[c]
      BY <2>2, <2>4
    <3> QED
      BY <2>1, <2>4, <3>1
  <2> QED
    BY <2>3, <2>4
<1>5. dn = [c \in Conns |-> dn[c]]
  BY DEF Told
<1> HIDE DEF dn
<1>6. ASSUME NEW c \in Conns PROVE Line(dn[c])
  <2>1. Line(cn[c])
    BY <1>1
  <2>2. dn[c] = NoConn \/ dn[c].pane \in PaneIds
    BY <2>1, <1>4, Empty DEF Line
  <2> QED
    BY <2>1, <2>2, <1>4 DEF Line
<1>7. ASSUME NEW p \in S
      PROVE  Goes(p, qn[p], dn) /\ (dn[qn[p].conn].name # None => dn[qn[p].conn].size = SizeOf(qn[p].rect))
  <2>1. Goes(p, pn[p], cn)
    BY DEF Wired
  <2>2. pn[p].conn \in Conns /\ cn[pn[p].conn].pane = p /\ qn[p].conn = pn[p].conn
    BY <2>1, <1>1, <1>2 DEF Goes
  <2>3. Goes(p, qn[p], dn)
    BY <2>1, <2>2, <1>1, <1>2, <1>4 DEF Goes
  <2>4. dn[qn[p].conn].name # None => dn[qn[p].conn].size = SizeOf(qn[p].rect)
    BY <2>2, <1>4
  <2> QED
    BY <2>3, <2>4
<1>8. ASSUME NEW p \in PaneIds \ S PROVE Off(qn[p])
  BY <1>2 DEF Wired, Off
<1>9. Wired(qn, dn, S)
  BY <1>1, <1>2, <1>5, <1>6, <1>7, <1>8 DEF Wired
<1>10. Sized(qn, dn, S)
  BY <1>2, <1>7 DEF Sized
<1> QED
  BY <1>2, <1>9, <1>10 DEF qn, dn, S

\* The modes the terminal is in and those it was told, after each way of telling it.
LEMMA Painted ==
    ASSUME Differs(term, told) \subseteq askew, NEW want
    PROVE  /\ Paint(want) => told' = want /\ Differs(term', told') \subseteq askew'
           /\ Redraw(want) => told' = want /\ Differs(term', told') \subseteq askew'
           /\ CloseScreen => told' = {} /\ Differs(term', told') \subseteq askew'
BY DEF Paint, Redraw, CloseScreen, Differs

----------------------------------------------------------------------------
(* How commands and reports end. *)

\* What is shown after a command or a report.
LEMMA ShowsKeeps ==
    ASSUME NEW pn, NEW cn, NEW sh, NEW fo, NEW ho,
           Wired(pn, cn, On(sh)), Row(sh, fo), Sized(pn, cn, On(sh)), Shows(pn, cn, sh, fo, ho)
    PROVE  /\ Wired(pane', conn', On(shown')) /\ Row(shown', focus')
           /\ Sized(pane', conn', On(shown'))
           /\ Focused' = pane'[sh[fo]] /\ pane'[sh[fo]] = pn[sh[fo]]
           /\ LayoutOf(pane', shown', focus', how') = LayoutOf(pn, sh, fo, ho)
<1>1. sh \in Seq(PaneIds) /\ fo \in 1..Len(sh)
  BY DEF Row
<1>2. /\ pane' = TidyPanes(cn, pn, sh) /\ conn' = TidyConns(cn, pn, sh)
      /\ shown' = sh /\ focus' = fo /\ how' = ho
  BY DEF Shows
<1>3. /\ Wired(pane', conn', On(sh)) /\ Sized(pane', conn', On(sh))
      /\ \A i \in 1..Len(sh) : pane'[sh[i]] = pn[sh[i]]
  BY <1>1, <1>2, Tidied
<1>4. LayoutOf(pane', sh, fo, ho) = LayoutOf(pn, sh, fo, ho)
  BY <1>1, <1>3, LayoutAlike
<1> QED
  BY <1>1, <1>2, <1>3, <1>4 DEF Focused

\* What is on disk once an arrangement has been written, or has not been.
LEMMA WriteKeeps ==
    ASSUME Arrangements(saved), NEW n \in Names, NEW k, NEW layout,
           layout.panes \in Seq([name : Names, weight : Weights]),
           saved' \in Write(n, layout, k)
    PROVE  Arrangements(saved')
<1>1. saved = [m \in Names |-> saved[m]]
      /\ \A m \in Names : saved[m].panes \in Seq([name : Names, weight : Weights])
  BY DEF Arrangements
<1>2. CASE saved' = saved
  BY <1>2
<1>3. CASE saved' = [saved EXCEPT ![n] = layout]
  <2>1. saved' = [m \in Names |-> IF m = n THEN layout ELSE saved[m]]
    BY <1>1, <1>3
  <2> QED
    BY <1>1, <2>1 DEF Arrangements
<1> QED
  BY <1>2, <1>3 DEF Write

LEMMA WritesKeep ==
    ASSUME DiskInv, Runs, NEW layout, layout.panes \in Seq([name : Names, weight : Weights]),
           Writes(layout)
    PROVE  Arrangements(saved') /\ (layout = written => saved' = saved)
<1>1. Arrangements(saved) /\ asked \in Names
  BY DEF DiskInv
<1>2. CASE layout = written
  BY <1>1, <1>2 DEF Writes
<1>3. CASE layout # written
  <2>1. saved' \in Write(asked, layout, count.sessions)
    BY <1>3 DEF Writes
  <2> QED
    BY <1>1, <1>3, <2>1, WriteKeeps
<1> QED
  BY <1>2, <1>3

LEMMA RememberKeeps ==
    ASSUME DiskInv, Runs, NEW layout, layout.panes \in Seq([name : Names, weight : Weights]),
           Remember(layout)
    PROVE  /\ Arrangements(saved') /\ asked' \in Names /\ written' = layout
           /\ "refused" \notin unkept' => saved'[asked'] = written'
<1>1. asked \in Names /\ ("refused" \notin unkept => saved[asked] = written)
  BY DEF DiskInv
<1>2. /\ Arrangements(saved') /\ (layout = written => saved' = saved)
      /\ written' = layout /\ asked' = asked
      /\ unkept' = IF layout = written THEN unkept \ {"renamed"}
                   ELSE IF saved'[asked] = layout THEN {} ELSE {"refused"}
  BY WritesKeep DEF Remember
<1>3. CASE layout = written
  BY <1>1, <1>2, <1>3
<1>4. CASE layout # written
  BY <1>1, <1>2, <1>4
<1> QED
  BY <1>3, <1>4

\* A command that is carried out.
LEMMA DoneKeeps ==
    ASSUME IInv, Runs, ServiceInv', NEW pn, NEW cn, NEW sh, NEW fo, NEW ho,
           Wired(pn, cn, On(sh)), Row(sh, fo), Sized(pn, cn, On(sh)), Done(pn, cn, sh, fo, ho)
    PROVE  IInv'
<1> DEFINE layout == LayoutOf(pn, sh, fo, ho)
<1>1. /\ Shows(pn, cn, sh, fo, ho) /\ Paint(pn[sh[fo]].modes) /\ Remember(layout)
      /\ at' = "idle" /\ owed' = owed
      /\ window' = window /\ known' = known /\ winch' = winch /\ missed' = missed
  BY DEF Done, size
<1>2. Runs' /\ at' = "idle"
  BY <1>1 DEF Runs
<1>3. /\ Wired(pane', conn', On(shown')) /\ Row(shown', focus')
      /\ Sized(pane', conn', On(shown'))
      /\ Focused' = pane'[sh[fo]] /\ pane'[sh[fo]] = pn[sh[fo]]
      /\ LayoutOf(pane', shown', focus', how') = layout
  BY <1>1, ShowsKeeps
<1>4. ViewInv'
  BY <1>2, <1>3 DEF ViewInv
<1>5. layout.panes \in Seq([name : Names, weight : Weights])
  BY LayoutPanesKnown DEF Row
<1>6. DiskInv'
  <2>1. DiskInv
    BY DEF IInv
  <2> HIDE DEF layout
  <2> QED
    BY <2>1, <1>1, <1>2, <1>3, <1>5, RememberKeeps DEF DiskInv
<1>7. ScreenInv'
  <2>1. Differs(term, told) \subseteq askew
    BY DEF IInv, ScreenInv
  <2>2. told' = pn[sh[fo]].modes /\ Differs(term', told') \subseteq askew'
    BY <1>1, <2>1, Painted
  <2> QED
    BY <2>2, <1>2, <1>3 DEF ScreenInv
<1>8. WindowInv'
  BY <1>1 DEF IInv, WindowInv, Runs
<1> QED
  BY <1>4, <1>6, <1>7, <1>8 DEF IInv

\* And one after which the panes have their places anew.
LEMMA RelaidKeeps ==
    ASSUME IInv, Runs, ServiceInv', NEW pn, NEW cn, NEW sh, NEW fo, NEW ho,
           Wired(pn, cn, On(sh)), Row(sh, fo), Relaid(pn, cn, sh, fo, ho)
    PROVE  IInv'
<1> DEFINE laid == Laid(pn, sh, ho, known)
<1>1. Wired(laid, Told(cn, laid), On(sh)) /\ Sized(laid, Told(cn, laid), On(sh))
  BY Relaying DEF Row
<1>2. Done(laid, Told(cn, laid), sh, fo, ho)
  BY DEF Relaid
<1> HIDE DEF laid
<1> QED
  BY <1>1, <1>2, DoneKeeps

\* The session returns.
LEMMA ReturnKeeps ==
    ASSUME IInv, Runs, ServiceInv', Ends, Arrangements(saved'),
           Differs(term', told') \subseteq askew'
    PROVE  IInv'
<1>1. /\ at' = "between" /\ pane' = [p \in PaneIds |-> NoPane] /\ conn' = [c \in Conns |-> NoConn]
      /\ shown' = <<>> /\ window' = window /\ known' = known
      /\ missed' = (missed \/ winch) /\ winch' = FALSE
  BY DEF Ends
<1>2. ~Runs'
  BY <1>1 DEF Runs
<1>3. ViewInv'
  BY <1>1, <1>2 DEF ViewInv
<1>4. DiskInv'
  BY <1>1, <1>2 DEF IInv, DiskInv
<1>5. ScreenInv'
  BY <1>1, <1>2 DEF ScreenInv
<1>6. WindowInv'
  BY <1>1 DEF IInv, WindowInv, Runs
<1> QED
  BY <1>3, <1>4, <1>5, <1>6 DEF IInv

\* A report that has been dealt with, if what is on disk then is right.
LEMMA AfterKeeps ==
    ASSUME IInv, at = "idle", ServiceInv', NEW pn, NEW cn, NEW sh, NEW fo,
           Wired(pn, cn, On(sh)), Row(sh, fo), Sized(pn, cn, On(sh)), After(pn, cn, sh, fo),
           \/ AllDone(pn, sh) /\ (saved' = saved \/ Writes(LayoutOf(pn, sh, fo, how)))
           \/ ~AllDone(pn, sh) /\ Remember(LayoutOf(pn, sh, fo, how))
           \/ /\ UNCHANGED <<asked, saved, written>> /\ unkept \subseteq unkept'
              /\ "renamed" \notin unkept' =>
                    LayoutOf(pn, sh, fo, how) = LayoutOf(pane, shown, focus, how)
    PROVE  IInv'
<1>1. Runs
  BY DEF Runs
<1>2. Differs(term, told) \subseteq askew
  BY DEF IInv, ScreenInv
<1>3. CASE AllDone(pn, sh)
  <2>1. Ends /\ Paint(pn[sh[fo]].modes)
    BY <1>3 DEF After
  <2>2. Differs(term', told') \subseteq askew'
    BY <2>1, <1>2, Painted
  <2> DEFINE layout == LayoutOf(pn, sh, fo, how)
  <2>3. layout.panes \in Seq([name : Names, weight : Weights])
    BY LayoutPanesKnown DEF Row
  <2>4. saved' = saved \/ Writes(layout)
    BY <1>3
  <2> HIDE DEF layout
  <2>5. Arrangements(saved')
    BY <1>1, <2>3, <2>4, WritesKeep DEF IInv, DiskInv
  <2> QED
    BY <1>1, <2>1, <2>2, <2>5, ReturnKeeps
<1>4. CASE ~AllDone(pn, sh)
  <2> DEFINE layout == LayoutOf(pn, sh, fo, how)
  <2>1. /\ Shows(pn, cn, sh, fo, how) /\ at' = at
        /\ window' = window /\ known' = known /\ winch' = winch /\ missed' = missed
        /\ \/ Paint(pn[sh[fo]].modes) /\ owed' = FALSE
           \/ owed' = TRUE /\ UNCHANGED screen
    BY <1>4 DEF After, size
  <2>2. Runs' /\ at' = "idle"
    BY <2>1 DEF Runs
  <2>3. /\ Wired(pane', conn', On(shown')) /\ Row(shown', focus')
        /\ Sized(pane', conn', On(shown'))
        /\ Focused' = pane'[sh[fo]] /\ pane'[sh[fo]] = pn[sh[fo]]
        /\ LayoutOf(pane', shown', focus', how') = layout
    BY <2>1, ShowsKeeps
  <2>4. ViewInv'
    BY <2>2, <2>3 DEF ViewInv
  <2>5. layout.panes \in Seq([name : Names, weight : Weights])
    BY LayoutPanesKnown DEF Row
  <2>6. DiskInv'
    <3>1. DiskInv
      BY DEF IInv
    <3>2. CASE Remember(layout)
      <4> HIDE DEF layout
      <4> QED
        BY <3>1, <3>2, <1>1, <2>3, <2>5, RememberKeeps DEF DiskInv
    <3>3. CASE /\ UNCHANGED <<asked, saved, written>> /\ unkept \subseteq unkept'
               /\ "renamed" \notin unkept' => layout = LayoutOf(pane, shown, focus, how)
      <4> HIDE DEF layout
      <4> QED
        BY <3>1, <3>3, <2>3, <1>1 DEF DiskInv
    <3> QED
      BY <3>2, <3>3, <1>4
  <2>7. ScreenInv'
    <3>1. CASE Paint(pn[sh[fo]].modes) /\ owed' = FALSE
      <4>1. told' = pn[sh[fo]].modes /\ Differs(term', told') \subseteq askew'
        BY <1>2, <3>1, Painted
      <4> QED
        BY <4>1, <2>2, <2>3 DEF ScreenInv
    <3>2. CASE owed' = TRUE /\ UNCHANGED screen
      BY <3>2, <1>2, <2>2 DEF ScreenInv, screen
    <3> QED
      BY <3>1, <3>2, <2>1
  <2>8. WindowInv'
    BY <2>1 DEF IInv, WindowInv
  <2> QED
    BY <2>4, <2>6, <2>7, <2>8 DEF IInv
<1> QED
  BY <1>3, <1>4

----------------------------------------------------------------------------
(* What becomes of one connection. *)

\* A report is taken off the front.
LEMMA Rest ==
    ASSUME NEW S, NEW q \in Seq(S), q # <<>>
    PROVE  /\ Tail(q) \in Seq(S) /\ Len(q) \in Nat /\ Len(q) >= 1 /\ Len(Tail(q)) = Len(q) - 1
           /\ Head(q) = q[1] /\ Head(q) \in S
           /\ \A i \in 1..Len(Tail(q)) : i + 1 \in 1..Len(q) /\ Tail(q)[i] = q[i + 1]
           /\ DOMAIN q = 1..Len(q) /\ DOMAIN Tail(q) = 1..Len(Tail(q))
<1>1. Len(q) \in Nat /\ Len(q) >= 1 /\ DOMAIN q = 1..Len(q)
  BY EmptySeq, LenProperties
<1>2. /\ Tail(q) \in Seq(S) /\ Len(Tail(q)) = Len(q) - 1 /\ Head(q) = q[1] /\ Head(q) \in S
      /\ DOMAIN Tail(q) = 1..Len(Tail(q))
  BY <1>1, HeadTailProperties, LenProperties
<1>3. \A i \in 1..Len(Tail(q)) : i + 1 \in 1..Len(q) /\ Tail(q)[i] = q[i + 1]
  BY <1>1, <1>2, HeadTailProperties
<1> QED
  BY <1>1, <1>2, <1>3

\* A name that a pane has been told of is one that is no longer on its way.
LEMMA BecomesTaken ==
    ASSUME NEW q \in Seq(Reports), q # <<>>, NEW name, NEW n, Becomes(q, name, n)
    PROVE  Becomes(Tail(q), IF Head(q).kind = "renamed" THEN Head(q).name ELSE name, n)
<1> DEFINE t == Tail(q)
           all == {i \in DOMAIN q : q[i].kind = "renamed"}
           left == {i \in DOMAIN t : t[i].kind = "renamed"}
           now == IF Head(q).kind = "renamed" THEN Head(q).name ELSE name
<1>1. /\ Len(q) \in Nat /\ Len(q) >= 1 /\ Len(t) = Len(q) - 1 /\ Head(q) = q[1]
      /\ \A i \in 1..Len(t) : i + 1 \in 1..Len(q) /\ t[i] = q[i + 1]
      /\ DOMAIN q = 1..Len(q) /\ DOMAIN t = 1..Len(t)
  BY Rest
<1> HIDE DEF t
<1>2. \A i \in left : i \in Nat /\ i + 1 \in all
  BY <1>1
<1>3. \A i \in all : i \in Nat /\ (i # 1 => i - 1 \in left)
  <2> SUFFICES ASSUME NEW i \in all PROVE i \in Nat /\ (i # 1 => i - 1 \in left)
    OBVIOUS
  <2>1. i \in 1..Len(q) /\ q[i].kind = "renamed"
    BY <1>1
  <2>2. ASSUME i # 1 PROVE i - 1 \in 1..Len(t) /\ t[i - 1] = q[i]
    <3>1. i - 1 \in 1..Len(t) /\ (i - 1) + 1 = i
      BY <1>1, <2>1, <2>2
    <3> QED
      BY <1>1, <3>1
  <2> QED
    BY <1>1, <2>1, <2>2
<1>4. 1 \in all <=> Head(q).kind = "renamed"
  BY <1>1
<1>5. IF all = {} THEN name = n
      ELSE \E last \in all : q[last].name = n /\ \A i \in all : i <= last
  BY DEF Becomes
<1> HIDE DEF all
<1> HIDE DEF left
<1>6. ASSUME left = {} PROVE now = n
  <2>1. CASE all = {}
    BY <1>4, <1>5, <1>6, <2>1
  <2>2. CASE all # {}
    <3>1. PICK last \in all : q[last].name = n
      BY <1>5, <2>2
    <3>2. last = 1
      BY <3>1, <1>3, <1>6
    <3>3. now = n
      BY <3>1, <3>2, <1>1, <1>4
    <3> QED
      BY <1>6, <3>3
  <2> QED
    BY <2>1, <2>2
<1>7. ASSUME left # {}
      PROVE  \E e \in left : t[e].name = n /\ \A i \in left : i <= e
  <2>1. all # {}
    BY <1>2, <1>7
  <2>2. PICK last \in all : q[last].name = n /\ \A i \in all : i <= last
    BY <1>5, <2>1
  <2>3. PICK k \in left : k \in Nat /\ k + 1 \in all
    BY <1>2, <1>7
  <2>4. k \in Nat /\ k >= 1
    BY <2>3 DEF left
  <2>5. last \in Nat /\ last >= k + 1 /\ last # 1
    BY <2>2, <2>3, <2>4, <1>3
  <2>6. last - 1 \in left
    BY <1>3, <2>5
  <2>7. t[last - 1].name = n
    <3>1. last - 1 \in 1..Len(t) /\ (last - 1) + 1 = last
      BY <1>1, <2>5, <2>6 DEF left
    <3> QED
      BY <1>1, <2>2, <3>1
  <2>8. \A i \in left : i <= last - 1
    BY <1>2, <2>2, <2>5
  <2> QED
    BY <2>6, <2>7, <2>8
<1>8. IF left = {} THEN now = n
      ELSE \E e \in left : t[e].name = n /\ \A i \in left : i <= e
  BY <1>6, <1>7
<1> QED
  BY <1>8 DEF Becomes, left, t

\* A connection one report of which has been taken.
LEMMA TakenIs ==
    ASSUME NEW c \in Conns, conn = [d \in Conns |-> conn[d]], Line(conn[c]), conn[c].q # <<>>
    PROVE  LET x == conn[c]
               dn == Taken(c)
           IN  /\ dn = [d \in Conns |-> dn[d]] /\ \A d \in Conns \ {c} : dn[d] = conn[d]
               /\ Line(dn[c]) /\ dn[c].name = x.name /\ dn[c].pane = x.pane /\ dn[c].size = x.size
               /\ dn[c].q = Tail(x.q)
               /\ dn[c].readers = IF Head(x.q) = GoneAway THEN 0 ELSE x.readers
<1> DEFINE x == conn[c]
           dn == Taken(c)
           left == IF Head(x.q) = GoneAway THEN x.readers - 1 ELSE x.readers
           y == [name |-> x.name, q |-> Tail(x.q), readers |-> left, pane |-> x.pane,
                 size |-> x.size]
           mid == [x EXCEPT !.q = Tail(x.q)]
           cn1 == [conn EXCEPT ![c] = mid]
<1>1. /\ IsConn(x) /\ x.q \in Seq(Reports) /\ x.readers \in {0, 1} /\ x.name \in Names \cup {None}
  BY DEF Line
<1>2. mid = [name |-> x.name, q |-> Tail(x.q), readers |-> x.readers, pane |-> x.pane,
             size |-> x.size]
  BY <1>1, FieldsOf
<1>3. dn = [cn1 EXCEPT ![c] = [cn1[c] EXCEPT !.readers = IF Head(x.q) = GoneAway THEN @ - 1 ELSE @]]
  BY Zenon DEF Taken
<1>4. cn1[c] = mid /\ cn1 = [d \in Conns |-> cn1[d]] /\ \A d \in Conns \ {c} : cn1[d] = conn[d]
  OBVIOUS
<1> HIDE DEF cn1, mid, dn
<1>5. [cn1[c] EXCEPT !.readers = IF Head(x.q) = GoneAway THEN @ - 1 ELSE @] = y
  <2> DEFINE v == IF Head(x.q) = GoneAway THEN mid.readers - 1 ELSE mid.readers
  <2>1. [cn1[c] EXCEPT !.readers = IF Head(x.q) = GoneAway THEN @ - 1 ELSE @]
        = [mid EXCEPT !.readers = v]
    BY <1>4, Zenon
  <2>2. v = left
    BY <1>2
  <2> HIDE DEF v, left
  <2>3. [mid EXCEPT !.readers = left] = y
    BY <1>2, SMTT(30)
  <2> QED
    BY <2>1, <2>2, <2>3
<1> HIDE DEF y
<1>6. /\ dn = [d \in Conns |-> dn[d]] /\ dn[c] = y /\ \A d \in Conns \ {c} : dn[d] = conn[d]
  BY <1>3, <1>4, <1>5
<1>7. /\ IsConn(y) /\ y.name = x.name /\ y.q = Tail(x.q) /\ y.readers = left
      /\ y.pane = x.pane /\ y.size = x.size
  BY DEF y, IsConn
<1>8. /\ Tail(x.q) \in Seq(Reports) /\ Len(x.q) \in Nat /\ Len(x.q) >= 1
      /\ Len(Tail(x.q)) = Len(x.q) - 1 /\ Head(x.q) = x.q[1]
      /\ \A i \in 1..Len(Tail(x.q)) : i + 1 \in 1..Len(x.q) /\ Tail(x.q)[i] = x.q[i + 1]
  BY <1>1, Rest
<1>9. \A i \in 1..Len(x.q) : x.q[i] = GoneAway => i = Len(x.q) /\ x.readers = 1 /\ x.name = None
  BY DEF Line
<1>10. left = IF Head(x.q) = GoneAway THEN 0 ELSE x.readers
  <2>1. Head(x.q) = GoneAway => x.readers = 1
    BY <1>8, <1>9
  <2> QED
    BY <2>1
<1>11. Head(x.q) = GoneAway => x.name = None /\ Len(Tail(x.q)) = 0
  <2>1. 1 \in 1..Len(x.q)
    BY <1>8
  <2>2. Head(x.q) = GoneAway => x.name = None /\ Len(x.q) = 1
    BY <2>1, <1>8, <1>9
  <2> QED
    BY <2>2, <1>8
<1>12. y = NoConn \/ y.pane \in PaneIds
  <2>1. x # NoConn
    BY Empty
  <2> QED
    BY <2>1, <1>7 DEF Line
<1>13. ASSUME NEW i \in 1..Len(Tail(x.q)), Tail(x.q)[i] = GoneAway
       PROVE  i = Len(Tail(x.q)) /\ left = 1 /\ x.name = None
  <2>1. i + 1 \in 1..Len(x.q) /\ x.q[i + 1] = GoneAway
    BY <1>8, <1>13
  <2>2. i + 1 = Len(x.q) /\ x.readers = 1 /\ x.name = None
    BY <2>1, <1>9
  <2>3. i = Len(Tail(x.q)) /\ Len(Tail(x.q)) # 0
    BY <2>2, <1>8
  <2> QED
    BY <2>2, <2>3, <1>11
<1>14. x.name # None => left = 1
  BY <1>11 DEF Line
<1> HIDE DEF left
<1>15. Line(y)
  <2>1. y.name \in Names \cup {None} /\ y.q \in Seq(Reports) /\ y.readers \in {0, 1}
    BY <1>1, <1>7, <1>8, <1>10
  <2> QED
    BY <2>1, <1>7, <1>12, <1>13, <1>14 DEF Line
<1> QED
  BY <1>6, <1>7, <1>10, <1>15 DEF dn

\* A connection that is closed.
LEMMA ClosedIs ==
    ASSUME NEW cn, NEW c \in Conns, cn = [d \in Conns |-> cn[d]], \A d \in Conns : Line(cn[d])
    PROVE  LET dn == Closed(cn, c)
           IN  /\ dn = [d \in Conns |-> dn[d]] /\ dn[c].name = None /\ dn[c].pane = cn[c].pane
               /\ \A d \in Conns : Tells(cn[d], dn[d])
               /\ \A d \in Conns \ {c} : dn[d] = cn[d]
<1> DEFINE x == cn[c]
           dn == Closed(cn, c)
<1>1. IsConn(x) /\ x.q \in Seq(Reports) /\ Line(x)
  BY DEF Line
<1>2. CASE x.name = None
  <2>1. dn = cn
    BY <1>2 DEF Closed
  <2> QED
    BY <2>1, <1>2 DEF Tells
<1>3. CASE x.name # None
  <2> DEFINE z == [x EXCEPT !.name = None]
             cn1 == [cn EXCEPT ![c] = z]
  <2>1. dn = [cn1 EXCEPT ![c] = [cn1[c] EXCEPT !.q = Append(@, GoneAway)]]
    <3>1. ~(c = None \/ cn[c].name = None)
      BY <1>3, NoneIsNone
    <3> QED
      BY <3>1, Zenon DEF Closed
  <2>2. z = [name |-> None, q |-> x.q, readers |-> x.readers, pane |-> x.pane, size |-> x.size]
    BY <1>1, FieldsOf
  <2>3. cn1[c] = z /\ cn1 = [d \in Conns |-> cn1[d]] /\ \A d \in Conns \ {c} : cn1[d] = cn[d]
    OBVIOUS
  <2> HIDE DEF cn1, dn, z
  <2>4. /\ dn = [d \in Conns |-> dn[d]] /\ dn[c] = [z EXCEPT !.q = Append(@, GoneAway)]
        /\ \A d \in Conns \ {c} : dn[d] = cn[d]
    BY <2>1, <2>3
  <2>5. IsConn(z) /\ z.q = x.q /\ z.name = None /\ z.readers = x.readers /\ z.pane = x.pane
        /\ z.size = x.size
    BY <2>2 DEF IsConn
  <2>6. Append(x.q, GoneAway) = x.q \o <<GoneAway>>
    BY <1>1, Appended, ReportKinds
  <2>7. dn[c] = [z EXCEPT !.q = x.q \o <<GoneAway>>]
    BY <2>4, <2>5, <2>6
  <2>8. dn[c] = Said(x, <<GoneAway>>, None)
    <3> DEFINE q == x.q \o <<GoneAway>>
    <3> HIDE DEF q
    <3>1. [z EXCEPT !.q = q] = [name |-> z.name, q |-> q, readers |-> z.readers, pane |-> z.pane,
                                size |-> z.size]
      BY ONLY <2>5, FieldsOf
    <3>2. [z EXCEPT !.q = q] = [name |-> None, q |-> q, readers |-> x.readers, pane |-> x.pane,
                                size |-> x.size]
      BY <2>5, <3>1
    <3> QED
      BY <2>7, <3>2, Zenon DEF q, Said
  <2>9. Tells(x, dn[c])
    BY <2>8, <1>1, <1>3, WhatIsTold
  <2>10. dn[c].name = None /\ dn[c].pane = x.pane
    BY <2>8 DEF Said
  <2>11. \A d \in Conns : Tells(cn[d], dn[d])
    BY <2>4, <2>9 DEF Tells
  <2> QED
    BY <2>4, <2>10, <2>11 DEF dn
<1> QED
  BY <1>2, <1>3

\* A connection that has just been made for pane p, which is called n.
Begun(x, n, p, sz) ==
    /\ Line(x) /\ x.pane = p /\ x.readers = 1 /\ x.size = sz
    /\ x.name # None => Becomes(x.q, n, x.name)

\* Whatever it begins with, and whether its service runs or has stopped.
LEMMA ReadingIs ==
    ASSUME ServiceInv, NEW n \in Names, NEW p \in PaneIds, NEW replay, NEW sz
    PROVE  Begun(Reading(n, p, replay, sz), n, p, sz)
<1> DEFINE x == Reading(n, p, replay, sz)
           before == IF replay THEN <<Drawn(n)>> ELSE <<>>
           over == IF svc[n] = "running" THEN <<>> ELSE <<Finished, GoneAway>>
           y == [name |-> n, q |-> before, readers |-> 1, pane |-> p, size |-> sz]
<1>1. Drawn(n) \in Reports /\ Drawn(n) # GoneAway /\ Drawn(n).kind # "renamed"
  <2>1. wish[n] \in SUBSET Modes
    BY DEF ServiceInv
  <2> QED
    BY <2>1, ReportKinds DEF Drawn, GoneAway
<1>2. /\ before \in Seq(Reports)
      /\ \A i \in 1..Len(before) : before[i] # GoneAway /\ before[i].kind # "renamed"
  <2>1. CASE replay
    <3> DEFINE e == Drawn(n)
    <3> HIDE DEF e
    <3>1. <<e>> \in Seq(Reports) /\ Len(<<e>>) = 1 /\ <<e>>[1] = e
      BY <1>1 DEF e
    <3> QED
      BY <2>1, <3>1, <1>1 DEF e
  <2>2. CASE ~replay
    BY <2>2
  <2> QED
    BY <2>1, <2>2
<1> HIDE DEF before
<1>3. Becomes(before, n, n)
  <2>1. {i \in DOMAIN before : before[i].kind = "renamed"} = {}
    BY <1>2, LenProperties
  <2> QED
    BY <2>1 DEF Becomes
<1>4. Line(y) /\ y.name = n /\ n # None
  <2>1. IsConn(y) /\ y.name = n /\ y.q = before /\ y.readers = 1 /\ y.pane = p
    BY DEF IsConn
  <2> HIDE DEF y
  <2> QED
    BY <2>1, <1>2, NoneIsNone DEF Line
<1>5. CASE svc[n] = "running"
  <2>1. before \o <<>> = before
    BY <1>2, ConcatEmptySeq
  <2>2. x = y
    BY <1>5, <2>1 DEF Reading, before
  <2> HIDE DEF x
  <2> QED
    BY <2>2, <1>3, <1>4 DEF x, Begun
<1>6. CASE svc[n] # "running"
  <2>1. x = Said(y, <<Finished, GoneAway>>, None)
    BY <1>6 DEF Reading, before, Said
  <2>2. Tells(y, x)
    <3> HIDE DEF x, y
    <3> QED
      BY <2>1, <1>4, WhatIsTold
  <2>3. Line(x) /\ x.pane = y.pane /\ x.readers = y.readers /\ x.size = y.size
    <3> HIDE DEF x, y
    <3> QED
      BY <2>2, <1>4, Told1
  <2>4. x.name = None
    BY <2>1 DEF Said
  <2> HIDE DEF x
  <2> QED
    BY <2>3, <2>4 DEF x, Begun
<1> QED
  BY <1>5, <1>6

----------------------------------------------------------------------------
(* The services and the daemon. *)

\* Something is told, over some connections.
LEMMA ToldKeeps ==
    ASSUME IInv, ServiceInv', conn' = [c \in Conns |-> conn'[c]],
           \A c \in Conns : Tells(conn[c], conn'[c]),
           UNCHANGED <<view, at, doing, disk, owed, screen, size>>
    PROVE  IInv'
<1>1. /\ pane' = pane /\ shown' = shown /\ focus' = focus /\ how' = how
      /\ at' = at /\ doing' = doing
      /\ asked' = asked /\ saved' = saved /\ written' = written /\ unkept' = unkept
      /\ owed' = owed /\ term' = term /\ told' = told /\ askew' = askew
      /\ window' = window /\ known' = known /\ winch' = winch /\ missed' = missed
  BY DEF view, disk, screen, size
<1>2. Runs' <=> Runs
  BY <1>1 DEF Runs
<1>3. ViewInv'
  <2>1. ViewInv
    BY DEF IInv
  <2>2. CASE Runs
    <3>1. Wired(pane, conn', On(shown)) /\ Sized(pane, conn', On(shown))
      BY <2>1, <2>2, AllTold DEF ViewInv
    <3> QED
      BY <1>1, <1>2, <2>1, <2>2, <3>1 DEF ViewInv
  <2>3. CASE ~Runs
    <3>1. conn = [c \in Conns |-> NoConn]
      BY <2>1, <2>3 DEF ViewInv
    <3>2. \A c \in Conns : conn'[c] = NoConn
      BY <3>1, Empty DEF Tells
    <3>3. conn' = [c \in Conns |-> NoConn]
      BY <3>2
    <3> QED
      BY <1>1, <1>2, <2>1, <2>3, <3>3 DEF ViewInv
  <2> QED
    BY <2>2, <2>3
<1>4. DiskInv'
  BY <1>1, <1>2 DEF IInv, DiskInv, LayoutOf
<1>5. ScreenInv'
  BY <1>1, <1>2 DEF IInv, ScreenInv, Focused
<1>6. WindowInv'
  BY <1>1 DEF IInv, WindowInv
<1> QED
  BY <1>3, <1>4, <1>5, <1>6 DEF IInv

\* Every connection there is, used or not.
LEMMA Lines ==
    ASSUME ViewInv
    PROVE  conn = [c \in Conns |-> conn[c]] /\ \A c \in Conns : Line(conn[c])
<1>1. CASE Runs
  BY <1>1 DEF ViewInv, Wired
<1>2. CASE ~Runs
  BY <1>2, Empty DEF ViewInv
<1> QED
  BY <1>1, <1>2

\* Telling those attached to a service.
LEMMA TellTells ==
    ASSUME \A c \in Conns : Line(conn[c]), NEW n \in Names, NEW r \in Seq(Reports), NEW m,
           Tell(n, r, m), \A x : Line(x) /\ x.name = n => Tells(x, Said(x, r, m))
    PROVE  conn' = [c \in Conns |-> conn'[c]] /\ \A c \in Conns : Tells(conn[c], conn'[c])
<1>1. conn' = [c \in Conns |-> IF conn[c].name = n
                               THEN [conn[c] EXCEPT !.q = @ \o r, !.name = m] ELSE conn[c]]
  BY DEF Tell
<1>2. conn' = [c \in Conns |-> conn'[c]]
  BY <1>1
<1>3. ASSUME NEW c \in Conns PROVE Tells(conn[c], conn'[c])
  <2> DEFINE x == conn[c]
  <2>1. Line(x) /\ IsConn(x)
    BY DEF Line
  <2>2. CASE x.name = n
    <3>1. conn'[c] = [x EXCEPT !.q = @ \o r, !.name = m]
      BY <1>1, <2>2, Zenon
    <3>2. conn'[c] = [x EXCEPT !.q = x.q \o r, !.name = m]
      BY <3>1, Zenon
    <3>3. [x EXCEPT !.q = x.q \o r, !.name = m] = Said(x, r, m)
      BY <2>1, SaidIs DEF Said
    <3>4. conn'[c] = Said(x, r, m)
      BY <3>2, <3>3, Zenon
    <3> QED
      BY <2>1, <2>2, <3>4
  <2>3. CASE x.name # n
    BY <1>1, <2>3 DEF Tells
  <2> QED
    BY <2>2, <2>3
<1> QED
  BY <1>2, <1>3

\* A service's program ends.
LEMMA ExitsKeeps ==
    ASSUME IInv, NEW n \in Names, Exits(n)
    PROVE  IInv'
<1>1. /\ wish' = [wish EXCEPT ![n] = {}] /\ Tell(n, <<Finished, GoneAway>>, None)
      /\ UNCHANGED <<view, at, doing, disk, owed, screen, size>>
  BY DEF Exits, Change
<1>2. ServiceInv'
  BY <1>1 DEF IInv, ServiceInv
<1>3. <<Finished, GoneAway>> \in Seq(Reports)
  BY ReportKinds
<1>4. \A x : Line(x) /\ x.name = n => Tells(x, Said(x, <<Finished, GoneAway>>, None))
  BY WhatIsTold, NoneIsNone
<1>5. \A c \in Conns : Line(conn[c])
  BY Lines DEF IInv
<1>6. conn' = [c \in Conns |-> conn'[c]] /\ \A c \in Conns : Tells(conn[c], conn'[c])
  BY <1>1, <1>3, <1>4, <1>5, TellTells
<1> QED
  BY <1>1, <1>2, <1>6, ToldKeeps

\* It switches modes.
LEMMA SwitchesKeeps ==
    ASSUME IInv, NEW n \in Names, NEW ms \in SUBSET Modes, Switches(n, ms)
    PROVE  IInv'
<1> DEFINE r == <<[kind |-> "modes", modes |-> ms]>>
<1>1. /\ wish' = [wish EXCEPT ![n] = ms] /\ Tell(n, r, n)
      /\ UNCHANGED <<view, at, doing, disk, owed, screen, size>>
  BY DEF Switches, Change
<1>2. ServiceInv'
  BY <1>1 DEF IInv, ServiceInv
<1>3. r \in Seq(Reports)
  <2> DEFINE e == [kind |-> "modes", modes |-> ms]
  <2>1. e \in Reports
    BY ReportKinds
  <2> HIDE DEF e
  <2>2. <<e>> \in Seq(Reports)
    BY <2>1
  <2> QED
    BY <2>2 DEF e
<1>4. \A x : Line(x) /\ x.name = n => Tells(x, Said(x, r, n))
  <2> SUFFICES ASSUME NEW x, Line(x), x.name = n PROVE Tells(x, Said(x, r, n))
    OBVIOUS
  <2>1. x.name # None
    BY NoneIsNone
  <2>2. Tells(x, Said(x, r, x.name))
    BY <2>1, WhatIsTold
  <2> QED
    BY <2>2
<1>5. \A c \in Conns : Line(conn[c])
  BY Lines DEF IInv
<1> HIDE DEF r
<1>6. conn' = [c \in Conns |-> conn'[c]] /\ \A c \in Conns : Tells(conn[c], conn'[c])
  BY <1>1, <1>3, <1>4, <1>5, TellTells
<1> QED
  BY <1>1, <1>2, <1>6, ToldKeeps

\* A service that has another name has its program's modes under that one.
LEMMA RenameServiceKeeps ==
    ASSUME ServiceInv, NEW n \in Names, NEW m \in Names, RenameService(n, m)
    PROVE  ServiceInv'
<1>1. wish' = [wish EXCEPT ![m] = wish[n], ![n] = {}]
  BY DEF RenameService
<1>2. [wish EXCEPT ![m] = wish[n]] \in [Names -> SUBSET Modes]
  BY DEF ServiceInv
<1> DEFINE w == [wish EXCEPT ![m] = wish[n]]
<1>3. wish' = [w EXCEPT ![n] = {}]
  BY <1>1, Zenon
<1> HIDE DEF w
<1>4. w \in [Names -> SUBSET Modes]
  BY <1>2 DEF w
<1> QED
  BY <1>3, <1>4 DEF ServiceInv

\* Somebody else renames it.
LEMMA RenamedElsewhereKeeps ==
    ASSUME IInv, NEW n \in Names, NEW m \in Names, RenamedElsewhere(n, m)
    PROVE  IInv'
<1> DEFINE e == [kind |-> "renamed", name |-> m]
<1>1. /\ RenameService(n, m) /\ Tell(n, <<e>>, m)
      /\ UNCHANGED <<view, at, doing, disk, owed, screen, size>>
  BY DEF RenamedElsewhere, Change
<1>2. ServiceInv'
  BY <1>1, RenameServiceKeeps DEF IInv
<1>3. e \in Reports
  BY ReportKinds
<1>4. \A x : Line(x) /\ x.name = n => Tells(x, Said(x, <<e>>, m))
  BY WhatIsTold, NoneIsNone
<1>5. \A c \in Conns : Line(conn[c])
  BY Lines DEF IInv
<1> HIDE DEF e
<1>6. <<e>> \in Seq(Reports)
  BY <1>3
<1>7. conn' = [c \in Conns |-> conn'[c]] /\ \A c \in Conns : Tells(conn[c], conn'[c])
  BY <1>1, <1>4, <1>5, <1>6, TellTells
<1> QED
  BY <1>1, <1>2, <1>7, ToldKeeps

\* A service is started, by somebody else.
LEMMA AppearsKeeps ==
    ASSUME IInv, NEW n \in Names, Appears(n)
    PROVE  IInv'
<1>1. wish' = wish /\ conn' = conn /\ UNCHANGED <<view, at, doing, disk, owed, screen, size>>
  BY DEF Appears, Change
<1>2. ServiceInv'
  BY <1>1 DEF IInv, ServiceInv
<1>3. conn' = [c \in Conns |-> conn'[c]] /\ \A c \in Conns : Tells(conn[c], conn'[c])
  BY <1>1, Lines DEF IInv, Tells
<1> QED
  BY <1>1, <1>2, <1>3, ToldKeeps

\* The daemon goes, and every connection with it.
LEMMA DaemonGoesKeeps ==
    ASSUME IInv, DaemonGoes
    PROVE  IInv'
<1>1. /\ conn' = [c \in Conns |-> IF conn[c].name # None
                                  THEN [conn[c] EXCEPT !.q = Append(@, GoneAway), !.name = None]
                                  ELSE conn[c]]
      /\ wish' = wish /\ UNCHANGED <<view, at, doing, disk, owed, screen, size>>
  BY DEF DaemonGoes
<1>2. ServiceInv'
  BY <1>1 DEF IInv, ServiceInv
<1>3. \A c \in Conns : Line(conn[c])
  BY Lines DEF IInv
<1>4. conn' = [c \in Conns |-> conn'[c]]
  BY <1>1
<1>5. ASSUME NEW c \in Conns PROVE Tells(conn[c], conn'[c])
  <2> DEFINE x == conn[c]
  <2>1. Line(x) /\ IsConn(x) /\ x.q \in Seq(Reports)
    BY <1>3 DEF Line
  <2>2. CASE x.name # None
    <3>1. conn'[c] = [x EXCEPT !.q = Append(@, GoneAway), !.name = None]
      BY <1>1, <2>2, Zenon
    <3>2. conn'[c] = [x EXCEPT !.q = Append(x.q, GoneAway), !.name = None]
      BY <3>1, Zenon
    <3>3. Append(x.q, GoneAway) = x.q \o <<GoneAway>>
      BY <2>1, Appended, ReportKinds
    <3>4. [x EXCEPT !.q = Append(x.q, GoneAway), !.name = None]
          = [name |-> None, q |-> Append(x.q, GoneAway), readers |-> x.readers, pane |-> x.pane,
             size |-> x.size]
      BY <2>1, SaidIs
    <3>5. conn'[c] = Said(x, <<GoneAway>>, None)
      BY <3>2, <3>3, <3>4, Zenon DEF Said
    <3> QED
      BY <2>1, <2>2, <3>5, WhatIsTold
  <2>3. CASE x.name = None
    BY <1>1, <2>3 DEF Tells
  <2> QED
    BY <2>2, <2>3
<1> QED
  BY <1>1, <1>2, <1>4, <1>5, ToldKeeps

\* What changes no pane, no connection and nothing on the screen or on disk.
LEMMA DaemonComesKeeps ==
    ASSUME IInv, DaemonComes
    PROVE  IInv'
<1>1. wish' = wish /\ conn' = conn /\ UNCHANGED <<view, at, doing, disk, owed, screen, size>>
  BY DEF DaemonComes
<1>2. ServiceInv'
  BY <1>1 DEF IInv, ServiceInv
<1>3. conn' = [c \in Conns |-> conn'[c]] /\ \A c \in Conns : Tells(conn[c], conn'[c])
  BY <1>1, Lines DEF IInv, Tells
<1> QED
  BY <1>1, <1>2, <1>3, ToldKeeps

\* The window has another size: the session will hear of it, or has missed it.
LEMMA WindowChangesKeeps ==
    ASSUME IInv, WindowChanges
    PROVE  IInv'
<1>1. /\ pane' = pane /\ conn' = conn /\ shown' = shown /\ focus' = focus /\ how' = how /\ at' = at
      /\ doing' = doing /\ wish' = wish
      /\ asked' = asked /\ saved' = saved /\ written' = written /\ unkept' = unkept
      /\ owed' = owed /\ term' = term /\ told' = told /\ askew' = askew /\ known' = known
      /\ window' \in Sizes
      /\ IF at \in {"idle", "calling"} THEN winch' = TRUE /\ UNCHANGED missed
         ELSE missed' = (at = "between") /\ UNCHANGED winch
  BY DEF WindowChanges, Happens, service, view, disk, screen
<1>2. at \in {"out", "idle", "calling", "between"}
  BY DEF IInv, ViewInv
<1>3. WindowInv'
  BY <1>1, <1>2 DEF IInv, WindowInv
<1>4. Runs' <=> Runs
  BY <1>1 DEF Runs
<1>5. ViewInv'
  BY <1>1, <1>4 DEF IInv, ViewInv
<1>6. DiskInv' /\ ServiceInv'
  BY <1>1, <1>4 DEF IInv, DiskInv, LayoutOf, ServiceInv
<1>7. ScreenInv'
  BY <1>1, <1>4 DEF IInv, ScreenInv, Focused
<1> QED
  BY <1>3, <1>5, <1>6, <1>7 DEF IInv

----------------------------------------------------------------------------
(* Commands. *)

\* The pane with the keyboard.
LEMMA FocusedIs ==
    ASSUME IInv, Runs
    PROVE  /\ Wired(pane, conn, On(shown)) /\ Row(shown, focus) /\ Sized(pane, conn, On(shown))
           /\ shown \in Seq(PaneIds) /\ focus \in 1..Len(shown)
           /\ shown[focus] \in On(shown) /\ shown[focus] \in PaneIds
           /\ Focused = pane[shown[focus]] /\ IsPane(Focused) /\ Focused.weight \in Weights
           /\ Goes(shown[focus], Focused, conn)
           /\ Focused.name \in Names /\ Focused.conn \in Conns
           /\ conn[Focused.conn].pane = shown[focus]
<1>1. Wired(pane, conn, On(shown)) /\ Row(shown, focus) /\ Sized(pane, conn, On(shown))
  BY DEF IInv, ViewInv
<1>2. shown \in Seq(PaneIds) /\ focus \in 1..Len(shown)
  BY <1>1 DEF Row
<1>3. shown[focus] \in On(shown) /\ shown[focus] \in PaneIds
  BY <1>2, Places
<1>4. Goes(shown[focus], Focused, conn) /\ IsPane(Focused) /\ Focused.weight \in Weights
  BY <1>1, <1>3 DEF Wired, Focused
<1> QED
  BY <1>1, <1>2, <1>3, <1>4 DEF Focused, Goes

\* A call is about to be made.
LEMMA AsksKeeps ==
    ASSUME IInv, at = "idle", wish' = wish, NEW cmd, NEW n \in Names, NEW status,
           Asks(cmd, n, status)
    PROVE  IInv'
<1>1. /\ at' = "calling" /\ doing' = [cmd |-> cmd, name |-> n, ran |-> status = "running"]
      /\ pane' = pane /\ conn' = conn /\ shown' = shown /\ focus' = focus /\ how' = how
      /\ asked' = asked /\ saved' = saved /\ written' = written /\ unkept' = unkept
      /\ owed' = owed /\ term' = term /\ told' = told /\ askew' = askew
      /\ window' = window /\ known' = known /\ winch' = winch /\ missed' = missed
  BY DEF Asks, view, disk, screen, size
<1>2. Runs' /\ Runs
  BY <1>1 DEF Runs
<1>3. doing'.name \in Names
  BY <1>1
<1>4. ViewInv'
  BY <1>1, <1>2, <1>3 DEF IInv, ViewInv
<1>5. DiskInv' /\ ServiceInv'
  BY <1>1, <1>2 DEF IInv, DiskInv, LayoutOf, ServiceInv
<1>6. ScreenInv'
  BY <1>1, <1>2 DEF IInv, ScreenInv, Focused
<1>7. WindowInv'
  BY <1>1, <1>2 DEF IInv, WindowInv, Runs
<1> QED
  BY <1>4, <1>5, <1>6, <1>7 DEF IInv

\* What looks at the services, or makes or starts one, before a call.
LEMMA LooksKeep ==
    ASSUME IInv,
           \/ \E o \in {"columns", "rows"} : SplitLooks(o)
           \/ SwitchLooks \/ Create \/ Revive
    PROVE  IInv'
<1>1. CASE \E o \in {"columns", "rows"} : SplitLooks(o)
  <2>1. PICK o \in {"columns", "rows"} : SplitLooks(o)
    BY <1>1
  <2>2. PICK n \in Names : Asks(o, n, svc[n])
    BY <2>1 DEF SplitLooks, Existing
  <2>3. at = "idle" /\ wish' = wish
    BY <2>1 DEF SplitLooks, Press, service
  <2> QED
    BY <2>2, <2>3, AsksKeeps
<1>2. CASE SwitchLooks
  <2>1. PICK n \in Names : Asks("swap", n, svc[n])
    BY <1>2 DEF SwitchLooks, Existing
  <2>2. at = "idle" /\ wish' = wish
    BY <1>2 DEF SwitchLooks, Press, service
  <2> QED
    BY <2>1, <2>2, AsksKeeps
<1>3. CASE Create
  <2>1. PICK n \in Names : Asks("swap", n, "running")
    BY <1>3 DEF Create
  <2>2. at = "idle" /\ wish' = wish
    BY <1>3 DEF Create, Press
  <2> QED
    BY <2>1, <2>2, AsksKeeps
<1>4. CASE Revive
  <2>1. at = "idle" /\ wish' = wish /\ Asks("swap", Focused.name, "running")
    BY <1>4 DEF Revive, Press
  <2>2. Focused.name \in Names
    BY <1>4 DEF Revive, Existing
  <2> QED
    BY <2>1, <2>2, AsksKeeps
<1> QED
  BY <1>1, <1>2, <1>3, <1>4

\* A pane with one thing about it changed.
LEMMA PaneFields ==
    ASSUME NEW x, IsPane(x), NEW v
    PROVE  /\ [x EXCEPT !.name = v] =
                  [name |-> v, conn |-> x.conn, ran |-> x.ran, finished |-> x.finished,
                   frozen |-> x.frozen, closed |-> x.closed, modes |-> x.modes,
                   weight |-> x.weight, rect |-> x.rect, grid |-> x.grid]
           /\ [x EXCEPT !.conn = v] =
                  [name |-> x.name, conn |-> v, ran |-> x.ran, finished |-> x.finished,
                   frozen |-> x.frozen, closed |-> x.closed, modes |-> x.modes,
                   weight |-> x.weight, rect |-> x.rect, grid |-> x.grid]
           /\ [x EXCEPT !.ran = v] =
                  [name |-> x.name, conn |-> x.conn, ran |-> v, finished |-> x.finished,
                   frozen |-> x.frozen, closed |-> x.closed, modes |-> x.modes,
                   weight |-> x.weight, rect |-> x.rect, grid |-> x.grid]
           /\ [x EXCEPT !.weight = v] =
                  [name |-> x.name, conn |-> x.conn, ran |-> x.ran, finished |-> x.finished,
                   frozen |-> x.frozen, closed |-> x.closed, modes |-> x.modes,
                   weight |-> v, rect |-> x.rect, grid |-> x.grid]
           /\ [x EXCEPT !.rect = v] =
                  [name |-> x.name, conn |-> x.conn, ran |-> x.ran, finished |-> x.finished,
                   frozen |-> x.frozen, closed |-> x.closed, modes |-> x.modes,
                   weight |-> x.weight, rect |-> v, grid |-> x.grid]
           /\ [x EXCEPT !.grid = v] =
                  [name |-> x.name, conn |-> x.conn, ran |-> x.ran, finished |-> x.finished,
                   frozen |-> x.frozen, closed |-> x.closed, modes |-> x.modes,
                   weight |-> x.weight, rect |-> x.rect, grid |-> v]
           /\ [x EXCEPT !.closed = v] =
                  [name |-> x.name, conn |-> x.conn, ran |-> x.ran, finished |-> x.finished,
                   frozen |-> x.frozen, closed |-> v, modes |-> x.modes,
                   weight |-> x.weight, rect |-> x.rect, grid |-> x.grid]
           /\ [x EXCEPT !.finished = v] =
                  [name |-> x.name, conn |-> x.conn, ran |-> x.ran, finished |-> v,
                   frozen |-> x.frozen, closed |-> x.closed, modes |-> x.modes,
                   weight |-> x.weight, rect |-> x.rect, grid |-> x.grid]
           /\ [x EXCEPT !.frozen = v] =
                  [name |-> x.name, conn |-> x.conn, ran |-> x.ran, finished |-> x.finished,
                   frozen |-> v, closed |-> x.closed, modes |-> x.modes,
                   weight |-> x.weight, rect |-> x.rect, grid |-> x.grid]
           /\ [x EXCEPT !.modes = v] =
                  [name |-> x.name, conn |-> x.conn, ran |-> x.ran, finished |-> x.finished,
                   frozen |-> x.frozen, closed |-> x.closed, modes |-> v,
                   weight |-> x.weight, rect |-> x.rect, grid |-> x.grid]
BY DEF IsPane

\* A new pane of n, before it has a place.
Fresh(n, c, ran) ==
    [name |-> n, conn |-> c, ran |-> ran, finished |-> NoPane.finished, frozen |-> NoPane.frozen,
     closed |-> NoPane.closed, modes |-> NoPane.modes, weight |-> NoPane.weight,
     rect |-> NoPane.rect, grid |-> NoPane.grid]

\* What it has and has not.
LEMMA FreshPane ==
    ASSUME NEW n, NEW c, NEW ran
    PROVE  /\ IsPane(Fresh(n, c, ran)) /\ Fresh(n, c, ran).weight \in Weights
           /\ Fresh(n, c, ran).name = n /\ Fresh(n, c, ran).conn = c /\ ~Fresh(n, c, ran).closed
<1>1. NoPane.weight \in Weights
  BY Empty
<1>2. ~NoPane.closed
  BY DEF NoPane
<1> QED
  BY <1>1, <1>2 DEF IsPane, Fresh

\* The new pane of a split.
LEMMA FreshIs ==
    ASSUME NEW n, NEW c, NEW ran
    PROVE  [NoPane EXCEPT !.name = n, !.conn = c, !.ran = ran] = Fresh(n, c, ran)
<1> DEFINE e == NoPane
           x == [e EXCEPT !.name = n]
           y == [x EXCEPT !.conn = c]
           z == [y EXCEPT !.ran = ran]
<1>1. [NoPane EXCEPT !.name = n, !.conn = c, !.ran = ran] = z
  BY Zenon
<1>2. IsPane(NoPane)
  BY Empty
<1> HIDE DEF e
<1>4. IsPane(e) /\ e = NoPane
  BY <1>2 DEF e
<1>5. /\ IsPane(x) /\ x.name = n /\ x.conn = e.conn /\ x.ran = e.ran /\ x.finished = e.finished
      /\ x.frozen = e.frozen /\ x.closed = e.closed /\ x.modes = e.modes
      /\ x.weight = e.weight /\ x.rect = e.rect /\ x.grid = e.grid
  <2>1. x = [name |-> n, conn |-> e.conn, ran |-> e.ran, finished |-> e.finished,
             frozen |-> e.frozen, closed |-> e.closed, modes |-> e.modes,
             weight |-> e.weight, rect |-> e.rect, grid |-> e.grid]
    <3>1. IsPane(e)
      BY <1>4
    <3> QED
      BY ONLY <3>1, PaneFields
  <2> HIDE DEF x
  <2> QED
    BY <2>1 DEF IsPane
<1> HIDE DEF x
<1>6. /\ IsPane(y) /\ y.name = n /\ y.conn = c /\ y.ran = e.ran /\ y.finished = e.finished
      /\ y.frozen = e.frozen /\ y.closed = e.closed /\ y.modes = e.modes
      /\ y.weight = e.weight /\ y.rect = e.rect /\ y.grid = e.grid
  <2>1. y = [name |-> x.name, conn |-> c, ran |-> x.ran, finished |-> x.finished,
             frozen |-> x.frozen, closed |-> x.closed, modes |-> x.modes,
             weight |-> x.weight, rect |-> x.rect, grid |-> x.grid]
    BY <1>5, PaneFields
  <2> HIDE DEF y
  <2> QED
    BY <1>5, <2>1 DEF IsPane
<1> HIDE DEF y
<1>7. z = [name |-> y.name, conn |-> y.conn, ran |-> ran, finished |-> y.finished,
           frozen |-> y.frozen, closed |-> y.closed, modes |-> y.modes,
           weight |-> y.weight, rect |-> y.rect, grid |-> y.grid]
  BY <1>6, PaneFields
<1> HIDE DEF z
<1>8. z = Fresh(n, c, ran)
  BY <1>4, <1>6, <1>7 DEF Fresh
<1> QED
  BY <1>1, <1>8

\* An unused connection is one that nobody goes by.
LEMMA NewIs ==
    ASSUME Unused # {}
    PROVE  New \in Conns /\ conn[New] = NoConn
BY DEF New, Unused

\* A new pane of n in the place of another.
InPlace(n, c, ran, w, rect, grid) ==
    [name |-> n, conn |-> c, ran |-> ran, finished |-> NoPane.finished, frozen |-> NoPane.frozen,
     closed |-> NoPane.closed, modes |-> NoPane.modes, weight |-> w, rect |-> rect, grid |-> grid]

\* The pane that another service is shown in.
LEMMA InPlaceIs ==
    ASSUME NEW n, NEW c, NEW ran, NEW w, NEW rect, NEW grid
    PROVE  [NoPane EXCEPT !.name = n, !.conn = c, !.ran = ran, !.weight = w, !.rect = rect,
                          !.grid = grid]
           = InPlace(n, c, ran, w, rect, grid)
<1> DEFINE x == [NoPane EXCEPT !.name = n, !.conn = c, !.ran = ran]
           y == [x EXCEPT !.weight = w]
           z == [y EXCEPT !.rect = rect]
           u == [z EXCEPT !.grid = grid]
<1>1. [NoPane EXCEPT !.name = n, !.conn = c, !.ran = ran, !.weight = w, !.rect = rect,
                     !.grid = grid] = u
  BY Zenon
<1>2. x = Fresh(n, c, ran)
  BY FreshIs, Zenon
<1> HIDE DEF x
<1>3. IsPane(x)
  BY <1>2, FreshPane
<1>4. y = [name |-> n, conn |-> c, ran |-> ran, finished |-> NoPane.finished,
           frozen |-> NoPane.frozen, closed |-> NoPane.closed, modes |-> NoPane.modes,
           weight |-> w, rect |-> NoPane.rect, grid |-> NoPane.grid]
  <2>1. y = [name |-> x.name, conn |-> x.conn, ran |-> x.ran, finished |-> x.finished,
             frozen |-> x.frozen, closed |-> x.closed, modes |-> x.modes, weight |-> w,
             rect |-> x.rect, grid |-> x.grid]
    BY <1>3, PaneFields
  <2> HIDE DEF y
  <2> QED
    BY <1>2, <2>1 DEF Fresh
<1> HIDE DEF y
<1>5. IsPane(y)
  BY <1>4 DEF IsPane
<1>6. z = [name |-> n, conn |-> c, ran |-> ran, finished |-> NoPane.finished,
           frozen |-> NoPane.frozen, closed |-> NoPane.closed, modes |-> NoPane.modes,
           weight |-> w, rect |-> rect, grid |-> NoPane.grid]
  <2>1. z = [name |-> y.name, conn |-> y.conn, ran |-> y.ran, finished |-> y.finished,
             frozen |-> y.frozen, closed |-> y.closed, modes |-> y.modes, weight |-> y.weight,
             rect |-> rect, grid |-> y.grid]
    BY <1>5, PaneFields
  <2> HIDE DEF z
  <2> QED
    BY <1>4, <2>1
<1> HIDE DEF z
<1>7. IsPane(z)
  BY <1>6 DEF IsPane
<1>8. u = InPlace(n, c, ran, w, rect, grid)
  <2>1. u = [name |-> z.name, conn |-> z.conn, ran |-> z.ran, finished |-> z.finished,
             frozen |-> z.frozen, closed |-> z.closed, modes |-> z.modes, weight |-> z.weight,
             rect |-> z.rect, grid |-> grid]
    BY <1>7, PaneFields
  <2> HIDE DEF u
  <2> QED
    BY <1>6, <2>1 DEF InPlace
<1> HIDE DEF u
<1> QED
  BY <1>1, <1>8

\* The same for one that is given its grid alone.
WithGrid(n, c, ran, grid) == [NoPane EXCEPT !.name = n, !.conn = c, !.ran = ran, !.grid = grid]

LEMMA WithGridIs ==
    ASSUME NEW n, NEW c, NEW ran, NEW grid
    PROVE  WithGrid(n, c, ran, grid) = InPlace(n, c, ran, NoPane.weight, NoPane.rect, grid)
<1> DEFINE x == [NoPane EXCEPT !.name = n, !.conn = c, !.ran = ran]
           u == [x EXCEPT !.grid = grid]
<1>1. WithGrid(n, c, ran, grid) = u
  BY Zenon DEF WithGrid
<1>2. x = Fresh(n, c, ran)
  BY FreshIs, Zenon
<1> HIDE DEF x
<1>3. IsPane(x)
  BY <1>2, FreshPane
<1>4. u = [name |-> x.name, conn |-> x.conn, ran |-> x.ran, finished |-> x.finished,
           frozen |-> x.frozen, closed |-> x.closed, modes |-> x.modes, weight |-> x.weight,
           rect |-> x.rect, grid |-> grid]
  BY <1>3, PaneFields
<1> HIDE DEF u
<1> QED
  BY <1>1, <1>2, <1>4 DEF Fresh, InPlace

\* The pane of a split is opened.
LEMMA OpenPaneKeeps ==
    ASSUME IInv, OpenPane
    PROVE  IInv'
<1> DEFINE c == New
           p == CHOOSE p \in UnusedPanes : TRUE
           n == doing.name
           x == InPlace(n, c, doing.ran, NoPane.weight, NoPane.rect, FirstGuess)
           r == Reading(n, p, TRUE, FirstGuess)
           dn == [conn EXCEPT ![c] = r]
           pn == [pane EXCEPT ![p] = x]
           sh == Append(shown, p)
           S == On(shown)
<1>1. /\ at = "calling" /\ Unused # {} /\ UnusedPanes # {} /\ wish' = wish
      /\ Relaid([pane EXCEPT ![p] = [NoPane EXCEPT !.name = doing.name, !.conn = c,
                                                   !.ran = doing.ran, !.grid = FirstGuess]],
                [conn EXCEPT ![c] = r], sh, Len(shown) + 1, doing.cmd)
  BY DEF OpenPane, service
<1>2. Relaid(pn, dn, sh, Len(shown) + 1, doing.cmd)
  <2>1. [NoPane EXCEPT !.name = doing.name, !.conn = c, !.ran = doing.ran,
                       !.grid = FirstGuess] = x
    <3>1. WithGrid(n, c, doing.ran, FirstGuess) = x
      BY WithGridIs
    <3> QED
      BY <3>1, Zenon DEF WithGrid
  <2> QED
    BY <1>1, <2>1, Zenon
<1>3. Runs /\ n \in Names
  BY <1>1 DEF Runs, IInv, ViewInv
<1>4. p \in PaneIds /\ pane[p] = NoPane /\ \A d \in Conns : conn[d].pane # p
  <2>1. p \in UnusedPanes
    BY <1>1
  <2> QED
    BY <2>1 DEF UnusedPanes
<1>5. c \in Conns /\ conn[c] = NoConn
  BY <1>1, NewIs
<1>6. IsPane(x) /\ x.weight \in Weights /\ x.name = n /\ x.conn = c /\ ~x.closed
  <2>1. ~NoPane.closed
    BY DEF NoPane
  <2> QED
    BY <2>1, Empty DEF InPlace, IsPane
<1>7. Line(r) /\ r.pane = p /\ r.readers = 1 /\ (r.name # None => Becomes(r.q, n, r.name))
  <2>1. ServiceInv
    BY DEF IInv
  <2> HIDE DEF n, p
  <2>2. Begun(r, n, p, FirstGuess)
    BY <2>1, <1>3, <1>4, ReadingIs, Zenon
  <2> HIDE DEF r
  <2> QED
    BY <2>2 DEF Begun
<1>8. /\ Wired(pane, conn, S) /\ Row(shown, focus)
      /\ shown \in Seq(PaneIds) /\ focus \in 1..Len(shown)
  BY <1>3, FocusedIs
<1>9. p \notin S
  <2>1. \A q \in S : pane[q].conn \in Conns
    BY <1>8 DEF Wired, Goes
  <2> QED
    BY <2>1, <1>4, Empty, NoneIsNone
<1>10. /\ conn = [d \in Conns |-> conn[d]] /\ \A d \in Conns : Line(conn[d])
  BY <1>8 DEF Wired
<1> HIDE DEF c, p, n, x, r, S
<1>11. /\ dn = [d \in Conns |-> dn[d]] /\ dn[c] = r /\ \A d \in Conns \ {c} : dn[d] = conn[d]
  BY <1>5, <1>10
<1> HIDE DEF dn
<1>12. \A d \in Conns : Line(dn[d])
  BY <1>7, <1>10, <1>11
<1>13. \A d \in Conns : conn[d].pane \in S \ {p} => dn[d] = conn[d]
  <2>1. None \notin S
    BY <1>8, NoneIsNone DEF Wired
  <2> QED
    BY <2>1, <1>5, <1>11, Empty
<1>14. Goes(p, x, dn)
  BY <1>3, <1>5, <1>6, <1>7, <1>11 DEF Goes
<1>15. S \subseteq PaneIds
  BY <1>8 DEF Wired
<1>16. Wired(pn, dn, S \cup {p})
  <2> DEFINE T == S \cup {p}
  <2>1. T \subseteq PaneIds /\ T \ {p} = S \ {p} /\ p \in T
    BY <1>4, <1>15
  <2>2. dn = [d \in Conns |-> dn[d]]
    BY <1>11
  <2> HIDE DEF T, pn
  <2>3. Becoming(conn, dn, S, T, p, x)
    BY <2>1, <2>2, <1>4, <1>6, <1>12, <1>13, <1>14 DEF Becoming
  <2>4. Wired([pane EXCEPT ![p] = x], dn, T)
    BY <2>3, <1>8, Replaced
  <2> QED
    BY <2>4 DEF T, pn
<1>17. /\ sh \in Seq(PaneIds) /\ Len(sh) = Len(shown) + 1 /\ sh[Len(shown) + 1] = p
       /\ \A i \in 1..Len(shown) : sh[i] = shown[i]
  BY <1>4, <1>8, AppendProperties
<1>18. Len(shown) \in Nat
  BY <1>8, LenProperties
<1> HIDE DEF sh
<1>19. On(sh) = S \cup {p}
  BY <1>17, <1>18 DEF On, S
<1>20. Row(sh, Len(shown) + 1)
  <2>1. \A i \in 1..Len(shown) : shown[i] \in S
    BY DEF On, S
  <2>2. \A i, j \in 1..Len(shown) : shown[i] = shown[j] => i = j
    BY <1>8 DEF Row
  <2> QED
    BY <2>1, <2>2, <1>9, <1>17, <1>18 DEF Row
<1>21. ServiceInv'
  BY <1>1 DEF IInv, ServiceInv
<1> HIDE DEF pn
<1> QED
  BY <1>2, <1>3, <1>16, <1>19, <1>20, <1>21, RelaidKeeps

\* All panes know their size if all but one do and that one does.
LEMMA SizedAlso ==
    ASSUME NEW pn, NEW cn, NEW S, NEW p, Sized(pn, cn, S \ {p}),
           HasRoom(pn[p].rect) =>
               /\ pn[p].grid = SizeOf(pn[p].rect)
               /\ cn[pn[p].conn].name # None => cn[pn[p].conn].size = pn[p].grid
    PROVE  Sized(pn, cn, S)
BY DEF Sized

\* Another service is shown in the focused pane.
LEMMA SwapPaneKeeps ==
    ASSUME IInv, SwapPane
    PROVE  IInv'
<1> DEFINE c == New
           p == shown[focus]
           n == doing.name
           old == Focused.conn
           sz == SizeOf(Focused.rect)
           x == InPlace(n, c, doing.ran, Focused.weight, Focused.rect, NewGrid(Focused.rect))
           r == Reading(n, p, TRUE, sz)
           cl == Closed(conn, old)
           dn == [cl EXCEPT ![c] = r]
           pn == [pane EXCEPT ![p] = x]
           S == On(shown)
<1>1. /\ at = "calling" /\ Unused # {} /\ wish' = wish
      /\ Done(Swapped(c), dn, shown, focus, how)
  BY DEF SwapPane, service
<1>2. Swapped(c) = pn
  <2>1. [NoPane EXCEPT !.name = doing.name, !.conn = c, !.ran = doing.ran,
                       !.weight = Focused.weight, !.rect = Focused.rect,
                       !.grid = NewGrid(Focused.rect)] = x
    BY InPlaceIs, Zenon
  <2> QED
    BY <2>1, Zenon DEF Swapped
<1>3. Runs /\ n \in Names
  BY <1>1 DEF Runs, IInv, ViewInv
<1>4. /\ Wired(pane, conn, S) /\ Row(shown, focus) /\ Sized(pane, conn, S)
      /\ p \in S /\ p \in PaneIds
      /\ Focused.weight \in Weights /\ old \in Conns /\ conn[old].pane = p
  BY <1>3, FocusedIs
<1>5. c \in Conns /\ conn[c] = NoConn
  BY <1>1, NewIs
<1>6. /\ conn = [d \in Conns |-> conn[d]] /\ \A d \in Conns : Line(conn[d])
      /\ S \subseteq PaneIds
  BY <1>4 DEF Wired
<1>7. IsPane(x) /\ x.weight \in Weights /\ x.name = n /\ x.conn = c /\ ~x.closed
      /\ x.grid = NewGrid(Focused.rect) /\ x.rect = Focused.rect
  <2>1. ~NoPane.closed
    BY DEF NoPane
  <2> QED
    BY <1>4, <2>1 DEF InPlace, IsPane
<1> HIDE DEF c, n, p, S, old
<1>8. /\ cl = [d \in Conns |-> cl[d]] /\ \A d \in Conns : Tells(conn[d], cl[d])
      /\ \A d \in Conns \ {old} : cl[d] = conn[d]
  BY <1>4, <1>6, ClosedIs
<1>9. \A d \in Conns : Line(cl[d])
  BY <1>6, <1>8, Told1
<1>10. Begun(r, n, p, sz)
  <2>1. ServiceInv
    BY DEF IInv
  <2> HIDE DEF sz
  <2> QED
    BY <2>1, <1>3, <1>4, ReadingIs, Zenon
<1> HIDE DEF cl, r, x
<1>11. dn = [d \in Conns |-> dn[d]] /\ dn[c] = r /\ \A d \in Conns \ {c} : dn[d] = cl[d]
  BY <1>5, <1>8
<1> HIDE DEF dn, sz
<1>12. \A d \in Conns : Line(dn[d])
  BY <1>9, <1>10, <1>11 DEF Begun
<1>13. \A d \in Conns : conn[d].pane \in S \ {p} => dn[d] = conn[d]
  <2>1. None \notin S
    BY <1>6, NoneIsNone
  <2> QED
    BY <2>1, <1>4, <1>5, <1>8, <1>11, Empty
<1>14. Goes(p, x, dn)
  BY <1>3, <1>5, <1>7, <1>10, <1>11 DEF Goes, Begun
<1>15. Wired(pn, dn, S) /\ Sized(pn, dn, S \ {p})
  <2>1. Sized(pane, conn, S \ {p})
    BY <1>4 DEF Sized
  <2>2. dn = [d \in Conns |-> dn[d]]
    BY <1>11
  <2>3. /\ Wired([pane EXCEPT ![p] = x], dn, S)
        /\ Sized(pane, conn, S \ {p}) => Sized([pane EXCEPT ![p] = x], dn, S \ {p})
    <3>1. Becoming(conn, dn, S, S, p, x)
      BY <2>2, <1>4, <1>6, <1>7, <1>12, <1>13, <1>14 DEF Becoming
    <3> HIDE DEF pn
    <3> QED
      BY <3>1, <1>4, Replaced
  <2> QED
    BY <2>1, <2>3
<1>16. pn[p] = x
  BY <1>4 DEF Wired
<1>17. Sized(pn, dn, S)
  <2>1. HasRoom(x.rect) => NewGrid(x.rect) = SizeOf(x.rect)
    BY DEF HasRoom, NewGrid, SizeOf, Larger
  <2>2. HasRoom(x.rect) => x.grid = SizeOf(x.rect) /\ dn[x.conn].size = x.grid
    BY <2>1, <1>7, <1>10, <1>11 DEF Begun, sz
  <2> HIDE DEF pn
  <2> QED
    BY <2>2, <1>15, <1>16, SizedAlso
<1>18. ServiceInv'
  BY <1>1 DEF IInv, ServiceInv
<1> HIDE DEF pn
<1>19. Done(pn, dn, shown, focus, how)
  BY <1>1, <1>2 DEF dn, cl, r, old
<1> QED
  BY <1>3, <1>4, <1>15, <1>17, <1>18, <1>19, DoneKeeps DEF S

\* What leaves the panes and connections as they are, and draws.
LEMMA DrawnKeeps ==
    ASSUME IInv, Runs, ServiceInv', UNCHANGED <<conn, view, size>>,
           \/ Paint(Focused.modes) \/ Redraw(Focused.modes),
           UNCHANGED disk \/ Remember(LayoutOf(pane, shown, focus, how)),
           at' = "idle"
    PROVE  IInv'
<1>1. /\ pane' = pane /\ conn' = conn /\ shown' = shown /\ focus' = focus /\ how' = how
      /\ window' = window /\ known' = known /\ winch' = winch /\ missed' = missed
  BY DEF view, size
<1>2. Runs' /\ at' = "idle"
  BY DEF Runs
<1>3. ViewInv'
  BY <1>1, <1>2 DEF IInv, ViewInv
<1>4. DiskInv'
  <2>1. DiskInv /\ shown \in Seq(PaneIds) /\ Wired(pane, conn, On(shown))
    BY FocusedIs DEF IInv
  <2> DEFINE layout == LayoutOf(pane, shown, focus, how)
  <2>2. layout.panes \in Seq([name : Names, weight : Weights])
    BY <2>1, LayoutPanesKnown
  <2>3. LayoutOf(pane', shown', focus', how') = layout
    BY <1>1
  <2>4. CASE UNCHANGED disk
    <3> HIDE DEF layout
    <3>1. saved' = saved /\ written' = written /\ asked' = asked /\ unkept' = unkept
      BY <2>4 DEF disk
    <3>2. Runs => ("renamed" \notin unkept => written = layout)
      BY <2>1 DEF DiskInv, layout
    <3> QED
      BY <2>1, <2>3, <3>1, <3>2 DEF DiskInv
  <2>5. CASE Remember(layout)
    <3> HIDE DEF layout
    <3> QED
      BY <2>1, <2>2, <2>3, <2>5, RememberKeeps DEF DiskInv
  <2> QED
    BY <2>4, <2>5
<1>5. ScreenInv'
  <2>1. told' = Focused.modes /\ Differs(term', told') \subseteq askew'
    BY Painted DEF IInv, ScreenInv
  <2> QED
    BY <1>1, <1>2, <2>1 DEF ScreenInv, Focused
<1>6. WindowInv'
  BY <1>1, <1>2 DEF IInv, WindowInv, Runs
<1> QED
  BY <1>3, <1>4, <1>5, <1>6 DEF IInv

\* The call has failed.
LEMMA CallFailsKeeps ==
    ASSUME IInv, CallFails
    PROVE  IInv'
<1>1. /\ at = "calling" /\ at' = "idle" /\ Paint(Focused.modes) /\ wish' = wish
      /\ UNCHANGED disk \/ Remember(LayoutOf(pane, shown, focus, how))
      /\ UNCHANGED <<conn, view, size>>
  BY DEF CallFails, service
<1>2. Runs /\ ServiceInv'
  BY <1>1 DEF Runs, IInv, ServiceInv
<1> QED
  BY <1>1, <1>2, DrawnKeeps

\* Everything is drawn from nothing.
LEMMA ForgetKeeps ==
    ASSUME IInv, Forget
    PROVE  IInv'
<1>1. /\ at = "idle" /\ at' = at /\ Redraw(Focused.modes) /\ wish' = wish
      /\ Remember(LayoutOf(pane, shown, focus, how))
      /\ UNCHANGED <<conn, view, size>>
  BY DEF Forget, Press, service
<1>2. Runs /\ ServiceInv'
  BY <1>1 DEF Runs, IInv, ServiceInv
<1> QED
  BY <1>1, <1>2, DrawnKeeps

\* What was put off is drawn.
LEMMA DueKeeps ==
    ASSUME IInv, Due
    PROVE  IInv'
<1>1. /\ at = "idle" /\ at' = at /\ Paint(Focused.modes) /\ wish' = wish
      /\ UNCHANGED disk /\ UNCHANGED <<conn, view, size>>
  BY DEF Due, service
<1>2. Runs /\ ServiceInv'
  BY <1>1 DEF Runs, IInv, ServiceInv
<1> QED
  BY <1>1, <1>2, DrawnKeeps

\* The focus goes on, or nothing of the panes changes.
LEMMA FocusKeeps ==
    ASSUME IInv, Focus \/ Scrolls
    PROVE  IInv'
<1>1. at = "idle" /\ wish' = wish
  BY DEF Focus, Scrolls, Press, service
<1>2. Runs /\ ServiceInv'
  BY <1>1 DEF Runs, IInv, ServiceInv
<1>3. /\ Wired(pane, conn, On(shown)) /\ Row(shown, focus) /\ Sized(pane, conn, On(shown))
  BY <1>2, FocusedIs
<1>4. CASE Focus
  <2>1. Done(pane, conn, shown, (focus % Len(shown)) + 1, how)
    BY <1>4 DEF Focus
  <2>2. (focus % Len(shown)) + 1 \in 1..Len(shown)
    <3>1. Len(shown) \in Nat /\ focus \in 1..Len(shown)
      BY <1>3, LenProperties DEF Row
    <3> DEFINE l == Len(shown)
    <3> HIDE DEF l
    <3>2. l \in Nat /\ focus \in 1..l
      BY <3>1 DEF l
    <3>3. focus % l \in 0..(l - 1)
      BY <3>2
    <3>4. (focus % l) + 1 \in 1..l
      BY <3>2, <3>3
    <3> QED
      BY <3>4 DEF l
  <2>3. Row(shown, (focus % Len(shown)) + 1)
    BY <1>3, <2>2 DEF Row
  <2> QED
    BY <1>2, <1>3, <2>1, <2>3, DoneKeeps
<1>5. CASE Scrolls
  <2>1. Done(pane, conn, shown, focus, how)
    BY <1>5 DEF Scrolls
  <2> QED
    BY <1>2, <1>3, <2>1, DoneKeeps
<1> QED
  BY <1>4, <1>5

\* The session ends at the user's word or with a key that finds no connection.
LEMMA ReturnsKeeps ==
    ASSUME IInv, Returns \/ KeyFails
    PROVE  IInv'
<1>1. at = "idle" /\ wish' = wish /\ Ends /\ saved' = saved /\ UNCHANGED screen
  BY DEF Returns, KeyFails, Press, Return, service
<1>2. Runs /\ ServiceInv'
  BY <1>1 DEF Runs, IInv, ServiceInv
<1>3. Differs(term', told') \subseteq askew'
  BY <1>1 DEF IInv, ScreenInv, screen
<1>4. Arrangements(saved')
  BY <1>1 DEF IInv, DiskInv
<1> QED
  BY <1>1, <1>2, <1>3, <1>4, ReturnKeeps

\* The attach is over.
LEMMA LeaveKeeps ==
    ASSUME IInv, Leave
    PROVE  IInv'
<1>1. /\ at = "between" /\ at' = "out" /\ CloseScreen /\ wish' = wish /\ conn' = conn
      /\ pane' = pane /\ shown' = shown /\ saved' = saved
      /\ window' = window /\ known' = known
  BY DEF Leave, service, view, disk, size
<1>2. ~Runs /\ ~Runs'
  BY <1>1 DEF Runs
<1>3. told' = {} /\ Differs(term', told') \subseteq askew'
  BY <1>1, Painted DEF IInv, ScreenInv
<1>4. ViewInv' /\ ServiceInv' /\ DiskInv'
  BY <1>1, <1>2 DEF IInv, ViewInv, ServiceInv, DiskInv
<1>5. ScreenInv' /\ WindowInv'
  BY <1>1, <1>2, <1>3 DEF IInv, ScreenInv, WindowInv
<1> QED
  BY <1>4, <1>5 DEF IInv

\* A pane taken from the screen leaves the others in their order.
LEMMA WithoutIs ==
    ASSUME NEW sh, NEW fo, Row(sh, fo), NEW i \in 1..Len(sh)
    PROVE  /\ Without(sh, i) \in Seq(PaneIds) /\ Len(Without(sh, i)) = Len(sh) - 1
           /\ On(Without(sh, i)) = On(sh) \ {sh[i]}
           /\ \A j, k \in 1..Len(Without(sh, i)) :
                 Without(sh, i)[j] = Without(sh, i)[k] => j = k
<1> DEFINE n == Len(sh)
           w == Without(sh, i)
           a == SubSeq(sh, 1, i - 1)
           b == SubSeq(sh, i + 1, n)
<1>1. /\ sh \in Seq(PaneIds) /\ n \in Nat /\ i \in 1..n
      /\ \A j, k \in 1..n : sh[j] = sh[k] => j = k
  BY LenProperties DEF Row
<1> HIDE DEF n
<1>2. /\ a \in Seq(PaneIds) /\ Len(a) = i - 1 /\ \A j \in 1..(i - 1) : a[j] = sh[j]
  <2>1. \A j \in 1..(i - 1) : sh[j] \in PaneIds
    <3>1. \A j \in 1..(i - 1) : j \in 1..Len(sh)
      BY <1>1 DEF n
    <3> QED
      BY <1>1, <3>1
  <2>2. 1 \in Int /\ i - 1 \in Int
    BY <1>1
  <2>3. /\ a \in Seq(PaneIds)
        /\ Len(a) = IF 1 <= i - 1 THEN (i - 1) - 1 + 1 ELSE 0
        /\ \A j \in 1..((i - 1) - 1 + 1) : a[j] = sh[1 + j - 1]
    BY <2>1, <2>2, <1>1, SubSeqProperties
  <2>4. Len(a) = i - 1 /\ (i - 1) - 1 + 1 = i - 1 /\ \A j \in 1..(i - 1) : 1 + j - 1 = j
    BY <1>1, <2>3
  <2> QED
    BY <2>3, <2>4
<1>3. /\ b \in Seq(PaneIds) /\ Len(b) = n - i /\ \A j \in 1..(n - i) : b[j] = sh[i + j]
  <2>1. \A j \in (i + 1)..n : sh[j] \in PaneIds
    <3>1. \A j \in (i + 1)..n : j \in 1..Len(sh)
      BY <1>1 DEF n
    <3> QED
      BY <1>1, <3>1
  <2>2. i + 1 \in Int /\ n \in Int
    BY <1>1
  <2>3. /\ b \in Seq(PaneIds)
        /\ Len(b) = IF i + 1 <= n THEN n - (i + 1) + 1 ELSE 0
        /\ \A j \in 1..(n - (i + 1) + 1) : b[j] = sh[(i + 1) + j - 1]
    BY <2>1, <2>2, <1>1, SubSeqProperties
  <2>4. Len(b) = n - i /\ n - (i + 1) + 1 = n - i /\ \A j \in 1..(n - i) : (i + 1) + j - 1 = i + j
    BY <1>1, <2>3
  <2> QED
    BY <2>3, <2>4
<1>4. w = a \o b
  BY DEF Without, n
<1> HIDE DEF a, b, w
<1>5. /\ w \in Seq(PaneIds) /\ Len(w) = (i - 1) + (n - i)
      /\ \A j \in 1..Len(a) : w[j] = a[j]
      /\ \A j \in 1..Len(b) : w[Len(a) + j] = b[j]
  BY <1>2, <1>3, <1>4, Joined
<1>6. Len(w) = n - 1
  BY <1>1, <1>5
<1>7. \A j \in 1..(i - 1) : w[j] = sh[j]
  BY <1>2, <1>5
<1>8. ASSUME NEW j \in i..(n - 1) PROVE w[j] = sh[j + 1]
  <2>1. j - (i - 1) \in 1..(n - i) /\ (i - 1) + (j - (i - 1)) = j /\ i + (j - (i - 1)) = j + 1
    BY <1>1
  <2>2. w[(i - 1) + (j - (i - 1))] = b[j - (i - 1)]
    BY <2>1, <1>2, <1>3, <1>5
  <2>3. b[j - (i - 1)] = sh[i + (j - (i - 1))]
    BY <2>1, <1>3
  <2> QED
    BY <2>1, <2>2, <2>3
<1>9. ASSUME NEW j \in 1..(n - 1)
      PROVE  /\ j < i => w[j] = sh[j] /\ j \in 1..n
             /\ ~(j < i) => w[j] = sh[j + 1] /\ j + 1 \in 1..n
  BY <1>1, <1>7, <1>8
<1>10. On(w) = On(sh) \ {sh[i]}
  <2>1. ASSUME NEW j \in 1..(n - 1) PROVE w[j] \in On(sh) \ {sh[i]}
    <3>1. \A k \in 1..n : sh[k] \in On(sh)
      BY DEF On, n
    <3>2. CASE j < i
      <4>1. w[j] = sh[j] /\ j \in 1..n /\ j # i
        BY <1>1, <1>9, <3>2
      <4> QED
        BY <4>1, <3>1, <1>1
    <3>3. CASE ~(j < i)
      <4>1. w[j] = sh[j + 1] /\ j + 1 \in 1..n /\ j + 1 # i
        BY <1>1, <1>9, <3>3
      <4> QED
        BY <4>1, <3>1, <1>1
    <3> QED
      BY <3>2, <3>3
  <2>2. ASSUME NEW k \in 1..n, k # i PROVE \E j \in 1..(n - 1) : w[j] = sh[k]
    <3>1. CASE k < i
      <4>1. k \in 1..(n - 1) /\ w[k] = sh[k]
        BY <1>1, <1>7, <3>1
      <4> QED
        BY <4>1
    <3>2. CASE k > i
      <4>1. k - 1 \in i..(n - 1) /\ (k - 1) + 1 = k /\ k - 1 \in 1..(n - 1)
        BY <1>1, <3>2
      <4>2. w[k - 1] = sh[(k - 1) + 1]
        BY <4>1, <1>8
      <4> QED
        BY <4>1, <4>2
    <3> QED
      BY <3>1, <3>2, <2>2, <1>1
  <2>3. On(w) = {w[j] : j \in 1..(n - 1)} /\ On(sh) = {sh[k] : k \in 1..n}
    BY <1>6 DEF On, n
  <2>4. On(w) \subseteq On(sh) \ {sh[i]}
    BY <2>1, <2>3
  <2>5. ASSUME NEW p \in On(sh), p # sh[i] PROVE p \in On(w)
    <3>1. PICK k \in 1..n : sh[k] = p
      BY <2>3
    <3>2. k # i
      BY <3>1, <2>5
    <3> QED
      BY <3>1, <3>2, <2>2, <2>3
  <2> QED
    BY <2>4, <2>5
<1>11. ASSUME NEW j \in 1..(n - 1), NEW k \in 1..(n - 1), w[j] = w[k] PROVE j = k
  <2>1. j \in Nat /\ k \in Nat
    OBVIOUS
  <2>2. /\ j < i => w[j] = sh[j] /\ j \in 1..n
        /\ ~(j < i) => w[j] = sh[j + 1] /\ j + 1 \in 1..n
        /\ k < i => w[k] = sh[k] /\ k \in 1..n
        /\ ~(k < i) => w[k] = sh[k + 1] /\ k + 1 \in 1..n
    BY <1>9
  <2>3. \A d, e \in 1..n : sh[d] = sh[e] => d = e
    BY <1>1
  <2>4. CASE j < i /\ k < i
    BY <2>2, <2>3, <2>4, <1>11
  <2>5. CASE j < i /\ ~(k < i)
    <3>1. j = k + 1
      BY <2>2, <2>3, <2>5, <1>11
    <3> QED
      BY <3>1, <2>1, <2>5, <1>1
  <2>6. CASE ~(j < i) /\ k < i
    <3>1. j + 1 = k
      BY <2>2, <2>3, <2>6, <1>11
    <3> QED
      BY <3>1, <2>1, <2>6, <1>1
  <2>7. CASE ~(j < i) /\ ~(k < i)
    <3>1. j + 1 = k + 1
      BY <2>2, <2>3, <2>7, <1>11
    <3> QED
      BY <3>1, <2>1
  <2> QED
    BY <2>4, <2>5, <2>6, <2>7
<1> QED
  BY <1>5, <1>6, <1>10, <1>11 DEF w, n

\* A pane leaves the screen: its connection is closed and it counts no more.
LEMMA Dropped ==
    ASSUME NEW cn, NEW sh, NEW fo, NEW p, NEW x, Wired(pane, cn, On(sh)), Row(sh, fo),
           p \in On(sh), IsPane(x), x.weight \in Weights, x.closed,
           NEW c \in Conns, pane[p].conn = c
    PROVE  Wired([pane EXCEPT ![p] = x], Closed(cn, c), On(sh) \ {p})
<1> DEFINE dn == Closed(cn, c)
           S == On(sh)
<1>1. /\ cn = [d \in Conns |-> cn[d]] /\ \A d \in Conns : Line(cn[d]) /\ S \subseteq PaneIds
      /\ Goes(p, pane[p], cn)
  BY DEF Wired
<1>2. cn[c].pane = p
  BY <1>1 DEF Goes
<1>3. /\ dn = [d \in Conns |-> dn[d]] /\ \A d \in Conns : Tells(cn[d], dn[d])
      /\ \A d \in Conns \ {c} : dn[d] = cn[d]
  BY <1>1, ClosedIs
<1> HIDE DEF dn, S
<1>4. \A d \in Conns : Line(dn[d])
  BY <1>1, <1>3, Told1
<1>5. \A d \in Conns : cn[d].pane \in S \ {p} => dn[d] = cn[d]
  BY <1>2, <1>3
<1> DEFINE T == S \ {p}
<1>6. T \subseteq PaneIds /\ T \ {p} = S \ {p} /\ p \notin T /\ Off(x) /\ p \in PaneIds
  BY <1>1 DEF Off, S
<1> HIDE DEF T
<1>7. Wired(pane, cn, S)
  BY DEF S
<1>8. Wired([pane EXCEPT ![p] = x], dn, T)
  <2>1. Becoming(cn, dn, S, T, p, x)
    BY <1>3, <1>4, <1>5, <1>6 DEF Becoming
  <2> QED
    BY <2>1, <1>7, Replaced
<1> QED
  BY <1>8 DEF dn, T, S

\* The focused pane is taken off the screen.
LEMMA DropFocusedKeeps ==
    ASSUME IInv, at = "idle", ServiceInv', Many, NEW cn, Wired(pane, cn, On(shown)),
           DropFocused(cn)
    PROVE  IInv'
<1> DEFINE p == shown[focus]
           sh == Without(shown, focus)
           fo == IF focus > Len(sh) THEN 1 ELSE focus
           x == [pane[p] EXCEPT !.closed = TRUE]
           pn == [pane EXCEPT ![p] = x]
           dn == Closed(cn, Focused.conn)
<1>1. Runs
  BY DEF Runs
<1>2. /\ Row(shown, focus) /\ focus \in 1..Len(shown) /\ p \in On(shown)
      /\ Focused = pane[p] /\ IsPane(pane[p]) /\ pane[p].weight \in Weights
      /\ Focused.conn \in Conns
  BY <1>1, FocusedIs
<1>3. Relaid(pn, dn, sh, fo, how)
  <2>1. pn = [pane EXCEPT ![p].closed = TRUE]
    BY Zenon
  <2> QED
    BY <2>1 DEF DropFocused
<1>4. IsPane(x) /\ x.weight \in Weights /\ x.closed
  <2>1. x = [name |-> pane[p].name, conn |-> pane[p].conn, ran |-> pane[p].ran,
             finished |-> pane[p].finished, frozen |-> pane[p].frozen, closed |-> TRUE,
             modes |-> pane[p].modes, weight |-> pane[p].weight, rect |-> pane[p].rect,
             grid |-> pane[p].grid]
    BY <1>2, PaneFields
  <2> HIDE DEF x
  <2> QED
    BY <1>2, <2>1 DEF IsPane
<1> HIDE DEF x
<1>5. Wired(pn, dn, On(shown) \ {p})
  BY <1>2, <1>4, Dropped
<1>6. /\ sh \in Seq(PaneIds) /\ Len(sh) = Len(shown) - 1 /\ On(sh) = On(shown) \ {p}
      /\ \A j, k \in 1..Len(sh) : sh[j] = sh[k] => j = k
  BY <1>2, WithoutIs
<1> HIDE DEF sh
<1>7. fo \in 1..Len(sh)
  <2>1. Len(shown) > 1 /\ Len(shown) \in Nat
    BY <1>2, LenProperties DEF Many, Row
  <2> QED
    BY <2>1, <1>2, <1>6
<1>8. Row(sh, fo)
  BY <1>6, <1>7 DEF Row
<1> HIDE DEF pn, dn, fo
<1>9. Wired(pn, dn, On(sh))
  BY <1>5, <1>6
<1> QED
  BY <1>1, <1>3, <1>8, <1>9, RelaidKeeps

\* The focused pane is closed.
LEMMA ClosePaneKeeps ==
    ASSUME IInv, ClosePane
    PROVE  IInv'
<1>1. at = "idle" /\ wish' = wish /\ Many /\ DropFocused(conn)
  BY DEF ClosePane, Press, service
<1>2. Runs /\ ServiceInv'
  BY <1>1 DEF Runs, IInv, ServiceInv
<1> QED
  BY <1>1, <1>2, FocusedIs, DropFocusedKeeps

\* Its service is removed.
LEMMA RemoveKeeps ==
    ASSUME IInv, Remove
    PROVE  IInv'
<1> DEFINE n == Focused.name
           After1(r) == [c \in Conns |-> IF conn[c].name = n
                                         THEN [conn[c] EXCEPT !.q = @ \o r, !.name = None]
                                         ELSE conn[c]]
<1>1. at = "idle" /\ Many /\ wish' = [wish EXCEPT ![n] = {}]
      /\ \E r \in {<<GoneAway>>, <<Finished, GoneAway>>} : DropFocused(After1(r))
  BY DEF Remove, Press
<1>2. Runs /\ ServiceInv'
  BY <1>1 DEF Runs, IInv, ServiceInv
<1>3. /\ n \in Names /\ Wired(pane, conn, On(shown))
  BY <1>2, FocusedIs
<1>4. \A c \in Conns : Line(conn[c])
  BY <1>3 DEF Wired
<1>5. PICK r \in {<<GoneAway>>, <<Finished, GoneAway>>} : DropFocused(After1(r))
  BY <1>1
<1> DEFINE cn == After1(r)
<1>6. \A x : Line(x) /\ x.name = n => Tells(x, Said(x, r, None))
  BY <1>3, <1>5, WhatIsTold, NoneIsNone
<1>7. ASSUME NEW c \in Conns PROVE Tells(conn[c], cn[c])
  <2> DEFINE x == conn[c]
  <2>1. Line(x) /\ IsConn(x)
    BY <1>4 DEF Line
  <2>2. CASE x.name = n
    <3>1. cn[c] = [x EXCEPT !.q = @ \o r, !.name = None]
      BY <2>2, Zenon
    <3>2. cn[c] = [x EXCEPT !.q = x.q \o r, !.name = None]
      BY <3>1, Zenon
    <3>3. [x EXCEPT !.q = x.q \o r, !.name = None] = Said(x, r, None)
      BY <2>1, SaidIs DEF Said
    <3>4. cn[c] = Said(x, r, None)
      BY <3>2, <3>3, Zenon
    <3> HIDE DEF cn
    <3> QED
      BY <2>1, <2>2, <3>4, <1>6
  <2>3. CASE x.name # n
    <3>1. cn[c] = x
      BY <2>3, Zenon
    <3> QED
      BY <3>1 DEF Tells
  <2> QED
    BY <2>2, <2>3
<1>8. cn = [c \in Conns |-> cn[c]]
  OBVIOUS
<1>9. DropFocused(cn)
  BY <1>5
<1> HIDE DEF cn
<1>10. Wired(pane, cn, On(shown))
  BY <1>3, <1>7, <1>8, AllTold
<1> QED
  BY <1>1, <1>2, <1>9, <1>10, DropFocusedKeeps

\* A pane grows or shrinks.
LEMMA GrowKeeps ==
    ASSUME IInv, NEW step \in {-1, 1}, Grow(step)
    PROVE  IInv'
<1> DEFINE p == shown[focus]
           w == Grown(pane[p].weight, step, Len(shown))
           x == [pane[p] EXCEPT !.weight = w]
           pn == [pane EXCEPT ![p] = x]
           S == On(shown)
<1>1. /\ at = "idle" /\ wish' = wish
      /\ Relaid([pane EXCEPT ![p].weight = Grown(@, step, Len(shown))], conn, shown, focus, how)
  BY DEF Grow, Press, service
<1>2. Relaid(pn, conn, shown, focus, how)
  BY <1>1, Zenon
<1>3. Runs /\ ServiceInv'
  BY <1>1 DEF Runs, IInv, ServiceInv
<1>4. /\ Wired(pane, conn, S) /\ Row(shown, focus) /\ p \in S /\ p \in PaneIds
      /\ Focused = pane[p] /\ IsPane(pane[p]) /\ pane[p].weight \in Weights
      /\ Goes(p, pane[p], conn)
      /\ shown \in Seq(PaneIds)
  BY <1>3, FocusedIs
<1>5. w \in Weights
  <2>1. Len(shown) \in Nat \ {0}
    BY <1>4, LenProperties DEF Row
  <2> QED
    BY <1>4, <2>1 DEF Grown, Smaller, Larger, Weights
<1> HIDE DEF w
<1>6. /\ IsPane(x) /\ x.weight \in Weights /\ x.name = pane[p].name /\ x.conn = pane[p].conn
      /\ x.finished = pane[p].finished /\ x.frozen = pane[p].frozen /\ x.closed = pane[p].closed
  <2>1. x = [name |-> pane[p].name, conn |-> pane[p].conn, ran |-> pane[p].ran,
             finished |-> pane[p].finished, frozen |-> pane[p].frozen, closed |-> pane[p].closed,
             modes |-> pane[p].modes, weight |-> w, rect |-> pane[p].rect,
             grid |-> pane[p].grid]
    BY <1>4, PaneFields
  <2> HIDE DEF x
  <2> QED
    BY <1>5, <2>1 DEF IsPane
<1> HIDE DEF x
<1>7. Goes(p, x, conn)
  BY <1>4, <1>6 DEF Goes
<1>8. /\ conn = [c \in Conns |-> conn[c]] /\ \A c \in Conns : Line(conn[c])
      /\ S \subseteq PaneIds /\ S \ {p} = S \ {p}
      /\ \A c \in Conns : conn[c].pane \in S \ {p} => conn[c] = conn[c]
  BY <1>4 DEF Wired
<1>9. Wired([pane EXCEPT ![p] = x], conn, S)
  <2> HIDE DEF S, p, pn
  <2>1. Becoming(conn, conn, S, S, p, x)
    BY <1>4, <1>6, <1>7, <1>8 DEF Becoming
  <2> QED
    BY <2>1, <1>4, Replaced
<1>10. Wired(pn, conn, S)
  BY <1>9
<1> HIDE DEF pn
<1> QED
  BY <1>2, <1>3, <1>4, <1>10, RelaidKeeps

\* Its service is renamed, and it is called so at once.
LEMMA RenameKeeps ==
    ASSUME IInv, NEW m \in Names, Rename(m)
    PROVE  IInv'
<1> DEFINE p == shown[focus]
           n == Focused.name
           e == [kind |-> "renamed", name |-> m]
           x == [pane[p] EXCEPT !.name = m]
           pn == [pane EXCEPT ![p] = x]
           dn == [c \in Conns |-> IF conn[c].name = n
                                  THEN [conn[c] EXCEPT !.q = Append(@, e), !.name = m] ELSE conn[c]]
           S == On(shown)
<1>1. /\ at = "idle" /\ RenameService(n, m)
      /\ Done([pane EXCEPT ![p].name = m], dn, shown, focus, how)
  BY DEF Rename, Press
<1>2. Done(pn, dn, shown, focus, how)
  BY <1>1, Zenon
<1>3. Runs
  BY <1>1 DEF Runs
<1>4. /\ Wired(pane, conn, S) /\ Row(shown, focus) /\ Sized(pane, conn, S)
      /\ p \in S /\ p \in PaneIds /\ Focused = pane[p] /\ IsPane(pane[p])
      /\ pane[p].weight \in Weights
      /\ Goes(p, pane[p], conn) /\ n \in Names /\ pane[p].conn \in Conns
  BY <1>3, FocusedIs
<1>5. ServiceInv'
  BY <1>1, <1>4, RenameServiceKeeps DEF IInv
<1>6. /\ \A c \in Conns : Line(conn[c]) /\ S \subseteq PaneIds
  BY <1>4 DEF Wired
<1>7. ASSUME NEW c \in Conns
      PROVE  dn[c] = IF conn[c].name = n THEN Said(conn[c], <<e>>, m) ELSE conn[c]
  <2> DEFINE y == conn[c]
  <2>1. IsConn(y) /\ y.q \in Seq(Reports)
    BY <1>6 DEF Line
  <2>2. CASE y.name = n
    <3>1. dn[c] = [y EXCEPT !.q = Append(@, e), !.name = m]
      BY <2>2, Zenon
    <3>2. dn[c] = [y EXCEPT !.q = Append(y.q, e), !.name = m]
      BY <3>1, Zenon
    <3>3. Append(y.q, e) = y.q \o <<e>>
      <4>1. e \in Reports /\ y.q \in Seq(Reports)
        BY <2>1, ReportKinds
      <4> HIDE DEF e, y
      <4> QED
        BY ONLY <4>1, Appended
    <3>4. [y EXCEPT !.q = Append(y.q, e), !.name = m]
          = [name |-> m, q |-> Append(y.q, e), readers |-> y.readers, pane |-> y.pane,
             size |-> y.size]
      BY <2>1, SaidIs
    <3>5. dn[c] = Said(y, <<e>>, m)
      BY <3>2, <3>3, <3>4, Zenon DEF Said
    <3> HIDE DEF dn
    <3> QED
      BY <2>2, <3>5
  <2>3. CASE y.name # n
    BY <2>3, Zenon
  <2> QED
    BY <2>2, <2>3
<1>8. dn = [c \in Conns |-> dn[c]]
  OBVIOUS
<1>9. n # None /\ m # None
  BY <1>4, NoneIsNone
<1> HIDE DEF n
<1>10. \A y : Line(y) /\ y.name = n => Tells(y, Said(y, <<e>>, m))
  BY <1>9, WhatIsTold
<1> HIDE DEF dn, e
<1>11. ASSUME NEW c \in Conns PROVE Tells(conn[c], dn[c])
  <2>1. CASE conn[c].name = n
    BY <2>1, <1>6, <1>7, <1>10
  <2>2. CASE conn[c].name # n
    BY <2>2, <1>7 DEF Tells
  <2> QED
    BY <2>1, <2>2
<1>12. Wired(pane, dn, S) /\ Sized(pane, dn, S)
  BY <1>4, <1>8, <1>11, AllTold
<1>13. /\ IsPane(x) /\ x.weight \in Weights /\ x.name = m /\ x.conn = pane[p].conn
       /\ x.finished = pane[p].finished /\ x.frozen = pane[p].frozen
       /\ x.closed = pane[p].closed /\ x.rect = pane[p].rect /\ x.grid = pane[p].grid
  <2>1. x = [name |-> m, conn |-> pane[p].conn, ran |-> pane[p].ran,
             finished |-> pane[p].finished, frozen |-> pane[p].frozen, closed |-> pane[p].closed,
             modes |-> pane[p].modes, weight |-> pane[p].weight, rect |-> pane[p].rect,
             grid |-> pane[p].grid]
    BY <1>4, PaneFields
  <2> HIDE DEF x
  <2> QED
    BY <1>4, <2>1 DEF IsPane
<1> HIDE DEF x
<1>14. Goes(p, x, dn)
  <2> DEFINE c == pane[p].conn
  <2>1. Goes(p, pane[p], dn)
    BY <1>4, <1>12 DEF Wired
  <2>2. c \in Conns
    BY <1>4
  <2>3. dn[c].name # None => Becomes(dn[c].q, m, dn[c].name)
    <3>1. CASE conn[c].name = n
      <4>1. dn[c].q = conn[c].q \o <<e>> /\ dn[c].name = m
        <5>1. dn[c] = Said(conn[c], <<e>>, m)
          BY <2>2, <3>1, <1>7
        <5> DEFINE s == Said(conn[c], <<e>>, m)
        <5>2. s.q = conn[c].q \o <<e>> /\ s.name = m
          BY DEF Said
        <5> HIDE DEF s
        <5>3. dn[c] = s
          BY <5>1 DEF s
        <5> HIDE DEF c
        <5> QED
          BY <5>2, <5>3
      <4>2. conn[c].q \in Seq(Reports)
        BY <2>2, <1>6 DEF Line
      <4> QED
        BY <4>1, <4>2, BecomesRenamed DEF e
    <3>2. CASE conn[c].name # n
      <4>1. dn[c] = conn[c]
        BY <2>2, <3>2, <1>7
      <4>2. conn[c].name # None => Becomes(conn[c].q, n, conn[c].name)
        BY <1>4 DEF Goes, n
      <4> QED
        BY <4>1, <4>2, <3>2, BecomesAnyhow
    <3> QED
      BY <3>1, <3>2
  <2> QED
    BY <2>1, <2>3, <1>13 DEF Goes
<1>15. /\ \A c \in Conns : Line(dn[c])
  BY <1>12 DEF Wired
<1>16. Becoming(dn, dn, S, S, p, x)
  <2>1. \A c \in Conns : dn[c].pane \in S \ {p} => dn[c] = dn[c]
    OBVIOUS
  <2> HIDE DEF S, p
  <2> QED
    BY <2>1, <1>4, <1>6, <1>8, <1>13, <1>14, <1>15 DEF Becoming
<1>17. Wired(pn, dn, S) /\ Sized(pn, dn, S \ {p})
  <2>1. Sized(pane, dn, S \ {p})
    BY <1>12 DEF Sized
  <2> HIDE DEF S, p
  <2> QED
    BY <2>1, <1>12, <1>16, Replaced
<1>18. pn[p] = x
  BY <1>4 DEF Wired
<1>19. Sized(pn, dn, S)
  <2>1. HasRoom(x.rect) => /\ x.grid = SizeOf(x.rect)
                           /\ dn[x.conn].name # None => dn[x.conn].size = x.grid
    BY <1>4, <1>12, <1>13 DEF Sized
  <2> HIDE DEF pn, S, p
  <2> QED
    BY <2>1, <1>17, <1>18, SizedAlso
<1> HIDE DEF pn
<1> QED
  BY <1>2, <1>3, <1>4, <1>5, <1>17, <1>19, DoneKeeps

\* The window's size is taken note of.
LEMMA WinchKeeps ==
    ASSUME IInv, Winch
    PROVE  IInv'
<1> DEFINE laid == Laid(pane, shown, how, window)
           dn == Told(conn, laid)
<1>1. /\ at = "idle" /\ at' = at /\ known' = window /\ window' = window /\ owed' = owed
      /\ wish' = wish /\ UNCHANGED disk
      /\ Shows(laid, dn, shown, focus, how) /\ Paint(Focused.modes)
  BY DEF Winch, service
<1>2. Runs /\ Runs'
  BY <1>1 DEF Runs
<1>3. /\ Wired(pane, conn, On(shown)) /\ Row(shown, focus) /\ shown \in Seq(PaneIds)
      /\ focus \in 1..Len(shown) /\ \A i \in 1..Len(shown) : shown[i] \in PaneIds
  BY <1>2, FocusedIs, Places
<1>4. /\ Wired(laid, dn, On(shown)) /\ Sized(laid, dn, On(shown))
      /\ \A p \in PaneIds : /\ laid[p].name = pane[p].name /\ laid[p].weight = pane[p].weight
                            /\ laid[p].modes = pane[p].modes
  BY <1>3, Relaying
<1> HIDE DEF laid, dn
<1>5. /\ Wired(pane', conn', On(shown')) /\ Row(shown', focus') /\ Sized(pane', conn', On(shown'))
      /\ Focused' = pane'[shown[focus]] /\ pane'[shown[focus]] = laid[shown[focus]]
      /\ LayoutOf(pane', shown', focus', how') = LayoutOf(laid, shown, focus, how)
  BY <1>1, <1>3, <1>4, ShowsKeeps
<1>6. LayoutOf(laid, shown, focus, how) = LayoutOf(pane, shown, focus, how)
  BY <1>3, <1>4, LayoutAlike
<1>7. ViewInv'
  BY <1>1, <1>2, <1>5 DEF ViewInv
<1>8. DiskInv'
  <2>1. saved' = saved /\ written' = written /\ asked' = asked /\ unkept' = unkept
    BY <1>1 DEF disk
  <2> QED
    BY <2>1, <1>2, <1>5, <1>6 DEF IInv, DiskInv
<1>9. ScreenInv'
  <2>1. told' = Focused.modes /\ Differs(term', told') \subseteq askew'
    BY <1>1, Painted DEF IInv, ScreenInv
  <2>2. Focused'.modes = Focused.modes
    BY <1>3, <1>4, <1>5 DEF Focused
  <2> QED
    BY <2>1, <2>2, <1>1, <1>2 DEF ScreenInv
<1>10. WindowInv' /\ ServiceInv'
  BY <1>1 DEF IInv, WindowInv, ServiceInv
<1> QED
  BY <1>7, <1>8, <1>9, <1>10 DEF IInv

----------------------------------------------------------------------------
(* Reports. *)

\* What the pane of a report that is not stale is.
LEMMA Fresher ==
    ASSUME IInv, at = "idle", NEW c \in Conns, conn[c].q # <<>>, ~Stale(c)
    PROVE  LET p == conn[c].pane
           IN  /\ p \in On(shown) /\ p \in PaneIds /\ pane[p].conn = c
               /\ IsPane(pane[p]) /\ pane[p].weight \in Weights
               /\ Goes(p, pane[p], conn)
<1> DEFINE p == conn[c].pane
<1>1. Runs
  BY DEF Runs
<1>2. Wired(pane, conn, On(shown))
  BY <1>1, FocusedIs
<1>3. p \in PaneIds
  BY <1>2, Empty DEF Wired, Line
<1>4. ~pane[p].closed /\ pane[p].conn = c
  BY DEF Stale
<1>5. p \in On(shown)
  BY <1>2, <1>3, <1>4, NoneIsNone DEF Wired, Off
<1> QED
  BY <1>2, <1>3, <1>4, <1>5 DEF Wired

\* Taking a report of a connection that the panes on the screen other than p do not
\* go by.
LEMMA TakenOthers ==
    ASSUME IInv, at = "idle", NEW c \in Conns, conn[c].q # <<>>
    PROVE  LET dn == Taken(c)
           IN  /\ dn = [d \in Conns |-> dn[d]] /\ \A d \in Conns : Line(dn[d])
               /\ \A d \in Conns \ {c} : dn[d] = conn[d]
               /\ dn[c].name = conn[c].name /\ dn[c].pane = conn[c].pane
               /\ dn[c].size = conn[c].size
               /\ dn[c].q = Tail(conn[c].q)
               /\ dn[c].readers = IF Head(conn[c].q) = GoneAway THEN 0 ELSE conn[c].readers
<1> DEFINE dn == Taken(c)
<1>1. conn = [d \in Conns |-> conn[d]] /\ \A d \in Conns : Line(conn[d])
  BY Lines DEF IInv
<1>2. /\ dn = [d \in Conns |-> dn[d]] /\ \A d \in Conns \ {c} : dn[d] = conn[d]
      /\ Line(dn[c]) /\ dn[c].name = conn[c].name /\ dn[c].pane = conn[c].pane
      /\ dn[c].size = conn[c].size
      /\ dn[c].q = Tail(conn[c].q)
      /\ dn[c].readers = IF Head(conn[c].q) = GoneAway THEN 0 ELSE conn[c].readers
  BY <1>1, TakenIs
<1> HIDE DEF dn
<1>3. \A d \in Conns : Line(dn[d])
  BY <1>1, <1>2
<1> QED
  BY <1>2, <1>3 DEF dn

\* One that is stale touches no pane.
LEMMA TakeStaleKeeps ==
    ASSUME IInv, NEW c \in Conns, TakeStale(c)
    PROVE  IInv'
<1> DEFINE dn == Taken(c)
           S == On(shown)
<1>1. /\ at = "idle" /\ conn[c].q # <<>> /\ Stale(c) /\ wish' = wish
      /\ After(pane, dn, shown, focus)
      /\ IF AllDone(pane, shown) THEN UNCHANGED saved ELSE UNCHANGED disk
  BY DEF TakeStale, service
<1>2. Runs /\ ServiceInv'
  BY <1>1 DEF Runs, IInv, ServiceInv
<1>3. Wired(pane, conn, S) /\ Row(shown, focus) /\ Sized(pane, conn, S)
  BY <1>2, FocusedIs
<1>4. /\ dn = [d \in Conns |-> dn[d]] /\ \A d \in Conns : Line(dn[d])
      /\ \A d \in Conns \ {c} : dn[d] = conn[d]
  BY <1>1, TakenOthers
<1> HIDE DEF dn
<1>5. ASSUME NEW p \in S
      PROVE  Goes(p, pane[p], conn) /\ pane[p].conn \in Conns \ {c}
  <2>1. Goes(p, pane[p], conn)
    BY <1>3 DEF Wired
  <2> QED
    BY <2>1, <1>1 DEF Goes, Stale
<1>6. \A p \in S : Goes(p, pane[p], dn)
  BY <1>4, <1>5 DEF Goes
<1>7. Wired(pane, dn, S)
  BY <1>3, <1>4, <1>6 DEF Wired
<1>8. Sized(pane, dn, S)
  BY <1>3, <1>4, <1>5 DEF Sized
<1>9. \/ AllDone(pane, shown) /\ saved' = saved
      \/ UNCHANGED <<asked, saved, written>> /\ unkept \subseteq unkept'
  BY <1>1 DEF disk
<1> QED
  BY <1>1, <1>2, <1>3, <1>7, <1>8, <1>9, AfterKeeps

\* One that is not: its pane becomes x, which goes by the same connection.
LEMMA TakenFresh ==
    ASSUME IInv, at = "idle", NEW c \in Conns, conn[c].q # <<>>, ~Stale(c),
           NEW p, p = conn[c].pane, NEW x, IsPane(x), x.weight \in Weights, x.conn = c, ~x.closed,
           x.name = IF Head(conn[c].q).kind = "renamed" THEN Head(conn[c].q).name ELSE pane[p].name,
           x.rect = pane[p].rect, x.grid = pane[p].grid,
           pane[p].finished => x.finished, pane[p].frozen => x.frozen,
           Head(conn[c].q) = GoneAway => x.finished \/ x.frozen
    PROVE  /\ Wired([pane EXCEPT ![p] = x], Taken(c), On(shown))
           /\ Sized([pane EXCEPT ![p] = x], Taken(c), On(shown))
<1> DEFINE dn == Taken(c)
           S == On(shown)
           pn == [pane EXCEPT ![p] = x]
           q == conn[c].q
<1>1. Runs
  BY DEF Runs
<1>2. Wired(pane, conn, S) /\ Sized(pane, conn, S)
  BY <1>1, FocusedIs
<1>3. p \in S /\ p \in PaneIds /\ pane[p].conn = c /\ Goes(p, pane[p], conn)
  BY Fresher
<1>4. /\ dn = [d \in Conns |-> dn[d]] /\ \A d \in Conns : Line(dn[d])
      /\ \A d \in Conns \ {c} : dn[d] = conn[d]
      /\ dn[c].name = conn[c].name /\ dn[c].pane = p /\ dn[c].size = conn[c].size
      /\ dn[c].q = Tail(q)
      /\ dn[c].readers = IF Head(q) = GoneAway THEN 0 ELSE conn[c].readers
  BY TakenOthers
<1>5. Line(conn[c]) /\ q \in Seq(Reports) /\ S \subseteq PaneIds
  BY <1>2 DEF Wired, Line
<1>6. Head(q) \in Reports
  BY <1>5, Rest
<1> HIDE DEF dn, S, q
<1>7. Goes(p, x, dn)
  <2>1. x.name \in Names
    <3>1. pane[p].name \in Names
      BY <1>3 DEF Goes
    <3>2. Head(q).kind = "renamed" => Head(q).name \in Names
      BY <1>6, RenamedKnown
    <3>3. CASE Head(q).kind = "renamed"
      BY <3>2, <3>3 DEF q
    <3>4. CASE Head(q).kind # "renamed"
      BY <3>1, <3>4 DEF q
    <3> QED
      BY <3>3, <3>4
  <2>2. dn[c].readers = 1 \/ x.finished \/ x.frozen
    <3>1. conn[c].readers = 1 \/ pane[p].finished \/ pane[p].frozen
      BY <1>3 DEF Goes
    <3> QED
      BY <3>1, <1>4 DEF q
  <2>3. ASSUME dn[c].name # None PROVE Becomes(dn[c].q, x.name, dn[c].name)
    <3>1. Becomes(q, pane[p].name, conn[c].name)
      BY <2>3, <1>3, <1>4 DEF Goes, q
    <3>2. Becomes(Tail(q), IF Head(q).kind = "renamed" THEN Head(q).name ELSE pane[p].name,
                  conn[c].name)
      <4>1. q # <<>>
        BY DEF q
      <4> QED
        BY <3>1, <4>1, <1>5, BecomesTaken
    <3> QED
      BY <3>2, <1>4 DEF q
  <2> QED
    BY <2>1, <2>2, <2>3, <1>4 DEF Goes
<1>8. \A d \in Conns : conn[d].pane \in S \ {p} => dn[d] = conn[d]
  BY <1>4
<1>9. Becoming(conn, dn, S, S, p, x)
  BY <1>3, <1>4, <1>5, <1>7, <1>8 DEF Becoming
<1>10. Wired(pn, dn, S) /\ Sized(pn, dn, S \ {p})
  <2>1. Sized(pane, conn, S \ {p})
    BY <1>2 DEF Sized
  <2> QED
    BY <2>1, <1>2, <1>9, Replaced
<1>11. pn[p] = x
  BY <1>2, <1>3 DEF Wired
<1>12. Sized(pn, dn, S)
  <2>1. HasRoom(x.rect) => /\ x.grid = SizeOf(x.rect)
                           /\ dn[x.conn].name # None => dn[x.conn].size = x.grid
    BY <1>2, <1>3, <1>4 DEF Sized
  <2> HIDE DEF pn
  <2> QED
    BY <2>1, <1>10, <1>11, SizedAlso
<1> QED
  BY <1>10, <1>12 DEF pn, dn, S

\* An arrangement is not changed by what one pane has to say but for its name.
LEMMA LayoutSame ==
    ASSUME IInv, Runs, NEW p, NEW x, x.name = pane[p].name, x.weight = pane[p].weight
    PROVE  LayoutOf([pane EXCEPT ![p] = x], shown, focus, how) = LayoutOf(pane, shown, focus, how)
<1> DEFINE pn == [pane EXCEPT ![p] = x]
<1>1. shown \in Seq(PaneIds) /\ pane = [r \in PaneIds |-> pane[r]]
  BY FocusedIs DEF Wired
<1>2. \A r \in PaneIds : pn[r] = IF r = p THEN x ELSE pane[r]
  BY <1>1
<1> HIDE DEF pn
<1>3. \A i \in 1..Len(shown) : /\ pn[shown[i]].name = pane[shown[i]].name
                               /\ pn[shown[i]].weight = pane[shown[i]].weight
  BY <1>1, <1>2, Places
<1>4. LayoutOf(pn, shown, focus, how) = LayoutOf(pane, shown, focus, how)
  <2>1. shown \in Seq(PaneIds)
    BY <1>1
  <2> QED
    BY ONLY <2>1, <1>3, LayoutAlike, SMTT(30)
<1> QED
  BY <1>4 DEF pn

\* The modes of a pane.
LEMMA TakeModesKeeps ==
    ASSUME IInv, NEW c \in Conns, TakeModes(c)
    PROVE  IInv'
<1> DEFINE p == conn[c].pane
           ms == Head(conn[c].q).modes
           x == [pane[p] EXCEPT !.modes = ms]
           pn == [pane EXCEPT ![p] = x]
<1>1. /\ at = "idle" /\ conn[c].q # <<>> /\ ~Stale(c) /\ Head(conn[c].q).kind = "modes"
      /\ wish' = wish
      /\ After([pane EXCEPT ![p].modes = ms], Taken(c), shown, focus)
      /\ IF AllDone([pane EXCEPT ![p].modes = ms], shown) THEN UNCHANGED saved ELSE UNCHANGED disk
  BY DEF TakeModes, Report, service
<1>2. [pane EXCEPT ![p].modes = ms] = pn
  BY Zenon
<1>3. Runs /\ ServiceInv'
  BY <1>1 DEF Runs, IInv, ServiceInv
<1>4. IsPane(pane[p]) /\ pane[p].weight \in Weights /\ pane[p].conn = c /\ Goes(p, pane[p], conn)
  BY <1>1, Fresher
<1>5. x = [name |-> pane[p].name, conn |-> pane[p].conn, ran |-> pane[p].ran,
           finished |-> pane[p].finished, frozen |-> pane[p].frozen, closed |-> pane[p].closed,
           modes |-> ms, weight |-> pane[p].weight, rect |-> pane[p].rect,
           grid |-> pane[p].grid]
  BY <1>4, PaneFields
<1> HIDE DEF x, ms
<1>6. /\ IsPane(x) /\ x.weight = pane[p].weight /\ x.conn = c /\ x.closed = pane[p].closed
      /\ x.name = pane[p].name /\ x.rect = pane[p].rect /\ x.grid = pane[p].grid
      /\ x.finished = pane[p].finished /\ x.frozen = pane[p].frozen
  BY <1>4, <1>5 DEF IsPane
<1>7. Head(conn[c].q).kind # "renamed" /\ Head(conn[c].q) # GoneAway
  BY <1>1 DEF GoneAway
<1>8. ~pane[p].closed
  BY <1>4 DEF Goes
<1>9. Wired(pn, Taken(c), On(shown)) /\ Sized(pn, Taken(c), On(shown))
  <2>1. x.weight \in Weights /\ ~x.closed /\ p = conn[c].pane
    BY <1>4, <1>6, <1>8
  <2> QED
    BY <2>1, <1>1, <1>6, <1>7, TakenFresh
<1>10. LayoutOf(pn, shown, focus, how) = LayoutOf(pane, shown, focus, how)
  BY <1>3, <1>6, LayoutSame
<1> HIDE DEF pn
<1>11. \/ AllDone(pn, shown) /\ saved' = saved
       \/ UNCHANGED <<asked, saved, written>> /\ unkept \subseteq unkept'
  BY <1>1, <1>2 DEF disk
<1>12. After(pn, Taken(c), shown, focus) /\ Row(shown, focus)
  BY <1>1, <1>2, <1>3, FocusedIs
<1> QED
  BY <1>1, <1>3, <1>9, <1>10, <1>11, <1>12, AfterKeeps

\* The new name of its service.
LEMMA TakeRenamedKeeps ==
    ASSUME IInv, NEW c \in Conns, TakeRenamed(c)
    PROVE  IInv'
<1> DEFINE p == conn[c].pane
           m == Head(conn[c].q).name
           x == [pane[p] EXCEPT !.name = m]
           pn == [pane EXCEPT ![p] = x]
<1>1. /\ at = "idle" /\ conn[c].q # <<>> /\ ~Stale(c) /\ Head(conn[c].q).kind = "renamed"
      /\ wish' = wish
      /\ After([pane EXCEPT ![p].name = m], Taken(c), shown, focus)
      /\ saved' = saved
      /\ IF AllDone([pane EXCEPT ![p].name = m], shown) THEN TRUE
         ELSE /\ unkept' = IF [pane EXCEPT ![p].name = m] = pane THEN unkept
                           ELSE unkept \cup {"renamed"}
              /\ UNCHANGED <<asked, written>>
  BY DEF TakeRenamed, Report, service
<1>2. [pane EXCEPT ![p].name = m] = pn
  BY Zenon
<1>3. Runs /\ ServiceInv'
  BY <1>1 DEF Runs, IInv, ServiceInv
<1>4. IsPane(pane[p]) /\ pane[p].weight \in Weights /\ pane[p].conn = c /\ Goes(p, pane[p], conn)
  BY <1>1, Fresher
<1>5. x = [name |-> m, conn |-> pane[p].conn, ran |-> pane[p].ran,
           finished |-> pane[p].finished, frozen |-> pane[p].frozen, closed |-> pane[p].closed,
           modes |-> pane[p].modes, weight |-> pane[p].weight, rect |-> pane[p].rect,
           grid |-> pane[p].grid]
  BY <1>4, PaneFields
<1> HIDE DEF x
<1>6. /\ IsPane(x) /\ x.weight = pane[p].weight /\ x.conn = c /\ x.closed = pane[p].closed
      /\ x.name = m /\ x.rect = pane[p].rect /\ x.grid = pane[p].grid
      /\ x.finished = pane[p].finished /\ x.frozen = pane[p].frozen
  BY <1>4, <1>5 DEF IsPane
<1>7. Head(conn[c].q) # GoneAway
  BY <1>1 DEF GoneAway
<1>8. ~pane[p].closed
  BY <1>4 DEF Goes
<1>9. Wired(pn, Taken(c), On(shown)) /\ Sized(pn, Taken(c), On(shown))
  <2>1. x.weight \in Weights /\ ~x.closed /\ p = conn[c].pane
    BY <1>4, <1>6, <1>8
  <2> QED
    BY <2>1, <1>1, <1>6, <1>7, TakenFresh
<1> HIDE DEF pn
<1>10. \/ AllDone(pn, shown) /\ saved' = saved
       \/ /\ UNCHANGED <<asked, saved, written>> /\ unkept \subseteq unkept'
          /\ "renamed" \notin unkept' =>
                LayoutOf(pn, shown, focus, how) = LayoutOf(pane, shown, focus, how)
  <2>1. CASE AllDone(pn, shown)
    BY <2>1, <1>1
  <2>2. CASE ~AllDone(pn, shown)
    <3>1. /\ unkept' = IF pn = pane THEN unkept ELSE unkept \cup {"renamed"}
          /\ UNCHANGED <<asked, saved, written>>
      BY <1>1, <1>2, <2>2
    <3>2. "renamed" \notin unkept' => pn = pane
      BY <3>1
    <3> QED
      BY <3>1, <3>2
  <2> QED
    BY <2>1, <2>2
<1>11. After(pn, Taken(c), shown, focus) /\ Row(shown, focus)
  BY <1>1, <1>2, <1>3, FocusedIs
<1> QED
  BY <1>1, <1>3, <1>9, <1>10, <1>11, AfterKeeps

\* A pane whose service has ended: taken off, or not.
Ended(x, v) ==
    [name |-> x.name, conn |-> x.conn, ran |-> x.ran, finished |-> TRUE, frozen |-> x.frozen,
     closed |-> v, modes |-> x.modes, weight |-> x.weight, rect |-> x.rect, grid |-> x.grid]

\* Two fields of a pane changed, one after the other.
LEMMA EndedIs ==
    ASSUME NEW x, IsPane(x), NEW u, NEW v
    PROVE  [[x EXCEPT !.finished = u] EXCEPT !.closed = v]
           = [name |-> x.name, conn |-> x.conn, ran |-> x.ran, finished |-> u, frozen |-> x.frozen,
              closed |-> v, modes |-> x.modes, weight |-> x.weight, rect |-> x.rect,
              grid |-> x.grid]
<1> DEFINE y == [x EXCEPT !.finished = u]
<1>1. y = [name |-> x.name, conn |-> x.conn, ran |-> x.ran, finished |-> u,
           frozen |-> x.frozen, closed |-> x.closed, modes |-> x.modes, weight |-> x.weight,
           rect |-> x.rect, grid |-> x.grid]
  BY PaneFields
<1> HIDE DEF y
<1>2. [y EXCEPT !.closed = v]
      = [name |-> x.name, conn |-> x.conn, ran |-> x.ran, finished |-> u, frozen |-> x.frozen,
         closed |-> v, modes |-> x.modes, weight |-> x.weight, rect |-> x.rect, grid |-> x.grid]
  BY <1>1
<1> QED
  BY <1>2, Zenon DEF y

\* And that is what becomes of the panes.
LEMMA PaneTwice ==
    ASSUME NEW pn, pn = [r \in PaneIds |-> pn[r]], NEW p \in PaneIds, IsPane(pn[p]), NEW v
    PROVE  [pn EXCEPT ![p].finished = TRUE, ![p].closed = v] = [pn EXCEPT ![p] = Ended(pn[p], v)]
<1> DEFINE x == pn[p]
           y == [x EXCEPT !.finished = TRUE]
           p1 == [pn EXCEPT ![p] = y]
           z == [y EXCEPT !.closed = v]
<1>1. [pn EXCEPT ![p].finished = TRUE, ![p].closed = v]
      = [p1 EXCEPT ![p] = [p1[p] EXCEPT !.closed = v]]
  BY Zenon
<1>2. IsPane(x)
  OBVIOUS
<1> HIDE DEF x
<1>3. z = Ended(x, v)
  <2> DEFINE t == TRUE
  <2> HIDE DEF t
  <2>1. [[x EXCEPT !.finished = t] EXCEPT !.closed = v]
        = [name |-> x.name, conn |-> x.conn, ran |-> x.ran, finished |-> t, frozen |-> x.frozen,
           closed |-> v, modes |-> x.modes, weight |-> x.weight, rect |-> x.rect, grid |-> x.grid]
    BY <1>2, EndedIs
  <2> QED
    BY <2>1, Zenon DEF t, Ended
<1> HIDE DEF y
<1>4. p1[p] = y /\ p1 = [r \in PaneIds |-> IF r = p THEN y ELSE pn[r]]
  OBVIOUS
<1> HIDE DEF p1
<1>5. [p1[p] EXCEPT !.closed = v] = z
  BY <1>4, Zenon
<1> HIDE DEF z
<1>6. [p1 EXCEPT ![p] = z] = [pn EXCEPT ![p] = z]
  <2>1. [p1 EXCEPT ![p] = z] = [r \in PaneIds |-> IF r = p THEN z ELSE pn[r]]
    BY <1>4
  <2>2. [pn EXCEPT ![p] = z] = [r \in PaneIds |-> IF r = p THEN z ELSE pn[r]]
    OBVIOUS
  <2> QED
    BY <2>1, <2>2
<1>7. [pn EXCEPT ![p].finished = TRUE, ![p].closed = v] = [pn EXCEPT ![p] = Ended(x, v)]
  BY <1>1, <1>3, <1>5, <1>6, Zenon
<1> QED
  BY <1>7, Zenon DEF x

\* A pane's service has ended: the pane goes with it, or stays as it is.
LEMMA TakeFinishedKeeps ==
    ASSUME IInv, NEW c \in Conns, TakeFinished(c)
    PROVE  IInv'
<1> DEFINE p == conn[c].pane
           v == pane[p].ran /\ Many
           i == CHOOSE i \in DOMAIN shown : shown[i] = p
           x == Ended(pane[p], v)
           pn == [pane EXCEPT ![p].finished = TRUE, ![p].closed = v]
           qn == [pane EXCEPT ![p] = x]
           sh == Without(shown, i)
           fo == IF focus > Len(sh) THEN Len(sh) ELSE IF focus > i THEN focus - 1 ELSE focus
           laid == Laid(pn, sh, how, known)
           tn == Taken(c)
           dn == Closed(tn, c)
           S == On(shown)
<1>1. /\ at = "idle" /\ conn[c].q # <<>> /\ ~Stale(c) /\ Head(conn[c].q).kind = "finished"
      /\ wish' = wish
      /\ IF pn[p].closed
         THEN /\ After(laid, Told(dn, laid), sh, fo)
              /\ IF AllDone(pn, sh) THEN Writes(LayoutOf(pn, sh, fo, how))
                 ELSE Remember(LayoutOf(pn, sh, fo, how))
         ELSE /\ After(pn, tn, shown, focus)
              /\ IF AllDone(pn, shown) THEN UNCHANGED saved ELSE UNCHANGED disk
  BY DEF TakeFinished, Report, service
<1>2. Runs /\ ServiceInv'
  BY <1>1 DEF Runs, IInv, ServiceInv
<1>3. /\ p \in S /\ p \in PaneIds /\ pane[p].conn = c /\ IsPane(pane[p])
      /\ pane[p].weight \in Weights
      /\ Goes(p, pane[p], conn)
  BY <1>1, Fresher
<1>4. /\ Wired(pane, conn, S) /\ Row(shown, focus) /\ shown \in Seq(PaneIds)
      /\ focus \in 1..Len(shown)
  BY <1>2, FocusedIs
<1>5. pane = [r \in PaneIds |-> pane[r]] /\ S \subseteq PaneIds
  BY <1>4 DEF Wired
<1>6. pn = qn
  <2>1. pane = [r \in PaneIds |-> pane[r]] /\ p \in PaneIds /\ IsPane(pane[p])
    BY <1>3, <1>5
  <2> HIDE DEF p, v
  <2> QED
    BY <2>1, PaneTwice, Zenon
<1>7. qn[p] = x /\ \A r \in PaneIds \ {p} : qn[r] = pane[r]
  BY <1>3, <1>5
<1>8. /\ IsPane(x) /\ x.weight \in Weights /\ x.name = pane[p].name /\ x.conn = c
      /\ x.rect = pane[p].rect /\ x.grid = pane[p].grid
      /\ x.finished /\ x.frozen = pane[p].frozen /\ (x.closed <=> v)
      /\ x.weight = pane[p].weight
  <2>1. v \in BOOLEAN
    BY Zenon DEF Many
  <2> HIDE DEF v
  <2> QED
    BY <1>3, <2>1 DEF IsPane, Ended
<1>9. Head(conn[c].q).kind # "renamed" /\ Head(conn[c].q) # GoneAway
  BY <1>1 DEF GoneAway
<1> HIDE DEF v, x, pn
<1>10. CASE ~x.closed
  <2>1. Wired(qn, tn, S) /\ Sized(qn, tn, S)
    <3>1. p = conn[c].pane
      OBVIOUS
    <3> HIDE DEF p
    <3> QED
      BY <1>1, <1>8, <1>9, <1>10, <3>1, TakenFresh
  <2>2. LayoutOf(qn, shown, focus, how) = LayoutOf(pane, shown, focus, how)
    BY <1>2, <1>8, LayoutSame
  <2>3. /\ After(qn, tn, shown, focus)
        /\ IF AllDone(qn, shown) THEN UNCHANGED saved ELSE UNCHANGED disk
    <3>1. ~pn[p].closed
      BY <1>6, <1>7, <1>10
    <3> HIDE DEF sh, fo, laid, dn, tn
    <3> QED
      BY <3>1, <1>1, <1>6
  <2> HIDE DEF qn, tn
  <2>4. \/ AllDone(qn, shown) /\ saved' = saved
        \/ UNCHANGED <<asked, saved, written>> /\ unkept \subseteq unkept'
    BY <2>3 DEF disk
  <2> QED
    BY <1>1, <1>2, <1>4, <2>1, <2>2, <2>3, <2>4, AfterKeeps
<1>11. CASE x.closed
  <2>1. /\ After(laid, Told(dn, laid), sh, fo)
        /\ IF AllDone(pn, sh) THEN Writes(LayoutOf(pn, sh, fo, how))
           ELSE Remember(LayoutOf(pn, sh, fo, how))
    <3>1. pn[p].closed
      BY <1>6, <1>7, <1>11
    <3> HIDE DEF sh, fo, laid, dn, tn
    <3> QED
      BY <3>1, <1>1
  <2>2. i \in 1..Len(shown) /\ shown[i] = p
    <3>1. \E j \in DOMAIN shown : shown[j] = p
      BY <1>3, <1>4, Places
    <3>2. i \in DOMAIN shown /\ shown[i] = p
      BY <3>1
    <3> QED
      BY <3>2, <1>4, Places
  <2>3. Len(shown) \in Nat /\ Len(shown) > 1
    BY <1>8, <1>11, <1>4, LenProperties DEF v, Many
  <2> HIDE DEF i
  <2>4. /\ sh \in Seq(PaneIds) /\ Len(sh) = Len(shown) - 1 /\ On(sh) = S \ {p}
        /\ \A j, k \in 1..Len(sh) : sh[j] = sh[k] => j = k
    BY <1>4, <2>2, WithoutIs
  <2> HIDE DEF sh
  <2>5. fo \in 1..Len(sh)
    BY <1>4, <2>2, <2>3, <2>4
  <2>6. Row(sh, fo)
    BY <2>4, <2>5 DEF Row
  <2>7. /\ tn = [d \in Conns |-> tn[d]] /\ \A d \in Conns : Line(tn[d])
        /\ \A d \in Conns \ {c} : tn[d] = conn[d]
    BY <1>1, TakenOthers
  <2> HIDE DEF tn
  <2>8. /\ dn = [d \in Conns |-> dn[d]] /\ \A d \in Conns : Tells(tn[d], dn[d])
        /\ \A d \in Conns \ {c} : dn[d] = tn[d]
    BY <2>7, ClosedIs
  <2> HIDE DEF dn, fo
  <2>9. \A d \in Conns : Line(dn[d])
    BY <2>7, <2>8, Told1
  <2>10. \A d \in Conns : conn[d].pane \in S \ {p} => dn[d] = conn[d]
    BY <2>7, <2>8
  <2> DEFINE T == S \ {p}
  <2>11. T \subseteq PaneIds /\ T \ {p} = S \ {p} /\ p \notin T /\ Off(x)
    BY <1>5, <1>11 DEF Off
  <2> HIDE DEF T
  <2>12. Becoming(conn, dn, S, T, p, x)
    <3> HIDE DEF p, S
    <3> QED
      BY <1>3, <1>8, <2>8, <2>9, <2>10, <2>11 DEF Becoming
  <2>13. Wired(qn, dn, On(sh))
    <3>1. Wired([pane EXCEPT ![p] = x], dn, T)
      BY <1>4, <2>12, Replaced
    <3> QED
      BY <3>1, <2>4 DEF T
  <2>14. Wired(pn, dn, On(sh))
    BY <2>13, <1>6
  <2>15. /\ Wired(laid, Told(dn, laid), On(sh)) /\ Sized(laid, Told(dn, laid), On(sh))
         /\ \A r \in PaneIds : /\ laid[r].name = pn[r].name /\ laid[r].weight = pn[r].weight
                               /\ laid[r].finished = pn[r].finished
                               /\ laid[r].frozen = pn[r].frozen
    <3>1. sh \in Seq(PaneIds) /\ \A j, k \in 1..Len(sh) : sh[j] = sh[k] => j = k
      BY <2>4
    <3> HIDE DEF pn, sh, dn
    <3>2. laid = Laid(pn, sh, how, known)
      BY Zenon
    <3>3. LET ln == Laid(pn, sh, how, known)
          IN  /\ Wired(ln, Told(dn, ln), On(sh)) /\ Sized(ln, Told(dn, ln), On(sh))
              /\ \A r \in PaneIds : /\ ln[r].name = pn[r].name /\ ln[r].weight = pn[r].weight
                                    /\ ln[r].modes = pn[r].modes
                                    /\ ln[r].finished = pn[r].finished
                                    /\ ln[r].frozen = pn[r].frozen
      BY ONLY <3>1, <2>14, Relaying
    <3> HIDE DEF laid
    <3> QED
      BY <3>2, <3>3
  <2> HIDE DEF laid
  <2>16. \A j \in 1..Len(sh) : sh[j] \in PaneIds
    BY <2>4
  <2>17. LayoutOf(laid, sh, fo, how) = LayoutOf(pn, sh, fo, how)
    <3>1. \A j \in 1..Len(sh) : /\ laid[sh[j]].name = pn[sh[j]].name
                                /\ laid[sh[j]].weight = pn[sh[j]].weight
      BY <2>15, <2>16
    <3>2. sh \in Seq(PaneIds)
      BY <2>4
    <3> QED
      BY ONLY <3>1, <3>2, LayoutAlike
  <2>18. AllDone(laid, sh) <=> AllDone(pn, sh)
    BY <2>4, <2>15, <2>16, Places DEF AllDone
  <2>19. \/ AllDone(laid, sh) /\ Writes(LayoutOf(laid, sh, fo, how))
         \/ ~AllDone(laid, sh) /\ Remember(LayoutOf(laid, sh, fo, how))
    BY <2>1, <2>17, <2>18
  <2>20. After(laid, Told(dn, laid), sh, fo)
    BY <2>1
  <2> DEFINE en == Told(dn, laid)
  <2>21. Wired(laid, en, On(sh)) /\ Sized(laid, en, On(sh)) /\ After(laid, en, sh, fo)
    BY <2>15, <2>20
  <2> HIDE DEF en
  <2> QED
    BY <1>1, <1>2, <2>6, <2>19, <2>21, AfterKeeps
<1> QED
  BY <1>10, <1>11

\* A pane's connection is gone: it is made again, or the pane is left as it was.
LEMMA TakeGoneKeeps ==
    ASSUME IInv, NEW c \in Conns, TakeGone(c)
    PROVE  IInv'
<1> DEFINE p == conn[c].pane
           tn == Taken(c)
           S == On(shown)
<1>1. /\ at = "idle" /\ conn[c].q # <<>> /\ ~Stale(c) /\ Head(conn[c].q).kind = "gone"
      /\ wish' = wish
      /\ \/ /\ pane[p].finished
            /\ After(pane, tn, shown, focus)
            /\ IF AllDone(pane, shown) THEN UNCHANGED saved ELSE UNCHANGED disk
         \/ /\ Unused # {}
            /\ After([pane EXCEPT ![p].conn = New],
                     [tn EXCEPT ![New] = Reading(pane[p].name, p, FALSE, pane[p].grid)],
                     shown, focus)
            /\ UNCHANGED disk
         \/ /\ After([pane EXCEPT ![p].frozen = TRUE], tn, shown, focus)
            /\ IF AllDone([pane EXCEPT ![p].frozen = TRUE], shown) THEN UNCHANGED saved ELSE UNCHANGED disk
  BY DEF TakeGone, Report, service
<1>2. Runs /\ ServiceInv' /\ ServiceInv
  BY <1>1 DEF Runs, IInv, ServiceInv
<1>3. /\ p \in S /\ p \in PaneIds /\ pane[p].conn = c /\ IsPane(pane[p])
      /\ pane[p].weight \in Weights
      /\ Goes(p, pane[p], conn) /\ pane[p].name \in Names /\ ~pane[p].closed
  BY <1>1, Fresher DEF Goes
<1>4. /\ Wired(pane, conn, S) /\ Row(shown, focus) /\ Sized(pane, conn, S)
  BY <1>2, FocusedIs
<1>5. pane = [r \in PaneIds |-> pane[r]] /\ S \subseteq PaneIds /\ \A d \in Conns : Line(conn[d])
  BY <1>4 DEF Wired
<1>6. Head(conn[c].q).kind # "renamed"
  BY <1>1
<1>7. p = conn[c].pane
  OBVIOUS
<1>8. CASE /\ pane[p].finished
           /\ After(pane, tn, shown, focus)
           /\ IF AllDone(pane, shown) THEN UNCHANGED saved ELSE UNCHANGED disk
  <2> DEFINE x == pane[p]
  <2>1. pane = [pane EXCEPT ![p] = x]
    BY <1>3, <1>5
  <2>2. Wired([pane EXCEPT ![p] = x], tn, S) /\ Sized([pane EXCEPT ![p] = x], tn, S)
    <3> HIDE DEF p
    <3> QED
      BY <1>1, <1>3, <1>6, <1>7, <1>8, TakenFresh
  <2>3. Wired(pane, tn, S) /\ Sized(pane, tn, S)
    BY <2>1, <2>2
  <2> HIDE DEF tn
  <2>4. \/ AllDone(pane, shown) /\ saved' = saved
        \/ UNCHANGED <<asked, saved, written>> /\ unkept \subseteq unkept'
    BY <1>8 DEF disk
  <2> QED
    BY <1>1, <1>2, <1>4, <1>8, <2>3, <2>4, AfterKeeps
<1>9. CASE /\ After([pane EXCEPT ![p].frozen = TRUE], tn, shown, focus)
           /\ IF AllDone([pane EXCEPT ![p].frozen = TRUE], shown) THEN UNCHANGED saved ELSE UNCHANGED disk
  <2> DEFINE x == [pane[p] EXCEPT !.frozen = TRUE]
             pn == [pane EXCEPT ![p] = x]
  <2>1. [pane EXCEPT ![p].frozen = TRUE] = pn
    BY Zenon
  <2>2. x = [name |-> pane[p].name, conn |-> pane[p].conn, ran |-> pane[p].ran,
             finished |-> pane[p].finished, frozen |-> TRUE, closed |-> pane[p].closed,
             modes |-> pane[p].modes, weight |-> pane[p].weight, rect |-> pane[p].rect,
             grid |-> pane[p].grid]
    BY <1>3, PaneFields
  <2> HIDE DEF x
  <2>3. /\ IsPane(x) /\ x.weight \in Weights /\ x.conn = c /\ ~x.closed
        /\ x.name = pane[p].name /\ x.rect = pane[p].rect /\ x.grid = pane[p].grid
        /\ x.finished = pane[p].finished /\ x.frozen /\ x.weight = pane[p].weight
    BY <1>3, <2>2 DEF IsPane
  <2>4. Wired(pn, tn, S) /\ Sized(pn, tn, S)
    <3> HIDE DEF p
    <3> QED
      BY <1>1, <1>6, <1>7, <2>3, TakenFresh
  <2>5. LayoutOf(pn, shown, focus, how) = LayoutOf(pane, shown, focus, how)
    BY <1>2, <2>3, LayoutSame
  <2> HIDE DEF tn, pn
  <2>6. \/ AllDone(pn, shown) /\ saved' = saved
        \/ UNCHANGED <<asked, saved, written>> /\ unkept \subseteq unkept'
    BY <1>9, <2>1 DEF disk
  <2>7. After(pn, tn, shown, focus)
    BY <1>9, <2>1
  <2> QED
    BY <1>1, <1>2, <1>4, <2>4, <2>5, <2>6, <2>7, AfterKeeps
<1>10. CASE /\ Unused # {}
            /\ After([pane EXCEPT ![p].conn = New],
                     [tn EXCEPT ![New] = Reading(pane[p].name, p, FALSE, pane[p].grid)],
                     shown, focus)
            /\ UNCHANGED disk
  <2> DEFINE d == New
             n == pane[p].name
             sz == pane[p].grid
             x == [pane[p] EXCEPT !.conn = d]
             pn == [pane EXCEPT ![p] = x]
             r == Reading(n, p, FALSE, sz)
             dn == [tn EXCEPT ![d] = r]
  <2>1. After(pn, dn, shown, focus) /\ UNCHANGED disk
    <3>1. [pane EXCEPT ![p].conn = New] = pn
      BY Zenon
    <3> HIDE DEF pn
    <3> QED
      BY <3>1, <1>10
  <2>2. d \in Conns /\ conn[d] = NoConn
    BY <1>10, NewIs
  <2> HIDE DEF d
  <2>3. d # c
    BY <1>1, <2>2, Empty
  <2>4. x = [name |-> pane[p].name, conn |-> d, ran |-> pane[p].ran,
             finished |-> pane[p].finished, frozen |-> pane[p].frozen, closed |-> pane[p].closed,
             modes |-> pane[p].modes, weight |-> pane[p].weight, rect |-> pane[p].rect,
             grid |-> pane[p].grid]
    BY <1>3, PaneFields
  <2> HIDE DEF x
  <2>5. /\ IsPane(x) /\ x.weight \in Weights /\ x.conn = d /\ ~x.closed
        /\ x.name = pane[p].name /\ x.rect = pane[p].rect /\ x.grid = pane[p].grid
        /\ x.weight = pane[p].weight
    BY <1>3, <2>4 DEF IsPane
  <2>6. Begun(r, n, p, sz)
    <3>1. n \in Names /\ p \in PaneIds
      BY <1>3
    <3> HIDE DEF n, p, sz
    <3> QED
      BY <1>2, <3>1, ReadingIs, Zenon
  <2> HIDE DEF r
  <2>7. /\ tn = [e \in Conns |-> tn[e]] /\ \A e \in Conns : Line(tn[e])
        /\ \A e \in Conns \ {c} : tn[e] = conn[e]
    BY <1>1, TakenOthers
  <2> HIDE DEF tn
  <2>8. dn = [e \in Conns |-> dn[e]] /\ dn[d] = r /\ \A e \in Conns \ {d} : dn[e] = tn[e]
    BY <2>2, <2>7
  <2> HIDE DEF dn
  <2>9. \A e \in Conns : Line(dn[e])
    BY <2>6, <2>7, <2>8 DEF Begun
  <2>10. \A e \in Conns : conn[e].pane \in S \ {p} => dn[e] = conn[e]
    <3>1. None \notin S
      BY <1>5, NoneIsNone
    <3> HIDE DEF S
    <3> QED
      BY <3>1, <2>2, <2>7, <2>8, Empty
  <2>11. Goes(p, x, dn)
    BY <1>3, <2>2, <2>5, <2>6, <2>8 DEF Goes, Begun
  <2>12. Becoming(conn, dn, S, S, p, x)
    <3> HIDE DEF p, S
    <3> QED
      BY <1>3, <1>5, <2>5, <2>8, <2>9, <2>10, <2>11 DEF Becoming
  <2>13. Wired(pn, dn, S) /\ Sized(pn, dn, S \ {p})
    <3>1. Sized(pane, conn, S \ {p})
      BY <1>4 DEF Sized
    <3> HIDE DEF p, S
    <3> QED
      BY <3>1, <1>4, <2>12, Replaced
  <2>14. pn[p] = x
    BY <1>3, <1>5
  <2>15. Sized(pn, dn, S)
    <3>1. HasRoom(x.rect) => x.grid = SizeOf(x.rect)
      BY <1>3, <1>4, <2>5 DEF Sized
    <3>2. dn[x.conn].size = x.grid
      BY <2>5, <2>6, <2>8 DEF Begun
    <3> HIDE DEF pn, p, S
    <3> QED
      BY <3>1, <3>2, <2>13, <2>14, SizedAlso
  <2>16. LayoutOf(pn, shown, focus, how) = LayoutOf(pane, shown, focus, how)
    BY <1>2, <2>5, LayoutSame
  <2> HIDE DEF pn
  <2>17. UNCHANGED <<asked, saved, written>> /\ unkept \subseteq unkept'
    BY <2>1 DEF disk
  <2> QED
    BY <1>1, <1>2, <1>4, <2>1, <2>13, <2>15, <2>16, <2>17, AfterKeeps
<1> QED
  BY <1>1, <1>8, <1>9, <1>10

----------------------------------------------------------------------------
(* The beginning of a session. *)

\* Where a search from below ends.
LEMMA Least ==
    ASSUME NEW U \in SUBSET Nat, U # {}
    PROVE  \E m \in U : \A j \in U : m <= j
<1>1. \E m \in U : \A j \in U : ~(<<j, m>> \in OpToRel(<, Nat))
  BY ONLY U # {}, U \in SUBSET Nat, WFMin, NatLessThanWellFounded
<1>2. \A j, m \in Nat : j < m => <<j, m>> \in OpToRel(<, Nat)
  BY DEF OpToRel
<1>3. \A j, m \in Nat : ~(j < m) => m <= j
  OBVIOUS
<1> QED
  BY <1>1, <1>2, <1>3

\* The m-th of a set of places is there, for each m up to how many there are.
LEMMA Numbered ==
    ASSUME NEW L \in Nat, NEW P \in SUBSET (1..L), NEW m \in 1..Cardinality(P)
    PROVE  \E k \in P : Cardinality({x \in P : x <= k}) = m
<1> DEFINE C(k) == {x \in P : x <= k}
           U == {k \in 0..L : m <= Cardinality(C(k))}
<1>1. IsFiniteSet(P) /\ Cardinality(P) \in Nat
  <2>1. IsFiniteSet(1..L)
    BY FS_Interval
  <2>2. IsFiniteSet(P)
    BY <2>1, FS_Subset
  <2> QED
    BY <2>2, FS_CardinalityType
<1>2. \A k \in 0..L : IsFiniteSet(C(k)) /\ Cardinality(C(k)) \in Nat
  <2> SUFFICES ASSUME NEW k \in 0..L PROVE IsFiniteSet(C(k)) /\ Cardinality(C(k)) \in Nat
    OBVIOUS
  <2>1. C(k) \in SUBSET P
    OBVIOUS
  <2> HIDE DEF C
  <2> QED
    BY <1>1, <2>1, FS_Subset, FS_CardinalityType
<1>3. C(L) = P /\ C(0) = {}
  <2>1. \A x \in P : x <= L /\ ~(x <= 0)
    OBVIOUS
  <2> QED
    BY <2>1
<1>4. ASSUME NEW k \in 1..L
      PROVE  C(k) = IF k \in P THEN C(k - 1) \cup {k} ELSE C(k - 1)
  <2>1. \A x \in P : x <= k <=> x <= k - 1 \/ x = k
    OBVIOUS
  <2>2. k <= k
    OBVIOUS
  <2>3. \A x : x \in C(k) <=> x \in C(k - 1) \/ (x = k /\ k \in P)
    BY <2>1, <2>2
  <2> HIDE DEF C
  <2> QED
    BY <2>3
<1> HIDE DEF C
<1>5. L \in U /\ U \subseteq Nat /\ U \subseteq 0..L
  BY <1>1, <1>3
<1>6. PICK k \in U : \A j \in U : k <= j
  <2> HIDE DEF U
  <2> QED
    BY <1>5, Least
<1>7. k # 0
  BY <1>3, <1>6, FS_EmptySet
<1>8. k \in 1..L /\ k - 1 \in 0..L /\ k - 1 \notin U
  BY <1>5, <1>6, <1>7
<1>9. Cardinality(C(k - 1)) < m /\ m <= Cardinality(C(k)) /\ m \in Nat
  BY <1>1, <1>2, <1>6, <1>8
<1>10. k \in P
  <2>1. C(k) # C(k - 1)
    BY <1>2, <1>8, <1>9
  <2> QED
    BY <2>1, <1>4, <1>8
<1>11. Cardinality(C(k)) = m
  <2>1. C(k) = C(k - 1) \cup {k}
    BY <1>4, <1>8, <1>10
  <2>2. IsFiniteSet(C(k - 1))
    BY <1>2, <1>8
  <2>3. \/ Cardinality(C(k)) = Cardinality(C(k - 1))
        \/ Cardinality(C(k)) = Cardinality(C(k - 1)) + 1
    BY <2>1, <2>2, FS_AddElement
  <2> QED
    BY <2>3, <1>2, <1>8, <1>9
<1> QED
  BY <1>10, <1>11 DEF C

\* Panes to open, one of them with the keyboard.
Arranged(r) ==
    /\ r.panes \in Seq([name : Names, weight : Weights])
    /\ r.focus \in 1..Len(r.panes)

\* A pane of that name is where it is said to be.
LEMMA PlaceInIs ==
    ASSUME NEW R, NEW panes \in Seq(R), NEW n
    PROVE  PlaceIn(panes, n) \in 0..Len(panes)
<1> DEFINE U == {i \in 1..Len(panes) : panes[i].name = n}
<1>1. DOMAIN panes = 1..Len(panes) /\ Len(panes) \in Nat
  BY LenProperties
<1>2. CASE U = {}
  <2>1. ~(\E i \in DOMAIN panes : panes[i].name = n)
    BY <1>1, <1>2
  <2> QED
    BY <1>1, <2>1 DEF PlaceIn
<1>3. CASE U # {}
  <2>1. PICK i \in U : \A j \in U : i <= j
    <3>1. U \in SUBSET Nat
      OBVIOUS
    <3> HIDE DEF U
    <3> QED
      BY <1>3, <3>1, Least
  <2>2. i \in DOMAIN panes /\ panes[i].name = n
    BY <1>1, <2>1
  <2>3. \A j \in 1..(i - 1) : panes[j].name # n
    <3> SUFFICES ASSUME NEW j \in 1..(i - 1), panes[j].name = n PROVE FALSE
      OBVIOUS
    <3>1. i \in 1..Len(panes)
      BY <2>1
    <3>2. j \in 1..Len(panes) /\ ~(i <= j)
      BY <1>1, <3>1
    <3> QED
      BY <2>1, <3>2
  <2>4. PlaceIn(panes, n) \in DOMAIN panes
    BY <2>2, <2>3 DEF PlaceIn
  <2> QED
    BY <1>1, <2>4
<1> QED
  BY <1>2, <1>3

\* There is room for one pane at least.
LEMMA RoomForOne ==
    ASSUME NEW ho, NEW sz \in Sizes
    PROVE  PaneRoom(ho, sz.cols, sz.rows) \in Nat /\ PaneRoom(ho, sz.cols, sz.rows) >= 1
<1>1. sz.cols \in Nat /\ sz.rows \in Nat
  BY PanesAssumption
<1> DEFINE a == IF ho = "rows" THEN sz.rows \div minPaneRows
                ELSE (sz.cols + 1) \div (minPaneCols + 1)
<1>2. a \in Int
  BY <1>1 DEF minPaneRows, minPaneCols
<1>3. PaneRoom(ho, sz.cols, sz.rows) = Larger(a, 1)
  BY DEF PaneRoom
<1> HIDE DEF a
<1> QED
  BY <1>2, <1>3 DEF Larger

\* What fits of an arrangement, and the place in it of the pane asked for.
LEMMA RestorableIs ==
    ASSUME NEW R, NEW panes \in Seq(R), NEW i \in 1..Len(panes), NEW room \in Nat, room >= 1
    PROVE  LET fit == Restorable(panes, i, room)
               j == IF i > room THEN room ELSE i
           IN  fit \in Seq(R) /\ j \in 1..Len(fit)
<1> DEFINE fit == Restorable(panes, i, room)
           j == IF i > room THEN room ELSE i
<1>1. Len(panes) \in Nat
  BY LenProperties
<1>2. CASE Len(panes) <= room
  <2>1. fit = panes /\ j = i
    BY <1>1, <1>2 DEF Restorable
  <2> QED
    BY <2>1
<1>3. CASE ~(Len(panes) <= room) /\ i > room
  <2> DEFINE s == SubSeq(panes, 1, room - 1)
             e == panes[i]
  <2>1. e \in R
    BY ElementOfSeq
  <2>2. s \in Seq(R) /\ Len(s) = room - 1
    <3>1. \A k \in 1..(room - 1) : k \in 1..Len(panes)
      BY <1>1, <1>3
    <3> QED
      BY <3>1, <1>1, <1>3, SubSeqProperties
  <2>3. fit = Append(s, e) /\ j = room
    BY <1>3 DEF Restorable
  <2> HIDE DEF s, e, fit
  <2>4. fit \in Seq(R) /\ Len(fit) = Len(s) + 1
    BY <2>1, <2>2, <2>3, AppendProperties
  <2>5. j \in 1..Len(fit)
    BY <2>2, <2>3, <2>4
  <2> QED
    BY <2>4, <2>5 DEF fit
<1>4. CASE ~(Len(panes) <= room) /\ ~(i > room)
  <2> DEFINE s == SubSeq(panes, 1, room)
  <2>1. s \in Seq(R) /\ Len(s) = room
    <3>1. \A k \in 1..room : k \in 1..Len(panes)
      BY <1>1, <1>4
    <3> QED
      BY <3>1, <1>1, <1>4, SubSeqProperties
  <2>2. fit = s /\ j = i
    BY <1>4 DEF Restorable
  <2> HIDE DEF s, fit
  <2>3. j \in 1..Len(fit)
    BY <1>4, <2>1, <2>2
  <2> QED
    BY <2>1, <2>2, <2>3 DEF fit
<1> QED
  BY <1>2, <1>3, <1>4

\* What is opened again is panes side by side, one of which has the keyboard.
LEMMA RestoredIs ==
    ASSUME NEW layout, layout.panes \in Seq([name : Names, weight : Weights]), NEW n,
           PlaceIn(layout.panes, n) # 0, NEW sz \in Sizes
    PROVE  Arranged(Restored(layout, n, sz))
<1> DEFINE R == [name : Names, weight : Weights]
           i == PlaceIn(layout.panes, n)
           room == PaneRoom(layout.how, sz.cols, sz.rows)
           fit == Restorable(layout.panes, i, room)
           j == IF i > room THEN room ELSE i
           Opens(k) == k = j \/ svc[fit[k].name] # "none"
           places == {k \in DOMAIN fit : Opens(k)}
           UpTo(k) == Cardinality({x \in places : x <= k})
           ps == [m \in 1..Cardinality(places) |-> fit[CHOOSE k \in places : UpTo(k) = m]]
<1>1. Restored(layout, n, sz) = [panes |-> ps, focus |-> UpTo(j)]
  BY Zenon DEF Restored
<1>2. layout.panes \in Seq(R) /\ Len(layout.panes) \in Nat
  BY LenProperties
<1>3. i \in 1..Len(layout.panes)
  <2>1. i \in 0..Len(layout.panes)
    BY <1>2, PlaceInIs
  <2> QED
    BY <1>2, <2>1
<1> HIDE DEF i
<1>4. room \in Nat /\ room >= 1
  BY RoomForOne
<1> HIDE DEF R, room
<1>5. fit \in Seq(R) /\ j \in 1..Len(fit)
  BY <1>2, <1>3, <1>4, RestorableIs
<1> HIDE DEF fit, j
<1>6. DOMAIN fit = 1..Len(fit) /\ Len(fit) \in Nat
  BY <1>5, LenProperties
<1>7. places \in SUBSET (1..Len(fit)) /\ j \in places
  BY <1>5, <1>6
<1> HIDE DEF places
<1>8. IsFiniteSet(places) /\ Cardinality(places) \in Nat
  <2>1. IsFiniteSet(1..Len(fit))
    BY <1>6, FS_Interval
  <2>2. IsFiniteSet(places)
    BY <1>7, <2>1, FS_Subset
  <2> QED
    BY <2>2, FS_CardinalityType
<1>9. UpTo(j) \in 1..Cardinality(places)
  <2> DEFINE P == {x \in places : x <= j}
  <2>1. P \in SUBSET places /\ P # {}
    BY <1>5, <1>7
  <2> HIDE DEF P
  <2>2. IsFiniteSet(P) /\ Cardinality(P) <= Cardinality(places)
    BY <1>8, <2>1, FS_Subset
  <2>3. Cardinality(P) \in Nat /\ Cardinality(P) # 0
    BY <2>1, <2>2, FS_CardinalityType, FS_EmptySet
  <2>4. Cardinality(P) \in 1..Cardinality(places)
    BY <1>8, <2>2, <2>3
  <2> QED
    BY <2>4 DEF P
<1>10. \A m \in 1..Cardinality(places) : (CHOOSE k \in places : UpTo(k) = m) \in places
  <2> SUFFICES ASSUME NEW m \in 1..Cardinality(places)
               PROVE  (CHOOSE k \in places : UpTo(k) = m) \in places
    OBVIOUS
  <2>1. \E k \in places : UpTo(k) = m
    BY <1>6, <1>7, Numbered
  <2> HIDE DEF UpTo
  <2> QED
    BY <2>1
<1>11. \A m \in 1..Cardinality(places) : fit[CHOOSE k \in places : UpTo(k) = m] \in R
  <2>1. \A k \in places : fit[k] \in R
    BY <1>5, <1>7, ElementOfSeq
  <2> HIDE DEF UpTo
  <2> QED
    BY <1>10, <2>1
<1> HIDE DEF UpTo
<1>12. ps \in Seq(R) /\ Len(ps) = Cardinality(places)
  <2> DEFINE N == Cardinality(places)
  <2>1. ps \in [1..N -> R] /\ N \in Nat
    BY <1>8, <1>11
  <2> HIDE DEF ps, N
  <2>2. ps \in Seq(R) /\ Len(ps) = N
    BY <2>1
  <2> QED
    BY <2>2 DEF N
<1> HIDE DEF ps
<1>13. Arranged([panes |-> ps, focus |-> UpTo(j)])
  BY <1>9, <1>12 DEF Arranged, R
<1> QED
  BY <1>1, <1>13, Zenon

\* And so is the pane that a session begins with where there was nothing.
LEMMA AloneIs == ASSUME NEW n \in Names PROVE Arranged(Alone(n))
<1> DEFINE e == [name |-> n, weight |-> InitialWeight]
<1>1. e \in [name : Names, weight : Weights]
  BY DEF InitialWeight, Weights
<1> HIDE DEF e
<1>2. <<e>> \in Seq([name : Names, weight : Weights]) /\ Len(<<e>>) = 1
  BY <1>1
<1> DEFINE s == <<e>>
<1> HIDE DEF s
<1>3. Arranged([panes |-> s, focus |-> 1])
  BY <1>2 DEF Arranged, s
<1> QED
  BY <1>3, Zenon DEF Alone, e, s

\* The panes that a session begins with.
AtFirst(n, c, w, grid, ran) ==
    [NoPane EXCEPT !.name = n, !.conn = c, !.weight = w, !.grid = grid, !.ran = ran]

LEMMA AtFirstIs ==
    ASSUME NEW n, NEW c, NEW w, NEW grid, NEW ran
    PROVE  AtFirst(n, c, w, grid, ran) = InPlace(n, c, ran, w, NoPane.rect, grid)
<1> DEFINE e == NoPane
           x == [e EXCEPT !.name = n]
           y == [x EXCEPT !.conn = c]
           z == [y EXCEPT !.weight = w]
           g == [z EXCEPT !.grid = grid]
           u == [g EXCEPT !.ran = ran]
<1>1. AtFirst(n, c, w, grid, ran) = u
  BY Zenon DEF AtFirst
<1>2. IsPane(NoPane)
  BY Empty
<1> HIDE DEF e
<1>3. IsPane(e) /\ e = NoPane
  BY <1>2 DEF e
<1>4. x = [name |-> n, conn |-> e.conn, ran |-> e.ran, finished |-> e.finished,
           frozen |-> e.frozen, closed |-> e.closed, modes |-> e.modes,
           weight |-> e.weight, rect |-> e.rect, grid |-> e.grid]
  <2>1. IsPane(e)
    BY <1>3
  <2> QED
    BY ONLY <2>1, PaneFields
<1> HIDE DEF x
<1>5. IsPane(x)
  BY <1>4 DEF IsPane
<1>6. y = [name |-> n, conn |-> c, ran |-> e.ran, finished |-> e.finished,
           frozen |-> e.frozen, closed |-> e.closed, modes |-> e.modes,
           weight |-> e.weight, rect |-> e.rect, grid |-> e.grid]
  <2>1. y = [name |-> x.name, conn |-> c, ran |-> x.ran, finished |-> x.finished,
             frozen |-> x.frozen, closed |-> x.closed, modes |-> x.modes,
             weight |-> x.weight, rect |-> x.rect, grid |-> x.grid]
    BY <1>5, PaneFields
  <2> HIDE DEF y
  <2> QED
    BY <1>4, <2>1
<1> HIDE DEF y
<1>7. IsPane(y)
  BY <1>6 DEF IsPane
<1>8. z = [name |-> n, conn |-> c, ran |-> e.ran, finished |-> e.finished,
           frozen |-> e.frozen, closed |-> e.closed, modes |-> e.modes,
           weight |-> w, rect |-> e.rect, grid |-> e.grid]
  <2>1. z = [name |-> y.name, conn |-> y.conn, ran |-> y.ran, finished |-> y.finished,
             frozen |-> y.frozen, closed |-> y.closed, modes |-> y.modes,
             weight |-> w, rect |-> y.rect, grid |-> y.grid]
    BY <1>7, PaneFields
  <2> HIDE DEF z
  <2> QED
    BY <1>6, <2>1
<1> HIDE DEF z
<1>9. IsPane(z)
  BY <1>8 DEF IsPane
<1>10. g = [name |-> n, conn |-> c, ran |-> e.ran, finished |-> e.finished,
            frozen |-> e.frozen, closed |-> e.closed, modes |-> e.modes,
            weight |-> w, rect |-> e.rect, grid |-> grid]
  <2>1. g = [name |-> z.name, conn |-> z.conn, ran |-> z.ran, finished |-> z.finished,
             frozen |-> z.frozen, closed |-> z.closed, modes |-> z.modes,
             weight |-> z.weight, rect |-> z.rect, grid |-> grid]
    BY <1>9, PaneFields
  <2> HIDE DEF g
  <2> QED
    BY <1>8, <2>1
<1> HIDE DEF g
<1>11. IsPane(g)
  BY <1>10 DEF IsPane
<1>12. u = InPlace(n, c, ran, w, e.rect, grid)
  <2>1. u = [name |-> g.name, conn |-> g.conn, ran |-> ran, finished |-> g.finished,
             frozen |-> g.frozen, closed |-> g.closed, modes |-> g.modes,
             weight |-> g.weight, rect |-> g.rect, grid |-> g.grid]
    BY <1>11, PaneFields
  <2> HIDE DEF u
  <2> QED
    BY <1>3, <1>10, <2>1 DEF InPlace
<1> HIDE DEF u
<1> QED
  BY <1>1, <1>12, Zenon DEF e

\* Pane x is one of them: n over connection c, and nothing has been drawn on it.
First(x, n, c, w) ==
    /\ IsPane(x) /\ x.name = n /\ x.conn = c /\ x.weight = w /\ ~x.closed /\ x.modes = {}

\* It is, whatever is known of its service.
LEMMA IsFirst ==
    ASSUME NEW n, NEW c, NEW w, NEW ran, NEW rect, NEW grid
    PROVE  First(InPlace(n, c, ran, w, rect, grid), n, c, w)
<1>1. ~NoPane.closed /\ NoPane.modes = {}
  BY DEF NoPane
<1> QED
  BY <1>1 DEF First, InPlace, IsPane

\* A pane each and a connection each for what L lists, and all of them with a place.
Opening(L, ps, cs, p0, pn, cn) ==
    /\ L \in Seq([name : Names, weight : Weights])
    /\ ps \in [1..Len(L) -> PaneIds] /\ IsInjective(ps)
    /\ cs \in [1..Len(L) -> Conns] /\ IsInjective(cs)
    /\ p0 = [p \in PaneIds |-> p0[p]] /\ Placed(p0, pn, On(ps))
    /\ \A p \in PaneIds : (\A i \in 1..Len(L) : ps[i] # p) => p0[p] = NoPane
    /\ \A i \in 1..Len(L) : First(p0[ps[i]], L[i].name, cs[i], L[i].weight)
    /\ cn = [c \in Conns |-> cn[c]]
    /\ \A c \in Conns : (\A i \in 1..Len(L) : cs[i] # c) => cn[c] = NoConn
    /\ \A i \in 1..Len(L) : cn[cs[i]] = Reading(L[i].name, ps[i], TRUE, SizeOf(pn[ps[i]].rect))

\* They go by their connections.
LEMMA Opened ==
    ASSUME ServiceInv, NEW L, NEW ps, NEW cs, NEW p0, NEW pn, NEW cn,
           Opening(L, ps, cs, p0, pn, cn)
    PROVE  /\ ps \in Seq(PaneIds) /\ Len(ps) = Len(L)
           /\ \A i, j \in 1..Len(L) : ps[i] = ps[j] => i = j
           /\ Wired(pn, cn, On(ps)) /\ Sized(pn, cn, On(ps))
           /\ \A i \in 1..Len(L) : pn[ps[i]].modes = {}
<1> DEFINE K == Len(L)
           S == On(ps)
<1>1. K \in Nat /\ \A i \in 1..K : L[i].name \in Names /\ L[i].weight \in Weights
  <2>1. L \in Seq([name : Names, weight : Weights])
    BY DEF Opening
  <2>2. \A i \in 1..K : L[i] \in [name : Names, weight : Weights]
    BY <2>1, ElementOfSeq
  <2> QED
    BY <2>1, <2>2, LenProperties
<1>2. ps \in Seq(PaneIds) /\ Len(ps) = K
  <2> HIDE DEF K
  <2>1. ps \in [1..K -> PaneIds] /\ K \in Nat
    BY <1>1 DEF K, Opening
  <2> QED
    BY ONLY <2>1
<1>3. /\ \A i, j \in 1..K : ps[i] = ps[j] => i = j
      /\ \A i, j \in 1..K : cs[i] = cs[j] => i = j
      /\ \A i \in 1..K : cs[i] \in Conns /\ ps[i] \in PaneIds
  BY DEF Opening, IsInjective
<1>4. /\ S \subseteq PaneIds /\ \A i \in 1..K : ps[i] \in S
      /\ \A p \in S : \E i \in 1..K : p = ps[i]
  BY <1>2, <1>3 DEF On
<1>5. ASSUME NEW i \in 1..K
      PROVE  Begun(cn[cs[i]], L[i].name, ps[i], SizeOf(pn[ps[i]].rect))
  <2>1. cn[cs[i]] = Reading(L[i].name, ps[i], TRUE, SizeOf(pn[ps[i]].rect))
    BY DEF Opening
  <2> DEFINE n == L[i].name
             p == ps[i]
             sz == SizeOf(pn[ps[i]].rect)
  <2>2. n \in Names /\ p \in PaneIds
    BY <1>1, <1>3
  <2> HIDE DEF n, p, sz
  <2>3. Begun(Reading(n, p, TRUE, sz), n, p, sz)
    BY <2>2, ReadingIs, Zenon
  <2> QED
    BY <2>1, <2>3, Zenon DEF n, p, sz
<1>6. /\ pn = [p \in PaneIds |-> pn[p]]
      /\ \A p \in PaneIds \ S : pn[p] = p0[p]
      /\ \A p \in S : HasRoom(pn[p].rect) => pn[p].grid = SizeOf(pn[p].rect)
      /\ \A p \in PaneIds :
            /\ IsPane(pn[p]) /\ pn[p].name = p0[p].name /\ pn[p].conn = p0[p].conn
            /\ pn[p].closed = p0[p].closed /\ pn[p].modes = p0[p].modes
            /\ pn[p].weight = p0[p].weight
  BY DEF Opening, Placed
<1>7. ASSUME NEW i \in 1..K
      PROVE  /\ pn[ps[i]].name = L[i].name /\ pn[ps[i]].conn = cs[i] /\ ~pn[ps[i]].closed
             /\ pn[ps[i]].modes = {} /\ pn[ps[i]].weight \in Weights
  <2>1. First(p0[ps[i]], L[i].name, cs[i], L[i].weight)
    BY DEF Opening
  <2>2. ps[i] \in PaneIds /\ L[i].weight \in Weights
    BY <1>1, <1>3
  <2> QED
    BY <2>1, <2>2, <1>6 DEF First
<1>8. ASSUME NEW p \in PaneIds \ S PROVE pn[p] = NoPane
  <2>1. \A i \in 1..K : ps[i] # p
    BY <1>4
  <2>2. p0[p] = NoPane
    BY <2>1 DEF Opening
  <2> QED
    BY <1>6, <2>2
<1>9. \A c \in Conns : Line(cn[c])
  <2> SUFFICES ASSUME NEW c \in Conns PROVE Line(cn[c])
    OBVIOUS
  <2>1. CASE \E i \in 1..K : cs[i] = c
    <3>1. PICK i \in 1..K : cs[i] = c
      BY <2>1
    <3>2. Begun(cn[c], L[i].name, ps[i], SizeOf(pn[ps[i]].rect))
      BY <3>1, <1>5
    <3> QED
      BY <3>2 DEF Begun
  <2>2. CASE ~(\E i \in 1..K : cs[i] = c)
    <3>1. cn[c] = NoConn
      BY <2>2 DEF Opening
    <3> QED
      BY <3>1, Empty
  <2> QED
    BY <2>1, <2>2
<1>10. ASSUME NEW p \in S
       PROVE  Goes(p, pn[p], cn) /\ cn[pn[p].conn].size = SizeOf(pn[p].rect)
  <2>1. PICK i \in 1..K : p = ps[i]
    BY <1>4
  <2>2. Begun(cn[cs[i]], L[i].name, ps[i], SizeOf(pn[ps[i]].rect))
    BY <1>5
  <2> DEFINE x == pn[p]
             y == cn[cs[i]]
  <2>3. /\ x.name = L[i].name /\ x.conn = cs[i] /\ ~x.closed /\ L[i].name \in Names
        /\ cs[i] \in Conns
    BY <2>1, <1>1, <1>3, <1>7
  <2>4. Begun(y, x.name, p, SizeOf(x.rect)) /\ y = cn[x.conn]
    BY <2>1, <2>2, <2>3
  <2> HIDE DEF x, y
  <2>5. Goes(p, x, cn) /\ cn[x.conn].size = SizeOf(x.rect)
    BY <2>3, <2>4 DEF Goes, Begun
  <2> QED
    BY <2>5 DEF x
<1>11. \A p \in PaneIds : IsPane(pn[p]) /\ pn[p].weight \in Weights
  <2> SUFFICES ASSUME NEW p \in PaneIds PROVE pn[p].weight \in Weights
    BY <1>6
  <2>1. CASE p \in S
    BY <2>1, <1>4, <1>7
  <2>2. CASE p \notin S
    BY <2>2, <1>8, Empty
  <2> QED
    BY <2>1, <2>2
<1>12. \A p \in PaneIds \ S : Off(pn[p])
  BY <1>8, Empty
<1>13. cn = [c \in Conns |-> cn[c]]
  BY DEF Opening
<1>14. Wired(pn, cn, S)
  <2> HIDE DEF S
  <2> QED
    BY ONLY <1>4, <1>6, <1>9, <1>10, <1>11, <1>12, <1>13 DEF Wired
<1>15. Sized(pn, cn, S)
  <2> HIDE DEF S
  <2> QED
    BY <1>6, <1>10 DEF Sized
<1> QED
  BY <1>2, <1>3, <1>7, <1>14, <1>15

\* A session begins.
LEMMA BeginKeeps ==
    ASSUME IInv, NEW n \in Names, Begin(n)
    PROVE  IInv'
<1> DEFINE used == PlaceIn(saved[n].panes, n) # 0
           r == IF used THEN Restored(saved[n], n, Looked) ELSE Alone(n)
           ho == IF used THEN saved[n].how ELSE "columns"
           Choices(T) == {f \in [DOMAIN r.panes -> T] : IsInjective(f)}
           ps == CHOOSE f \in Choices(UnusedPanes) : TRUE
           cs == CHOOSE f \in Choices(Unused) : TRUE
           Which(p) == CHOOSE i \in DOMAIN ps : ps[i] = p
           Ran(i) == svc[r.panes[i].name] = "running" /\ (i # r.focus \/ saved[n] = NoLayout)
           One(i) == [NoPane EXCEPT !.name = r.panes[i].name, !.conn = cs[i],
                                    !.weight = r.panes[i].weight, !.grid = Looked,
                                    !.ran = Ran(i)]
           p0 == [p \in PaneIds |-> IF \E i \in DOMAIN ps : ps[i] = p THEN One(Which(p))
                                    ELSE NoPane]
           pn == Laid(p0, ps, ho, Looked)
           cn == [c \in Conns |->
                    IF \E i \in DOMAIN cs : cs[i] = c
                    THEN LET i == CHOOSE i \in DOMAIN cs : cs[i] = c
                         IN  Reading(r.panes[i].name, ps[i], TRUE, SizeOf(pn[ps[i]].rect))
                    ELSE NoConn]
           layout == LayoutOf(pn, ps, r.focus, ho)
<1>1. /\ at \in {"out", "between"}
      /\ known' = Looked
      /\ missed' = (missed /\ at = "between")
      /\ at' = "idle" /\ owed' = FALSE /\ window' = window /\ winch' = winch
      /\ wish' = wish
  BY DEF Begin, service
<1>2. Paint({})
  BY DEF Begin
<1>3. /\ Choices(UnusedPanes) # {} /\ Choices(Unused) # {}
      /\ Shows(pn, cn, ps, r.focus, ho)
      /\ asked' = n /\ written' = layout
      /\ saved' \in Write(n, layout, count.sessions + 1)
      /\ \E left : unkept' = (IF saved'[n] = layout THEN {} ELSE {"refused"}) \cup left
  BY Zenon DEF Begin
<1>4. Looked \in Sizes
  BY DEF IInv, WindowInv, Looked
<1>5. Arranged(r)
  <2>1. CASE used
    <3>1. saved[n].panes \in Seq([name : Names, weight : Weights])
      BY DEF IInv, DiskInv, Arrangements
    <3>2. Arranged(Restored(saved[n], n, Looked))
      BY <2>1, <3>1, <1>4, RestoredIs
    <3> QED
      BY <2>1, <3>2
  <2>2. CASE ~used
    BY <2>2, AloneIs
  <2> QED
    BY <2>1, <2>2
<1> HIDE DEF used, r, ho, One, Ran
<1>6. /\ r.panes \in Seq([name : Names, weight : Weights]) /\ r.focus \in 1..Len(r.panes)
      /\ DOMAIN r.panes = 1..Len(r.panes)
  BY <1>5, LenProperties DEF Arranged
<1>7. ps \in [1..Len(r.panes) -> UnusedPanes] /\ IsInjective(ps)
  <2>1. ps \in Choices(UnusedPanes)
    <3> HIDE DEF Choices
    <3> QED
      BY <1>3
  <2> HIDE DEF ps
  <2> QED
    BY <2>1, <1>6
<1>8. cs \in [1..Len(r.panes) -> Unused] /\ IsInjective(cs)
  <2>1. cs \in Choices(Unused)
    <3> HIDE DEF Choices
    <3> QED
      BY <1>3
  <2> HIDE DEF cs
  <2> QED
    BY <2>1, <1>6
<1> HIDE DEF ps, cs
<1> DEFINE L == r.panes
<1>9. ps \in [1..Len(L) -> PaneIds] /\ cs \in [1..Len(L) -> Conns]
  BY <1>7, <1>8 DEF UnusedPanes, Unused
<1>10. DOMAIN ps = 1..Len(L) /\ DOMAIN cs = 1..Len(L)
  BY <1>7, <1>8
<1>11. /\ \A i, j \in 1..Len(L) : ps[i] = ps[j] => i = j
       /\ \A i, j \in 1..Len(L) : cs[i] = cs[j] => i = j
  BY <1>7, <1>8, <1>10 DEF IsInjective
<1>12. ASSUME NEW i \in 1..Len(L)
       PROVE  First(One(i), L[i].name, cs[i], L[i].weight)
  <2> DEFINE m == L[i].name
             c == cs[i]
             w == L[i].weight
             ran == Ran(i)
             g == Looked
  <2>1. One(i) = AtFirst(m, c, w, g, ran)
    BY Zenon DEF One, AtFirst
  <2> HIDE DEF m, c, w, ran, g
  <2>2. One(i) = InPlace(m, c, ran, w, NoPane.rect, g)
    BY <2>1, AtFirstIs
  <2>3. First(One(i), m, c, w)
    BY <2>2, IsFirst, Zenon
  <2> QED
    BY <2>3, Zenon DEF m, c, w
<1>13. p0 = [p \in PaneIds |-> p0[p]]
  BY Zenon
<1>14. \A p \in PaneIds : (\A i \in 1..Len(L) : ps[i] # p) => p0[p] = NoPane
  BY <1>10
<1>15. ASSUME NEW i \in 1..Len(L)
       PROVE  First(p0[ps[i]], L[i].name, cs[i], L[i].weight)
  <2>1. ps[i] \in PaneIds /\ i \in DOMAIN ps
    BY <1>9, <1>10
  <2>2. Which(ps[i]) = i
    <3>1. Which(ps[i]) \in DOMAIN ps /\ ps[Which(ps[i])] = ps[i]
      BY <2>1
    <3> HIDE DEF Which
    <3> QED
      BY <3>1, <1>10, <1>11
  <2> HIDE DEF Which
  <2>3. p0[ps[i]] = One(i)
    BY <2>1, <2>2
  <2> QED
    BY <2>3, <1>12
<1> HIDE DEF p0
<1>16. IsPane(NoPane) /\ \A p \in PaneIds : IsPane(p0[p])
  <2>1. IsPane(NoPane)
    BY Empty
  <2>2. ASSUME NEW p \in PaneIds PROVE IsPane(p0[p])
    <3>1. CASE \A i \in 1..Len(L) : ps[i] # p
      BY <3>1, <2>1, <1>14
    <3>2. CASE ~(\A i \in 1..Len(L) : ps[i] # p)
      BY <3>2, <1>15 DEF First
    <3> QED
      BY <3>1, <3>2
  <2> QED
    BY <2>1, <2>2
<1>17. ps \in Seq(PaneIds)
  <2> DEFINE K == Len(L)
  <2>1. ps \in [1..K -> PaneIds] /\ K \in Nat
    BY <1>6, <1>9, LenProperties
  <2> HIDE DEF K
  <2> QED
    BY ONLY <2>1
<1>18. Placed(p0, pn, On(ps))
  BY <1>13, <1>16, <1>17, LaidOut
<1> HIDE DEF pn
<1>19. cn = [c \in Conns |-> cn[c]]
  BY Zenon
<1>20. \A c \in Conns : (\A i \in 1..Len(L) : cs[i] # c) => cn[c] = NoConn
  BY <1>10
<1>21. ASSUME NEW i \in 1..Len(L)
       PROVE  cn[cs[i]] = Reading(L[i].name, ps[i], TRUE, SizeOf(pn[ps[i]].rect))
  <2> DEFINE Whose(c) == CHOOSE j \in DOMAIN cs : cs[j] = c
  <2>1. cs[i] \in Conns /\ i \in DOMAIN cs
    BY <1>9, <1>10
  <2>2. Whose(cs[i]) = i
    <3>1. Whose(cs[i]) \in DOMAIN cs /\ cs[Whose(cs[i])] = cs[i]
      BY <2>1
    <3> HIDE DEF Whose
    <3> QED
      BY <3>1, <1>10, <1>11
  <2>3. cn[cs[i]] = LET j == Whose(cs[i])
                    IN  Reading(r.panes[j].name, ps[j], TRUE, SizeOf(pn[ps[j]].rect))
    BY <2>1, Zenon
  <2> HIDE DEF Whose
  <2> QED
    BY <2>2, <2>3
<1> HIDE DEF cn
<1>22. /\ Len(ps) = Len(L) /\ Wired(pn, cn, On(ps)) /\ Sized(pn, cn, On(ps))
       /\ \A i \in 1..Len(L) : pn[ps[i]].modes = {}
  <2>1. ServiceInv
    BY DEF IInv
  <2>2. L \in Seq([name : Names, weight : Weights])
    BY <1>6
  <2> HIDE DEF L
  <2>3. IsInjective(ps) /\ IsInjective(cs)
    BY <1>7, <1>8
  <2>4. Opening(L, ps, cs, p0, pn, cn)
    BY <2>2, <2>3, <1>9, <1>13, <1>14, <1>15, <1>18, <1>19, <1>20, <1>21, Zenon DEF Opening
  <2> QED
    BY ONLY <2>1, <2>4, Opened
<1>23. Row(ps, r.focus)
  BY <1>6, <1>11, <1>17, <1>22 DEF Row
<1>24. /\ Wired(pane', conn', On(shown')) /\ Row(shown', focus')
       /\ Sized(pane', conn', On(shown'))
       /\ Focused'.modes = {}
       /\ LayoutOf(pane', shown', focus', how') = layout
  <2>1. /\ Wired(pane', conn', On(shown')) /\ Row(shown', focus')
        /\ Sized(pane', conn', On(shown'))
        /\ Focused' = pane'[ps[r.focus]] /\ pane'[ps[r.focus]] = pn[ps[r.focus]]
        /\ LayoutOf(pane', shown', focus', how') = LayoutOf(pn, ps, r.focus, ho)
    BY <1>3, <1>22, <1>23, ShowsKeeps
  <2> QED
    BY <2>1, <1>6, <1>22
<1>25. layout.panes \in Seq([name : Names, weight : Weights])
  BY <1>17, <1>22, LayoutPanesKnown
<1> HIDE DEF layout
<1>26. Runs' /\ ViewInv' /\ ServiceInv'
  BY <1>1, <1>24 DEF Runs, ViewInv, ServiceInv, IInv
<1>27. DiskInv'
  <2>1. Arrangements(saved)
    BY DEF IInv, DiskInv
  <2>2. Arrangements(saved')
    BY <2>1, <1>3, <1>25, WriteKeeps
  <2>3. "refused" \notin unkept' => saved'[n] = layout
    BY <1>3
  <2> QED
    BY <2>2, <2>3, <1>3, <1>24 DEF DiskInv
<1>28. ScreenInv'
  <2>1. Differs(term, told) \subseteq askew
    BY DEF IInv, ScreenInv
  <2>2. told' = {} /\ Differs(term', told') \subseteq askew'
    BY <1>2, <2>1, Painted
  <2> QED
    BY <1>1, <1>24, <2>2 DEF ScreenInv
<1>29. WindowInv'
  BY <1>1, <1>4 DEF IInv, WindowInv, Looked
<1> QED
  BY <1>26, <1>27, <1>28, <1>29 DEF IInv

----------------------------------------------------------------------------
(* How panes share the screen out. *)

\* What holds of none and goes on holding with one more holds of each number up to L.
LEMMA OneMore ==
    ASSUME NEW L \in Nat, NEW G, 0 \in G, \A i \in 1..L : i - 1 \in G => i \in G
    PROVE  0..L \subseteq G
<1> DEFINE U == {i \in 0..L : i \notin G}
<1> SUFFICES ASSUME U # {} PROVE FALSE
  OBVIOUS
<1>1. U \in SUBSET Nat
  OBVIOUS
<1>2. PICK m \in U : \A j \in U : m <= j
  <2> HIDE DEF U
  <2> QED
    BY <1>1, Least
<1>3. m \in 1..L /\ m - 1 \in 0..L /\ m \notin G
  BY <1>2
<1>4. m - 1 \notin U
  <2>1. ~(m <= m - 1)
    BY <1>3
  <2> HIDE DEF U
  <2> QED
    BY <2>1, <1>2
<1> QED
  BY <1>3, <1>4

\* The sums of the first elements are what they say they are.
LEMMA SumIs ==
    ASSUME NEW s, Len(s) \in Nat
    PROVE  SumTo(s) = [i \in 0..Len(s) |-> IF i = 0 THEN 0 ELSE SumTo(s)[i - 1] + s[i]]
<1> DEFINE Adds(g, n) == g = [i \in 0..n |-> IF i = 0 THEN 0 ELSE g[i - 1] + s[i]]
           G == {n \in 0..Len(s) : \E g : Adds(g, n)}
<1>1. 0 \in G
  <2>1. Adds([i \in 0..0 |-> 0], 0)
    OBVIOUS
  <2>2. 0 \in 0..Len(s)
    OBVIOUS
  <2> HIDE DEF Adds
  <2> QED
    BY <2>1, <2>2
<1>2. ASSUME NEW n \in 1..Len(s), n - 1 \in G PROVE n \in G
  <2>1. PICK g : Adds(g, n - 1)
    BY <1>2
  <2> DEFINE h == [i \in 0..n |-> IF i = n THEN g[n - 1] + s[n] ELSE g[i]]
  <2>2. /\ \A i \in 0..(n - 1) : g[i] = IF i = 0 THEN 0 ELSE g[i - 1] + s[i]
        /\ n \in Nat /\ n # 0
    BY <2>1
  <2>3. \A i \in 0..n : h[i] = IF i = 0 THEN 0 ELSE h[i - 1] + s[i]
    <3> SUFFICES ASSUME NEW i \in 0..n PROVE h[i] = IF i = 0 THEN 0 ELSE h[i - 1] + s[i]
      OBVIOUS
    <3>1. CASE i = n
      <4>1. i - 1 \in 0..n /\ i - 1 # n
        BY <2>2, <3>1
      <4> QED
        BY <2>2, <3>1, <4>1
    <3>2. CASE i # n /\ i # 0
      <4>1. i - 1 \in 0..n /\ i - 1 # n /\ i \in 0..(n - 1)
        BY <3>2
      <4> QED
        BY <2>2, <3>2, <4>1
    <3>3. CASE i # n /\ i = 0
      BY <2>2, <3>3
    <3> QED
      BY <3>1, <3>2, <3>3
  <2>4. h = [i \in 0..n |-> h[i]]
    OBVIOUS
  <2> HIDE DEF h
  <2>5. Adds(h, n)
    BY <2>3, <2>4
  <2> HIDE DEF Adds
  <2> QED
    BY <2>5
<1>3. Len(s) \in G
  <2>1. 0..Len(s) \subseteq G
    <3> HIDE DEF G
    <3> QED
      BY <1>1, <1>2, OneMore
  <2>2. Len(s) \in 0..Len(s)
    OBVIOUS
  <2> QED
    BY <2>1, <2>2
<1>4. \E g : Adds(g, Len(s))
  BY <1>3
<1>5. SumTo(s) = CHOOSE g : Adds(g, Len(s))
  BY Zenon DEF SumTo
<1> HIDE DEF Adds
<1>6. Adds(SumTo(s), Len(s))
  BY <1>4, <1>5
<1> QED
  BY <1>6 DEF Adds

\* Sums of natural numbers.
LEMMA Sums ==
    ASSUME NEW s \in Seq(Nat)
    PROVE  /\ SumTo(s)[0] = 0
           /\ \A i \in 1..Len(s) : SumTo(s)[i] = SumTo(s)[i - 1] + s[i]
           /\ \A i \in 0..Len(s) : SumTo(s)[i] \in Nat
<1>1. Len(s) \in Nat /\ DOMAIN s = 1..Len(s) /\ \A i \in 1..Len(s) : s[i] \in Nat
  BY LenProperties
<1>2. \A i \in 0..Len(s) : SumTo(s)[i] = IF i = 0 THEN 0 ELSE SumTo(s)[i - 1] + s[i]
  <2> DEFINE f == SumTo(s)
  <2>1. f = [i \in 0..Len(s) |-> IF i = 0 THEN 0 ELSE f[i - 1] + s[i]]
    BY <1>1, SumIs
  <2> HIDE DEF f
  <2>2. \A i \in 0..Len(s) : f[i] = IF i = 0 THEN 0 ELSE f[i - 1] + s[i]
    BY <2>1
  <2> QED
    BY <2>2 DEF f
<1>3. SumTo(s)[0] = 0
  BY <1>1, <1>2
<1>4. \A i \in 1..Len(s) : SumTo(s)[i] = SumTo(s)[i - 1] + s[i]
  BY <1>1, <1>2
<1> DEFINE G == {i \in Nat : SumTo(s)[i] \in Nat}
<1>5. 0..Len(s) \subseteq G
  <2>1. 0 \in G
    BY <1>3
  <2>2. \A i \in 1..Len(s) : i - 1 \in G => i \in G
    BY <1>1, <1>4
  <2> HIDE DEF G
  <2> QED
    BY <1>1, <2>1, <2>2, OneMore
<1> QED
  BY <1>3, <1>4, <1>5

\* And they grow.
LEMMA SumsGrow ==
    ASSUME NEW s \in Seq(Nat), NEW i \in 0..Len(s), NEW j \in 0..Len(s), i <= j
    PROVE  SumTo(s)[i] <= SumTo(s)[j]
<1> DEFINE G == {k \in Nat : k <= Len(s) /\ i <= k => SumTo(s)[i] <= SumTo(s)[k]}
<1>1. /\ Len(s) \in Nat /\ \A k \in 1..Len(s) : s[k] \in Nat
  BY LenProperties
<1>2. 0 \in G
  BY <1>1, Sums
<1>3. ASSUME NEW k \in 1..Len(s), k - 1 \in G PROVE k \in G
  <2>1. /\ SumTo(s)[k] = SumTo(s)[k - 1] + s[k] /\ s[k] \in Nat
        /\ SumTo(s)[k - 1] \in Nat /\ SumTo(s)[i] \in Nat /\ SumTo(s)[k] \in Nat
    BY <1>1, Sums
  <2>2. CASE i <= k - 1
    BY <1>3, <2>1, <2>2
  <2>3. CASE ~(i <= k - 1)
    <3>1. i <= k => i = k
      BY <2>3, <1>1
    <3> QED
      BY <2>1, <3>1
  <2> QED
    BY <2>2, <2>3
<1>4. 0..Len(s) \subseteq G
  <2> HIDE DEF G
  <2> QED
    BY <1>1, <1>2, <1>3, OneMore
<1> QED
  BY <1>1, <1>4

\* Arithmetic that the provers need to be told of: products of sums,
LEMMA TimesSum == \A t, a, b \in Int : t * (a + b) = t * a + t * b
OBVIOUS

\* That products are integers,
LEMMA TimesInt == \A a, b \in Int : a * b \in Int
OBVIOUS

\* In the order of their factors;
LEMMA TimesOrder == \A t \in Nat, a, b \in Int : a <= b => t * a <= t * b
OBVIOUS

\* One less of the larger of two factors leaves more,
LEMMA TimesLess == \A t, r \in Nat : t <= r => r * (t - 1) <= t * (r - 1)
<1> TAKE t \in Nat, r \in Nat
<1> HAVE t <= r
<1>1. r * (t - 1) = r * t - r /\ t * (r - 1) = t * r - t /\ r * t = t * r /\ r * t \in Int
  OBVIOUS
<1> QED
  BY <1>1

\* Two inequalities between products add up,
LEMMA SumsOrder ==
    ASSUME NEW a \in Int, NEW b \in Int, NEW c \in Int, NEW d \in Int, NEW t \in Int, NEW r \in Int,
           t * a <= r * c, t * b <= r * d,
           t * (a + b) = t * a + t * b, r * (c + d) = r * c + r * d
    PROVE  t * (a + b) <= r * (c + d)
<1>1. t * a \in Int /\ t * b \in Int /\ r * c \in Int /\ r * d \in Int
  OBVIOUS
<1> QED
  BY <1>1

\* A common factor may be left out,
LEMMA Cancel == \A t \in Nat \ {0}, a, b \in Int : t * a <= t * b => a <= b
OBVIOUS

\* And a quotient times its divisor is no more than what was divided.
LEMMA Quotient ==
    \A a \in Nat, t \in Nat \ {0} :
        a \div t \in Nat /\ t * (a \div t) <= a /\ (a >= t => a \div t >= 1)
OBVIOUS

\* The fields of a part.
LEMMA PartIs ==
    ASSUME NEW x, NEW c, NEW r, NEW w, NEW h, x = [col |-> c, row |-> r, cols |-> w, rows |-> h]
    PROVE  x.col = c /\ x.row = r /\ x.cols = w /\ x.rows = h
OBVIOUS

\* The length of a sequence given by its elements.
LEMMA LenIs ==
    ASSUME NEW n \in Nat, NEW f, f = [i \in 1..n |-> f[i]]
    PROVE  Len(f) = n
<1> DEFINE S == {f[i] : i \in 1..n}
<1>1. f \in [1..n -> S]
  OBVIOUS
<1>2. f \in Seq(S)
  BY <1>1, IsASeq
<1>3. DOMAIN f = 1..Len(f) /\ Len(f) \in Nat /\ DOMAIN f = 1..n
  BY <1>2, <1>1, LenProperties
<1> QED
  BY <1>3

\* Weights are positive, so there are no more panes than fifths.
LEMMA WeightsAddUp ==
    ASSUME NEW w \in Seq(Nat \ {0}), w # <<>>
    PROVE  Len(w) >= 1 /\ Len(w) <= Total(w) /\ Total(w) \in Nat
<1> DEFINE n == Len(w)
           sw == SumTo(w)
<1>1. n \in Nat /\ n >= 1 /\ DOMAIN w = 1..n /\ \A i \in 1..n : w[i] \in Nat \ {0}
  BY LenProperties, EmptySeq
<1>2. w \in Seq(Nat)
  BY <1>1, IsASeq
<1>3. /\ sw[0] = 0 /\ \A i \in 1..n : sw[i] = sw[i - 1] + w[i]
      /\ \A i \in 0..n : sw[i] \in Nat
      /\ Total(w) = sw[n]
  BY <1>2, Sums DEF Total
<1> HIDE DEF sw
<1> DEFINE G == {i \in Nat : i <= n => i <= sw[i]}
<1>4. 0 \in G
  BY <1>3
<1>5. \A i \in 1..n : i - 1 \in G => i \in G
  BY <1>1, <1>3
<1>6. 0..n \subseteq G
  <2> HIDE DEF G
  <2> QED
    BY <1>1, <1>4, <1>5, OneMore
<1> QED
  BY <1>1, <1>3, <1>6

\* Every pane's share of the room has a cell and is no more than its due, what begins
\* where the ones before it end, and the last has a cell as well.
LEMMA SharesFit ==
    ASSUME NEW w \in Seq(Nat \ {0}), w # <<>>, NEW room \in Nat, Total(w) <= room
    PROVE  LET share == Share(w, room)
               n == Len(w)
           IN  /\ n \in Nat /\ n >= 1 /\ n <= room /\ DOMAIN w = 1..n
               /\ DOMAIN share = 1..n
               /\ \A i \in 1..n : share[i] \in Nat /\ share[i] >= 1
               /\ SumTo(share)[0] = 0
               /\ \A i \in 1..n : SumTo(share)[i] = SumTo(share)[i - 1] + share[i]
               /\ \A i \in 0..n : SumTo(share)[i] \in Nat
               /\ \A i, j \in 0..n : i <= j => SumTo(share)[i] <= SumTo(share)[j]
               /\ SumTo(share)[n - 1] < room
<1> DEFINE share == Share(w, room)
           n == Len(w)
           t == Total(w)
           sw == SumTo(w)
           ss == SumTo(share)
<1>1. n \in Nat /\ n >= 1 /\ DOMAIN w = 1..n /\ \A i \in 1..n : w[i] \in Nat \ {0}
  BY LenProperties, EmptySeq
<1>2. w \in Seq(Nat)
  BY <1>1, IsASeq
<1>3. /\ sw[0] = 0 /\ \A i \in 1..n : sw[i] = sw[i - 1] + w[i]
      /\ \A i \in 0..n : sw[i] \in Nat
      /\ t = sw[n]
  BY <1>2, Sums DEF Total
<1>4. \A i, j \in 0..n : i <= j => sw[i] <= sw[j]
  BY <1>2, SumsGrow
<1> HIDE DEF sw
<1>5. t \in Nat /\ t = sw[n - 1] + w[n] /\ sw[n - 1] \in Nat /\ t # 0 /\ t <= room
  BY <1>1, <1>3
<1>7. n <= room
  BY <1>5, WeightsAddUp DEF t
<1>8. share = [i \in 1..n |-> Larger((room * w[i]) \div t, 1)]
  BY <1>1, Zenon DEF Share
<1> HIDE DEF share, t
<1>9. ASSUME NEW i \in 1..n
      PROVE  share[i] \in Nat /\ share[i] >= 1 /\ t * share[i] <= room * w[i]
  <2>1. w[i] \in Nat /\ w[i] >= 1 /\ room \in Nat
    BY <1>1
  <2>2. room * w[i] \in Nat /\ room * 1 <= room * w[i]
    BY <2>1, TimesOrder
  <2>3. room * w[i] >= t
    BY <2>2, <1>5
  <2> DEFINE a == room * w[i]
  <2>4. a \in Nat /\ a >= t
    BY <2>2, <2>3
  <2>5. share[i] = Larger(a \div t, 1)
    BY <1>8
  <2> HIDE DEF a
  <2>6. a \div t \in Nat /\ t * (a \div t) <= a /\ a \div t >= 1
    BY <1>5, <2>4, Quotient
  <2>7. share[i] = a \div t
    BY <2>5, <2>6 DEF Larger
  <2> QED
    BY <2>6, <2>7 DEF a
<1>10. share \in Seq(Nat) /\ Len(share) = n /\ DOMAIN share = 1..n
  BY <1>1, <1>8, <1>9, IsASeq, LenProperties
<1>11. /\ ss[0] = 0 /\ \A i \in 1..n : ss[i] = ss[i - 1] + share[i]
       /\ \A i \in 0..n : ss[i] \in Nat
  BY <1>10, Sums
<1>12. \A i, j \in 0..n : i <= j => ss[i] <= ss[j]
  BY <1>10, SumsGrow
<1> HIDE DEF ss
<1>13. \A i \in 0..n : t * ss[i] <= room * sw[i]
  <2> DEFINE G == {i \in Nat : i <= n => t * ss[i] <= room * sw[i]}
  <2>1. 0 \in G
    BY <1>3, <1>5, <1>11
  <2>2. ASSUME NEW i \in 1..n, i - 1 \in G PROVE i \in G
    <3>1. t * ss[i - 1] <= room * sw[i - 1]
      BY <2>2, <1>1
    <3>2. t * share[i] <= room * w[i]
      BY <1>9
    <3>3. /\ ss[i - 1] \in Int /\ sw[i - 1] \in Int /\ share[i] \in Int /\ w[i] \in Int
          /\ t \in Int /\ room \in Int /\ ss[i] = ss[i - 1] + share[i] /\ sw[i] = sw[i - 1] + w[i]
      <4>1. i - 1 \in 0..n
        BY <1>1
      <4>2. ss[i - 1] \in Nat /\ ss[i] = ss[i - 1] + share[i]
        BY <4>1, <1>11
      <4>3. sw[i - 1] \in Nat /\ sw[i] = sw[i - 1] + w[i]
        BY <4>1, <1>3
      <4>4. share[i] \in Nat /\ w[i] \in Nat
        BY <1>1, <1>9
      <4> QED
        BY <4>2, <4>3, <4>4, <1>5
    <3>4. /\ t * (ss[i - 1] + share[i]) = t * ss[i - 1] + t * share[i]
          /\ room * (sw[i - 1] + w[i]) = room * sw[i - 1] + room * w[i]
      BY <3>3, TimesSum
    <3>6. t * ss[i] <= room * sw[i]
      BY <3>1, <3>2, <3>3, <3>4, SumsOrder
    <3> QED
      BY <3>6
  <2>3. 0..n \subseteq G
    <3> HIDE DEF G
    <3> QED
      BY <1>1, <2>1, <2>2, OneMore
  <2> QED
    BY <1>1, <2>3
<1>14. ss[n - 1] < room
  <2>1. /\ n - 1 \in 0..n /\ ss[n - 1] \in Nat /\ sw[n - 1] \in Nat /\ w[n] \in Nat /\ w[n] >= 1
        /\ t * ss[n - 1] <= room * sw[n - 1]
    BY <1>1, <1>3, <1>11, <1>13
  <2>2. sw[n - 1] <= t - 1 /\ t - 1 \in Nat
    BY <2>1, <1>5
  <2>3. room * sw[n - 1] <= room * (t - 1)
    BY <2>1, <2>2, TimesOrder
  <2>4. room * (t - 1) <= t * (room - 1)
    BY <1>5, TimesLess
  <2>5. /\ t * ss[n - 1] \in Int /\ room * sw[n - 1] \in Int
        /\ room * (t - 1) \in Int /\ t * (room - 1) \in Int
    <3>1. /\ t \in Int /\ room \in Int /\ t - 1 \in Int /\ room - 1 \in Int
          /\ ss[n - 1] \in Int /\ sw[n - 1] \in Int
      BY <1>5, <2>1
    <3> QED
      BY ONLY <3>1, TimesInt
  <2>6. t * ss[n - 1] <= t * (room - 1)
    BY <2>1, <2>3, <2>4, <2>5
  <2>7. ss[n - 1] <= room - 1
    <3>1. t \in Nat \ {0} /\ ss[n - 1] \in Int /\ room - 1 \in Int
      BY <1>5, <2>1
    <3> QED
      BY <3>1, <2>6, Cancel
  <2> QED
    BY <2>7, <2>1
<1> QED
  BY <1>1, <1>7, <1>9, <1>10, <1>11, <1>12, <1>14 DEF share, ss

\* Panes beside or above one another fit on the screen, as long as there is a cell to
\* every fifth of a weight (layoutColumns and layoutRows).
LEMMA PanesFitOnScreen ==
    ASSUME NEW w \in Seq(Nat \ {0}), w # <<>>, NEW cols \in Nat \ {0}, NEW rows \in Nat \ {0},
           NEW ho,
           Total(w) <= IF ho = "rows" THEN rows ELSE cols - (Len(w) - 1)
    PROVE  Fits(LayoutPanes(w, ho, cols, rows), cols, rows)
<1> DEFINE n == Len(w)
           rects == LayoutPanes(w, ho, cols, rows)
<1>1. n \in Nat /\ DOMAIN w = 1..n
  BY LenProperties
<1>2. CASE ho = "rows"
  <2> DEFINE share == Share(w, rows)
             ss == SumTo(share)
  <2>1. /\ n \in Nat /\ n >= 1 /\ DOMAIN share = 1..n
        /\ \A i \in 1..n : share[i] \in Nat /\ share[i] >= 1
        /\ ss[0] = 0 /\ \A i \in 1..n : ss[i] = ss[i - 1] + share[i]
        /\ \A i \in 0..n : ss[i] \in Nat
        /\ \A i, j \in 0..n : i <= j => ss[i] <= ss[j]
        /\ ss[n - 1] < rows
    BY <1>2, SharesFit, Zenon
  <2>2. Begins(w, rows, 0) = [i \in 1..n |-> ss[i - 1] + 0 * (i - 1)]
    BY <1>1, Zenon DEF Begins
  <2>3. rects = [i \in 1..n |->
                    [col |-> 0, row |-> Begins(w, rows, 0)[i], cols |-> cols,
                     rows |-> Larger(IF i = n THEN rows - Begins(w, rows, 0)[i] ELSE share[i], 1)]]
    BY <1>1, <1>2, Zenon DEF LayoutPanes, LayoutRows
  <2> HIDE DEF share, ss, rects
  <2>4. ASSUME NEW i \in 1..n
        PROVE  /\ rects[i].col = 0 /\ rects[i].cols = cols /\ rects[i].row = ss[i - 1]
               /\ rects[i].rows = IF i = n THEN rows - ss[i - 1] ELSE share[i]
    <3> DEFINE b == Begins(w, rows, 0)[i]
               d == Larger(IF i = n THEN rows - b ELSE share[i], 1)
    <3>1. rects[i] = [col |-> 0, row |-> b, cols |-> cols, rows |-> d]
      BY <2>3, Zenon
    <3>2. ss[i - 1] \in Nat /\ ss[i - 1] <= ss[n - 1] /\ share[i] \in Nat /\ share[i] >= 1
          /\ ss[n - 1] \in Nat
      BY <2>1
    <3>3. b = ss[i - 1]
      <4>1. b = ss[i - 1] + 0 * (i - 1)
        BY <2>2, Zenon
      <4> HIDE DEF b
      <4> QED
        BY <4>1, <3>2
    <3> HIDE DEF b
    <3>4. d = IF i = n THEN rows - ss[i - 1] ELSE share[i]
      BY <2>1, <3>2, <3>3 DEF Larger
    <3> HIDE DEF d
    <3>5. rects[i].col = 0 /\ rects[i].cols = cols /\ rects[i].row = b /\ rects[i].rows = d
      BY ONLY <3>1, PartIs
    <3> QED
      BY <3>3, <3>4, <3>5
  <2>5. DOMAIN rects = 1..n /\ Len(rects) = n
    <3>1. DOMAIN rects = 1..n /\ rects = [i \in 1..n |-> rects[i]]
      BY <2>3
    <3> QED
      BY <3>1, <1>1, LenIs
  <2>6. ASSUME NEW i \in 1..n
        PROVE  /\ rects[i].cols >= 1 /\ rects[i].rows >= 1
               /\ rects[i].col + rects[i].cols <= cols /\ rects[i].row + rects[i].rows <= rows
    <3>1. /\ rects[i].col = 0 /\ rects[i].cols = cols /\ rects[i].row = ss[i - 1]
          /\ rects[i].rows = IF i = n THEN rows - ss[i - 1] ELSE share[i]
      BY <2>4
    <3>2. ss[i - 1] \in Nat /\ ss[i - 1] <= ss[n - 1] /\ ss[i] = ss[i - 1] + share[i]
          /\ (i # n => ss[i] <= ss[n - 1]) /\ ss[n - 1] \in Nat /\ share[i] \in Nat /\ share[i] >= 1
      BY <2>1
    <3> QED
      BY <3>1, <3>2, <2>1
  <2>7. rects[n].col + rects[n].cols = cols /\ rects[n].row + rects[n].rows = rows
    <3>1. n \in 1..n /\ ss[n - 1] \in Nat
      BY <2>1
    <3> QED
      BY <3>1, <2>4
  <2>8. ASSUME NEW i \in 1..n, NEW j \in 1..n, i < j
        PROVE  rects[i].row + rects[i].rows <= rects[j].row
    <3>1. rects[i].row = ss[i - 1] /\ rects[i].rows = share[i] /\ rects[j].row = ss[j - 1]
      BY <2>4, <2>8
    <3>2. ss[i] = ss[i - 1] + share[i] /\ ss[i] <= ss[j - 1]
      BY <2>1, <2>8
    <3> QED
      BY <3>1, <3>2
  <2> QED
    BY <2>5, <2>6, <2>7, <2>8 DEF Fits, rects
<1>3. CASE ho # "rows"
  <2> DEFINE room == Larger(cols - (n - 1), n)
             share == Share(w, room)
             ss == SumTo(share)
  <2>1. room = cols - (n - 1) /\ room \in Nat /\ Total(w) <= room
    <3>1. n <= Total(w) /\ n >= 1 /\ Total(w) \in Nat
      BY WeightsAddUp
    <3> QED
      BY <3>1, <1>1, <1>3 DEF Larger
  <2> HIDE DEF room
  <2>2. /\ n \in Nat /\ n >= 1 /\ DOMAIN share = 1..n
        /\ \A i \in 1..n : share[i] \in Nat /\ share[i] >= 1
        /\ ss[0] = 0 /\ \A i \in 1..n : ss[i] = ss[i - 1] + share[i]
        /\ \A i \in 0..n : ss[i] \in Nat
        /\ \A i, j \in 0..n : i <= j => ss[i] <= ss[j]
        /\ ss[n - 1] < room
    BY <2>1, SharesFit, Zenon
  <2>3. Begins(w, room, 1) = [i \in 1..n |-> ss[i - 1] + 1 * (i - 1)]
    BY <1>1, Zenon DEF Begins
  <2>4. rects = [i \in 1..n |->
                    [col |-> Begins(w, room, 1)[i], row |-> 0,
                     cols |-> IF i = n THEN cols - Begins(w, room, 1)[i] ELSE share[i],
                     rows |-> rows]]
    BY <1>1, <1>3, Zenon DEF LayoutPanes, LayoutColumns, room
  <2> HIDE DEF share, ss, rects
  <2>5. ASSUME NEW i \in 1..n
        PROVE  /\ rects[i].col = ss[i - 1] + (i - 1) /\ rects[i].row = 0 /\ rects[i].rows = rows
               /\ rects[i].cols = IF i = n THEN cols - (ss[i - 1] + (i - 1)) ELSE share[i]
    <3> DEFINE b == Begins(w, room, 1)[i]
               d == IF i = n THEN cols - b ELSE share[i]
    <3>1. rects[i] = [col |-> b, row |-> 0, cols |-> d, rows |-> rows]
      BY <2>4, Zenon
    <3>2. b = ss[i - 1] + (i - 1)
      <4>1. b = ss[i - 1] + 1 * (i - 1)
        BY <2>3, Zenon
      <4> HIDE DEF b
      <4> QED
        BY <4>1, <2>2
    <3> HIDE DEF b
    <3>3. d = IF i = n THEN cols - (ss[i - 1] + (i - 1)) ELSE share[i]
      BY <3>2
    <3> HIDE DEF d
    <3>4. rects[i].col = b /\ rects[i].cols = d /\ rects[i].row = 0 /\ rects[i].rows = rows
      BY ONLY <3>1, PartIs
    <3> QED
      BY <3>2, <3>3, <3>4
  <2>6. DOMAIN rects = 1..n /\ Len(rects) = n
    <3>1. DOMAIN rects = 1..n /\ rects = [i \in 1..n |-> rects[i]]
      BY <2>4
    <3> QED
      BY <3>1, <1>1, LenIs
  <2>7. ASSUME NEW i \in 1..n
        PROVE  /\ rects[i].cols >= 1 /\ rects[i].rows >= 1
               /\ rects[i].col + rects[i].cols <= cols /\ rects[i].row + rects[i].rows <= rows
    <3>1. /\ rects[i].col = ss[i - 1] + (i - 1) /\ rects[i].row = 0 /\ rects[i].rows = rows
          /\ rects[i].cols = IF i = n THEN cols - (ss[i - 1] + (i - 1)) ELSE share[i]
      BY <2>5
    <3>2. ss[i - 1] \in Nat /\ ss[i - 1] <= ss[n - 1] /\ ss[i] = ss[i - 1] + share[i]
          /\ (i # n => ss[i] <= ss[n - 1]) /\ ss[n - 1] \in Nat /\ share[i] \in Nat /\ share[i] >= 1
      BY <2>2
    <3>3. ss[n - 1] < cols - (n - 1) /\ n \in Nat /\ cols \in Nat /\ rows >= 1
      BY <2>1, <2>2
    <3> HIDE DEF n
    <3>4. CASE i = n
      BY <3>1, <3>2, <3>3, <3>4
    <3>5. CASE i # n
      <4>1. i \in Nat /\ i < n
        BY <3>3, <3>5
      <4> QED
        BY <3>1, <3>2, <3>3, <3>5, <4>1
    <3> QED
      BY <3>4, <3>5
  <2>8. rects[n].col + rects[n].cols = cols /\ rects[n].row + rects[n].rows = rows
    <3>1. n \in 1..n /\ ss[n - 1] \in Nat
      BY <2>2
    <3>2. /\ rects[n].col = ss[n - 1] + (n - 1) /\ rects[n].row = 0 /\ rects[n].rows = rows
          /\ rects[n].cols = cols - (ss[n - 1] + (n - 1))
      BY <3>1, <2>5
    <3>3. ss[n - 1] \in Nat /\ n \in Nat /\ cols \in Nat /\ rows \in Nat
      BY <3>1, <2>2
    <3> HIDE DEF n, rects, ss
    <3> QED
      BY ONLY <3>2, <3>3
  <2>9. ASSUME NEW i \in 1..n, NEW j \in 1..n, i < j
        PROVE  rects[i].col + rects[i].cols < rects[j].col
    <3>1. /\ rects[i].col = ss[i - 1] + (i - 1) /\ rects[i].cols = share[i]
          /\ rects[j].col = ss[j - 1] + (j - 1)
      BY <2>5, <2>9
    <3>2. /\ ss[i] = ss[i - 1] + share[i] /\ ss[i] <= ss[j - 1]
          /\ ss[i - 1] \in Nat /\ ss[j - 1] \in Nat /\ share[i] \in Nat
      BY <2>2, <2>9
    <3> QED
      BY <3>1, <3>2, <2>9
  <2> QED
    BY <2>6, <2>7, <2>8, <2>9 DEF Fits, rects
<1> QED
  BY <1>2, <1>3
----------------------------------------------------------------------------
(* That every pane on the screen has the part of it that is due to it. *)

\* The part of the screen that each pane is due.
Parts(pn, sh, ho, sz) ==
    LayoutPanes([i \in DOMAIN sh |-> pn[sh[i]].weight], ho, sz.cols, sz.rows)

\* Every pane has the part that is due to it.
Parted(pn, sh, ho, sz) == \A i \in 1..Len(sh) : pn[sh[i]].rect = Parts(pn, sh, ho, sz)[i]

PartInv == Runs => Parted(pane, shown, how, known)

\* Which parts those are depends on the weights alone.
LEMMA PartsAlike ==
    ASSUME NEW pn, NEW qn, NEW sh \in Seq(PaneIds), NEW ho, NEW sz,
           \A i \in 1..Len(sh) : qn[sh[i]].weight = pn[sh[i]].weight
    PROVE  Parts(qn, sh, ho, sz) = Parts(pn, sh, ho, sz)
<1>1. DOMAIN sh = 1..Len(sh)
  BY Places
<1>2. [i \in DOMAIN sh |-> qn[sh[i]].weight] = [i \in DOMAIN sh |-> pn[sh[i]].weight]
  BY <1>1
<1> QED
  BY <1>2, Zenon DEF Parts

\* A pane given its part has it, and weighs what it did.
LEMMA PutIs ==
    ASSUME NEW x, NEW r, NEW g, IsPane([x EXCEPT !.rect = r, !.grid = g])
    PROVE  /\ [x EXCEPT !.rect = r, !.grid = g].rect = r
           /\ [x EXCEPT !.rect = r, !.grid = g].weight = x.weight
<1> DEFINE y == [x EXCEPT !.rect = r]
           z == [y EXCEPT !.grid = g]
<1>1. [x EXCEPT !.rect = r, !.grid = g] = z
  BY Zenon
<1>2. IsPane(z)
  BY <1>1
<1>3. DOMAIN y = DOMAIN x /\ DOMAIN z = DOMAIN y
  OBVIOUS
<1>4. {"rect", "weight", "grid"} \subseteq DOMAIN z
  <2> HIDE DEF z
  <2> QED
    BY <1>2 DEF IsPane
<1>5. y.rect = r /\ y.weight = x.weight
  BY <1>3, <1>4
<1>6. z.rect = y.rect /\ z.weight = y.weight
  <2> HIDE DEF y
  <2> QED
    BY <1>3, <1>4
<1> QED
  BY <1>1, <1>5, <1>6, Zenon

\* What has been laid out and is shown has been given its parts.
LEMMA LaidParted ==
    ASSUME NEW pn, NEW cn, NEW sh, NEW fo, NEW ho, NEW sz,
           Shows(Laid(pn, sh, ho, sz), cn, sh, fo, ho),
           Row(shown', focus'), \A p \in PaneIds : IsPane(pane'[p])
    PROVE  Parted(pane', shown', how', sz)
<1> DEFINE qn == Laid(pn, sh, ho, sz)
           rects == Parts(pn, sh, ho, sz)
           Put(x, r) == [x EXCEPT !.rect = r, !.grid = Resized(x.grid, r)]
<1>1. /\ pane' = TidyPanes(cn, qn, sh) /\ shown' = sh /\ focus' = fo /\ how' = ho
  BY Zenon DEF Shows
<1>2. sh \in Seq(PaneIds) /\ \A i, j \in 1..Len(sh) : sh[i] = sh[j] => i = j
  BY <1>1 DEF Row
<1>3. /\ DOMAIN sh = 1..Len(sh) /\ \A i \in 1..Len(sh) : sh[i] \in PaneIds
  BY <1>2, Places
<1>4. qn = [p \in PaneIds |->
              IF \E i \in DOMAIN sh : sh[i] = p
              THEN Put(pn[p], rects[CHOOSE i \in DOMAIN sh : sh[i] = p]) ELSE pn[p]]
  BY Zenon DEF Laid, Parts
<1> HIDE DEF qn, rects, Put
<1>5. ASSUME NEW i \in 1..Len(sh)
      PROVE  pane'[sh[i]] = Put(pn[sh[i]], rects[i]) /\ IsPane(pane'[sh[i]])
  <2>1. (CHOOSE j \in DOMAIN sh : sh[j] = sh[i]) = i
    BY <1>2, <1>3
  <2>2. sh[i] \in PaneIds /\ \E j \in DOMAIN sh : sh[j] = sh[i]
    BY <1>3
  <2>3. qn[sh[i]] = Put(pn[sh[i]], rects[i])
    BY <1>4, <2>1, <2>2
  <2>4. pane'[sh[i]] = qn[sh[i]]
    BY <1>1, <2>2 DEF TidyPanes
  <2> QED
    BY <2>2, <2>3, <2>4
<1>6. ASSUME NEW i \in 1..Len(sh)
      PROVE  pane'[sh[i]].rect = rects[i] /\ pane'[sh[i]].weight = pn[sh[i]].weight
  <2> DEFINE x == pn[sh[i]]
             r == rects[i]
             y == pane'[sh[i]]
  <2>1. y = Put(x, r) /\ IsPane(y)
    BY <1>5
  <2> HIDE DEF x, r, y
  <2>2. y = [x EXCEPT !.rect = r, !.grid = Resized(x.grid, r)]
    BY <2>1 DEF Put
  <2> DEFINE g == Resized(x.grid, r)
  <2>3. y = [x EXCEPT !.rect = r, !.grid = g]
    BY <2>2, Zenon
  <2> HIDE DEF g
  <2>4. y.rect = r /\ y.weight = x.weight
    <3>1. IsPane([x EXCEPT !.rect = r, !.grid = g])
      BY ONLY <2>1, <2>3, Zenon
    <3>2. /\ [x EXCEPT !.rect = r, !.grid = g].rect = r
          /\ [x EXCEPT !.rect = r, !.grid = g].weight = x.weight
      BY ONLY <3>1, PutIs, Zenon
    <3> QED
      BY ONLY <2>3, <3>2, Zenon
  <2> QED
    BY <2>4 DEF x, r, y
<1> DEFINE pp == pane'
<1>7. Parts(pp, sh, ho, sz) = rects
  <2>1. \A i \in 1..Len(sh) : pp[sh[i]].weight = pn[sh[i]].weight
    BY <1>6
  <2> HIDE DEF pp
  <2> QED
    BY <2>1, <1>2, PartsAlike DEF rects
<1>8. Parted(pp, sh, ho, sz)
  <2>1. \A i \in 1..Len(sh) : pp[sh[i]].rect = rects[i]
    BY <1>6
  <2> HIDE DEF pp
  <2> QED
    BY <2>1, <1>7 DEF Parted
<1> QED
  BY <1>1, <1>8

\* What is shown keeps its parts if neither they nor the weights change.
LEMMA KeptParted ==
    ASSUME NEW pn, NEW cn, NEW fo, NEW sz, Shows(pn, cn, shown, fo, how), shown \in Seq(PaneIds),
           Parted(pane, shown, how, sz),
           \A p \in PaneIds : pn[p].weight = pane[p].weight /\ pn[p].rect = pane[p].rect
    PROVE  Parted(pane', shown', how', sz)
<1>1. /\ pane' = TidyPanes(cn, pn, shown) /\ shown' = shown /\ how' = how
  BY DEF Shows
<1> DEFINE pp == pane'
<1>2. ASSUME NEW i \in 1..Len(shown)
      PROVE  pp[shown[i]].weight = pane[shown[i]].weight /\ pp[shown[i]].rect = pane[shown[i]].rect
  <2>1. shown[i] \in PaneIds /\ \E j \in DOMAIN shown : shown[j] = shown[i]
    BY Places
  <2>2. pp[shown[i]] = pn[shown[i]]
    BY <1>1, <2>1 DEF TidyPanes
  <2> QED
    BY <2>1, <2>2
<1> HIDE DEF pp
<1>3. Parts(pp, shown, how, sz) = Parts(pane, shown, how, sz)
  BY <1>2, PartsAlike
<1>4. Parted(pp, shown, how, sz)
  BY <1>2, <1>3 DEF Parted
<1> QED
  BY <1>1, <1>4 DEF pp

\* A step lays the panes out anew,
LaysOut ==
    \E pn, cn, sh, fo, ho : Shows(Laid(pn, sh, ho, known'), cn, sh, fo, ho)

\* leaves them where they are, whatever else becomes of them,
LeavesPlaces ==
    /\ Runs /\ known' = known
    /\ \E pn, cn, fo :
          /\ Shows(pn, cn, shown, fo, how)
          /\ \A p \in PaneIds : pn[p].weight = pane[p].weight /\ pn[p].rect = pane[p].rect

\* or has nothing to do with them.
LeavesPanes == UNCHANGED <<pane, shown, how, known>> /\ (Runs' => Runs)

Moves == LaysOut \/ LeavesPlaces \/ LeavesPanes \/ ~Runs'

\* Each of these keeps the parts.
LEMMA PartsKept == ASSUME IInv, IInv', PartInv, Moves PROVE PartInv'
<1> SUFFICES ASSUME Runs' PROVE Parted(pane', shown', how', known')
  BY DEF PartInv
<1>1. Row(shown', focus') /\ \A p \in PaneIds : IsPane(pane'[p])
  BY DEF IInv, ViewInv, Wired
<1>2. CASE LaysOut
  <2>1. PICK pn, cn, sh, fo, ho : Shows(Laid(pn, sh, ho, known'), cn, sh, fo, ho)
    BY <1>2 DEF LaysOut
  <2> QED
    BY ONLY <1>1, <2>1, LaidParted
<1>3. CASE LeavesPlaces
  <2>1. /\ shown \in Seq(PaneIds) /\ Parted(pane, shown, how, known) /\ known' = known
    BY <1>3 DEF LeavesPlaces, PartInv, IInv, ViewInv, Row
  <2>2. PICK pn, cn, fo :
          /\ Shows(pn, cn, shown, fo, how)
          /\ \A p \in PaneIds : pn[p].weight = pane[p].weight /\ pn[p].rect = pane[p].rect
    BY <1>3 DEF LeavesPlaces
  <2>3. Parted(pane', shown', how', known)
    BY ONLY <2>1, <2>2, KeptParted
  <2> QED
    BY <2>1, <2>3
<1>4. CASE LeavesPanes
  BY <1>4 DEF LeavesPanes, PartInv
<1> QED
  BY <1>2, <1>3, <1>4 DEF Moves

\* A command that is carried out, and one after which the panes have their places anew.
LEMMA DoneMoves ==
    ASSUME Runs, NEW pn, NEW cn, NEW fo, Done(pn, cn, shown, fo, how),
           \A p \in PaneIds : pn[p].weight = pane[p].weight /\ pn[p].rect = pane[p].rect
    PROVE  Moves
<1>1. Shows(pn, cn, shown, fo, how) /\ known' = known
  BY DEF Done, size
<1> QED
  BY <1>1 DEF Moves, LeavesPlaces

\* The panes of a session are laid out.
LEMMA RelaidMoves ==
    ASSUME NEW pn, NEW cn, NEW sh, NEW fo, NEW ho, Relaid(pn, cn, sh, fo, ho)
    PROVE  Moves
<1> DEFINE laid == Laid(pn, sh, ho, known)
<1>1. Shows(laid, Told(cn, laid), sh, fo, ho) /\ known' = known
  BY DEF Relaid, Done, size
<1> DEFINE dn == Told(cn, laid)
<1>2. Shows(Laid(pn, sh, ho, known'), dn, sh, fo, ho)
  BY <1>1
<1> HIDE DEF dn
<1>3. LaysOut
  BY <1>2 DEF LaysOut
<1> QED
  BY <1>3 DEF Moves

\* A report that leaves the panes where they are.
LEMMA AfterMoves ==
    ASSUME at = "idle", NEW pn, NEW cn, After(pn, cn, shown, focus),
           \A p \in PaneIds : pn[p].weight = pane[p].weight /\ pn[p].rect = pane[p].rect
    PROVE  Moves
<1>1. CASE AllDone(pn, shown)
  BY <1>1 DEF After, Ends, Moves, Runs
<1>2. CASE ~AllDone(pn, shown)
  <2>1. Shows(pn, cn, shown, focus, how) /\ known' = known
    BY <1>2 DEF After, size
  <2> QED
    BY <2>1 DEF Moves, LeavesPlaces, Runs
<1> QED
  BY <1>1, <1>2

\* The places of the panes when one of them is changed in another way.
LEMMA PlacesSame ==
    ASSUME NEW p \in PaneIds, NEW x, pane = [r \in PaneIds |-> pane[r]],
           x.weight = pane[p].weight, x.rect = pane[p].rect
    PROVE  \A r \in PaneIds : /\ [pane EXCEPT ![p] = x][r].weight = pane[r].weight
                              /\ [pane EXCEPT ![p] = x][r].rect = pane[r].rect
<1> DEFINE qn == [pane EXCEPT ![p] = x]
<1>1. \A r \in PaneIds : qn[r] = IF r = p THEN x ELSE pane[r]
  OBVIOUS
<1> HIDE DEF qn
<1>2. \A r \in PaneIds : qn[r].weight = pane[r].weight /\ qn[r].rect = pane[r].rect
  BY <1>1
<1> QED
  BY <1>2 DEF qn

\* What services, the daemon and the window do, and what leads to a call or only draws.
LEMMA OthersMove ==
    ASSUME \/ \E n \in Names : \/ Exits(n) \/ Appears(n)
                               \/ \E ms \in SUBSET Modes : Switches(n, ms)
                               \/ \E m \in Names : RenamedElsewhere(n, m)
           \/ DaemonGoes \/ DaemonComes \/ WindowChanges \/ Leave
           \/ (\E o \in {"columns", "rows"} : SplitLooks(o)) \/ SwitchLooks \/ Create \/ Revive
           \/ CallFails \/ Forget \/ Returns \/ KeyFails \/ Due \/ UNCHANGED vars
    PROVE  Moves
<1>1. ASSUME NEW n \in Names, Change PROVE Moves
  BY <1>1 DEF Change, Moves, LeavesPanes, view, size, Runs
<1>2. CASE DaemonGoes \/ DaemonComes \/ WindowChanges
  BY <1>2 DEF DaemonGoes, DaemonComes, WindowChanges, Moves, LeavesPanes, view, size, Runs
<1>3. CASE Leave
  BY <1>3 DEF Leave, Moves, Runs
<1>4. ASSUME at = "idle", NEW cmd, NEW n, NEW status, Asks(cmd, n, status) PROVE Moves
  BY <1>4 DEF Asks, Moves, LeavesPanes, view, size, Runs
<1>5. CASE (\E o \in {"columns", "rows"} : SplitLooks(o)) \/ SwitchLooks \/ Create \/ Revive
  BY <1>4, <1>5 DEF SplitLooks, SwitchLooks, Create, Revive, Press
<1>6. CASE CallFails \/ Forget \/ Due
  BY <1>6 DEF CallFails, Forget, Due, Press, Moves, LeavesPanes, view, size, Runs
<1>7. CASE Returns \/ KeyFails
  BY <1>7 DEF Returns, KeyFails, Return, Ends, Moves, Runs
<1>8. CASE UNCHANGED vars
  BY <1>8 DEF vars, Moves, LeavesPanes, view, size, Runs
<1>9. ASSUME NEW n \in Names,
             \/ Exits(n) \/ Appears(n) \/ \E ms \in SUBSET Modes : Switches(n, ms)
             \/ \E m \in Names : RenamedElsewhere(n, m)
      PROVE  Change
  BY <1>9 DEF Exits, Appears, Switches, RenamedElsewhere
<1> QED
  BY <1>1, <1>2, <1>3, <1>5, <1>6, <1>7, <1>8, <1>9

\* Commands.
LEMMA CommandsMove ==
    ASSUME IInv,
           \/ OpenPane \/ SwapPane \/ ClosePane \/ Remove \/ Focus \/ Scrolls
           \/ (\E m \in Names : Rename(m)) \/ (\E step \in {-1, 1} : Grow(step))
    PROVE  Moves
<1>1. CASE OpenPane
  BY <1>1, RelaidMoves, Zenon DEF OpenPane
<1>2. CASE SwapPane
  <2> DEFINE p == shown[focus]
             c == New
             n == doing.name
             x == InPlace(n, c, doing.ran, Focused.weight, Focused.rect, NewGrid(Focused.rect))
             dn == [Closed(conn, Focused.conn) EXCEPT ![c] =
                       Reading(n, p, TRUE, SizeOf(Focused.rect))]
             pn == [pane EXCEPT ![p] = x]
  <2>1. at = "calling" /\ Done(Swapped(c), dn, shown, focus, how)
    BY <1>2 DEF SwapPane
  <2>2. Swapped(c) = pn
    <3>1. [NoPane EXCEPT !.name = doing.name, !.conn = c, !.ran = doing.ran,
                         !.weight = Focused.weight, !.rect = Focused.rect,
                         !.grid = NewGrid(Focused.rect)] = x
      BY InPlaceIs, Zenon
    <3> QED
      BY <3>1, Zenon DEF Swapped
  <2>3. Runs
    BY <2>1 DEF Runs
  <2>4. p \in PaneIds /\ Focused = pane[p] /\ pane = [r \in PaneIds |-> pane[r]]
    BY <2>3, FocusedIs DEF Wired
  <2>5. x.weight = pane[p].weight /\ x.rect = pane[p].rect
    BY <2>4 DEF InPlace
  <2> HIDE DEF x, p
  <2>6. \A r \in PaneIds : pn[r].weight = pane[r].weight /\ pn[r].rect = pane[r].rect
    BY <2>4, <2>5, PlacesSame
  <2> HIDE DEF pn, dn
  <2>7. Done(pn, dn, shown, focus, how)
    BY <2>1, <2>2
  <2> QED
    BY <2>3, <2>6, <2>7, DoneMoves
<1>3. ASSUME NEW cn, DropFocused(cn) PROVE Moves
  BY <1>3, RelaidMoves, Zenon DEF DropFocused
<1>4. CASE ClosePane \/ Remove
  BY <1>3, <1>4, Zenon DEF ClosePane, Remove
<1>5. CASE Focus \/ Scrolls
  <2>1. Runs
    BY <1>5 DEF Focus, Scrolls, Press, Runs
  <2>2. PICK fo : Done(pane, conn, shown, fo, how)
    BY <1>5, Zenon DEF Focus, Scrolls
  <2> QED
    BY <2>1, <2>2, DoneMoves
<1>6. ASSUME NEW m \in Names, Rename(m) PROVE Moves
  <2> DEFINE p == shown[focus]
             x == [pane[p] EXCEPT !.name = m]
             pn == [pane EXCEPT ![p] = x]
             dn == [c \in Conns |-> IF conn[c].name = Focused.name
                       THEN [conn[c] EXCEPT !.q = Append(@, [kind |-> "renamed", name |-> m]),
                                            !.name = m] ELSE conn[c]]
  <2>1. at = "idle" /\ Done([pane EXCEPT ![p].name = m], dn, shown, focus, how)
    BY <1>6 DEF Rename, Press
  <2>2. Done(pn, dn, shown, focus, how)
    BY <2>1, Zenon
  <2>3. Runs
    BY <2>1 DEF Runs
  <2>4. p \in PaneIds /\ IsPane(pane[p]) /\ pane = [r \in PaneIds |-> pane[r]]
    BY <2>3, FocusedIs DEF Wired
  <2> HIDE DEF p
  <2>5. x.weight = pane[p].weight /\ x.rect = pane[p].rect
    BY <2>4, PaneFields
  <2> HIDE DEF x
  <2>6. \A r \in PaneIds : pn[r].weight = pane[r].weight /\ pn[r].rect = pane[r].rect
    BY <2>4, <2>5, PlacesSame
  <2> HIDE DEF pn, dn
  <2> QED
    BY <2>2, <2>3, <2>6, DoneMoves
<1>7. ASSUME NEW step \in {-1, 1}, Grow(step) PROVE Moves
  BY <1>7, RelaidMoves, Zenon DEF Grow
<1> QED
  BY <1>1, <1>2, <1>4, <1>5, <1>6, <1>7

\* Reports, and the size of the window.
LEMMA ReportsMove ==
    ASSUME IInv,
           \/ \E c \in Conns : \/ TakeStale(c) \/ TakeModes(c) \/ TakeRenamed(c)
                               \/ TakeFinished(c) \/ TakeGone(c)
           \/ Winch
    PROVE  Moves
<1>1. ASSUME NEW c \in Conns, TakeStale(c) PROVE Moves
  BY <1>1, AfterMoves DEF TakeStale
<1>2. ASSUME NEW c \in Conns, at = "idle", conn[c].q # <<>>, ~Stale(c),
             NEW x, x.weight = pane[conn[c].pane].weight, x.rect = pane[conn[c].pane].rect,
             NEW cn, After([pane EXCEPT ![conn[c].pane] = x], cn, shown, focus)
      PROVE  Moves
  <2> DEFINE p == conn[c].pane
             pn == [pane EXCEPT ![p] = x]
  <2>1. p \in PaneIds /\ pane = [r \in PaneIds |-> pane[r]]
    BY <1>2, Fresher, FocusedIs DEF Wired, Runs
  <2> HIDE DEF p
  <2>2. \A r \in PaneIds : pn[r].weight = pane[r].weight /\ pn[r].rect = pane[r].rect
    BY <1>2, <2>1, PlacesSame DEF p
  <2>3. After(pn, cn, shown, focus)
    BY <1>2 DEF p
  <2> HIDE DEF pn
  <2> QED
    BY <1>2, <2>2, <2>3, AfterMoves
<1>3. ASSUME NEW c \in Conns, TakeModes(c) PROVE Moves
  <2> DEFINE p == conn[c].pane
             x == [pane[p] EXCEPT !.modes = Head(conn[c].q).modes]
  <2>1. /\ at = "idle" /\ conn[c].q # <<>> /\ ~Stale(c)
        /\ After([pane EXCEPT ![p] = x], Taken(c), shown, focus)
    BY <1>3, Zenon DEF TakeModes, Report
  <2>2. IsPane(pane[p])
    BY <2>1, Fresher
  <2> DEFINE ms == Head(conn[c].q).modes
  <2> HIDE DEF ms
  <2>3. x.weight = pane[p].weight /\ x.rect = pane[p].rect
    BY <2>2, PaneFields
  <2> HIDE DEF x
  <2> QED
    BY <2>1, <2>3, <1>2
<1>4. ASSUME NEW c \in Conns, TakeRenamed(c) PROVE Moves
  <2> DEFINE p == conn[c].pane
             x == [pane[p] EXCEPT !.name = Head(conn[c].q).name]
  <2>1. /\ at = "idle" /\ conn[c].q # <<>> /\ ~Stale(c)
        /\ After([pane EXCEPT ![p] = x], Taken(c), shown, focus)
    BY <1>4, Zenon DEF TakeRenamed, Report
  <2>2. IsPane(pane[p])
    BY <2>1, Fresher
  <2>3. x.weight = pane[p].weight /\ x.rect = pane[p].rect
    BY <2>2, PaneFields
  <2> HIDE DEF x
  <2> QED
    BY <2>1, <2>3, <1>2
<1>5. ASSUME NEW c \in Conns, TakeFinished(c) PROVE Moves
  <2> DEFINE p == conn[c].pane
             v == pane[p].ran /\ Many
             i == CHOOSE i \in DOMAIN shown : shown[i] = p
             pn == [pane EXCEPT ![p].finished = TRUE, ![p].closed = v]
             sh == Without(shown, i)
             fo == IF focus > Len(sh) THEN Len(sh) ELSE IF focus > i THEN focus - 1 ELSE focus
             laid == Laid(pn, sh, how, known)
             dn == Told(Closed(Taken(c), c), laid)
             x == Ended(pane[p], v)
  <2>1. /\ at = "idle" /\ conn[c].q # <<>> /\ ~Stale(c)
        /\ After(laid, dn, sh, fo) \/ After(pn, Taken(c), shown, focus)
    BY <1>5, Zenon DEF TakeFinished, Report
  <2>2. IsPane(pane[p]) /\ p \in PaneIds /\ pane = [r \in PaneIds |-> pane[r]]
    BY <2>1, Fresher, FocusedIs DEF Wired, Runs
  <2>3. CASE After(laid, dn, sh, fo)
    <3>1. CASE AllDone(laid, sh)
      BY <2>3, <3>1, Zenon DEF After, Ends, Moves, Runs
    <3>2. CASE ~AllDone(laid, sh)
      <4>1. Shows(laid, dn, sh, fo, how) /\ known' = known
        BY <2>3, <3>2, Zenon DEF After, size
      <4>2. Shows(Laid(pn, sh, how, known'), dn, sh, fo, how)
        BY <4>1
      <4> HIDE DEF pn, dn, sh, fo
      <4> QED
        BY <4>2 DEF Moves, LaysOut
    <3> QED
      BY <3>1, <3>2
  <2>4. CASE After(pn, Taken(c), shown, focus)
    <3>1. pn = [pane EXCEPT ![p] = x]
      <4> HIDE DEF p, v
      <4> QED
        BY <2>2, PaneTwice, Zenon
    <3>2. x.weight = pane[p].weight /\ x.rect = pane[p].rect
      BY DEF Ended
    <3>3. After([pane EXCEPT ![p] = x], Taken(c), shown, focus)
      BY <2>4, <3>1, Zenon
    <3> HIDE DEF x
    <3> QED
      BY <2>1, <3>2, <3>3, <1>2
  <2> QED
    BY <2>1, <2>3, <2>4
<1>6. ASSUME NEW c \in Conns, TakeGone(c) PROVE Moves
  <2> DEFINE p == conn[c].pane
             x == [pane[p] EXCEPT !.conn = New]
             y == [pane[p] EXCEPT !.frozen = TRUE]
             dn == [Taken(c) EXCEPT ![New] = Reading(pane[p].name, p, FALSE, pane[p].grid)]
  <2>1. /\ at = "idle" /\ conn[c].q # <<>> /\ ~Stale(c)
        /\ \/ After(pane, Taken(c), shown, focus)
           \/ After([pane EXCEPT ![p] = x], dn, shown, focus)
           \/ After([pane EXCEPT ![p] = y], Taken(c), shown, focus)
    BY <1>6, Zenon DEF TakeGone, Report
  <2>2. IsPane(pane[p])
    BY <2>1, Fresher
  <2>3. /\ x.weight = pane[p].weight /\ x.rect = pane[p].rect
        /\ y.weight = pane[p].weight /\ y.rect = pane[p].rect
    <3> DEFINE new == New
               t == TRUE
    <3> HIDE DEF new, t
    <3>1. /\ [pane[p] EXCEPT !.conn = new].weight = pane[p].weight
          /\ [pane[p] EXCEPT !.conn = new].rect = pane[p].rect
          /\ [pane[p] EXCEPT !.frozen = t].weight = pane[p].weight
          /\ [pane[p] EXCEPT !.frozen = t].rect = pane[p].rect
      BY <2>2, PaneFields
    <3> QED
      BY <3>1 DEF new, t
  <2> HIDE DEF x, y, dn
  <2> QED
    BY <2>1, <2>3, <1>2, AfterMoves
<1>7. CASE Winch
  <2> DEFINE laid == Laid(pane, shown, how, window)
             dn == Told(conn, laid)
  <2>1. known' = window /\ Shows(laid, dn, shown, focus, how)
    BY <1>7 DEF Winch
  <2>2. Shows(Laid(pane, shown, how, known'), dn, shown, focus, how)
    BY <2>1
  <2> HIDE DEF dn
  <2> QED
    BY <2>2 DEF Moves, LaysOut
<1> QED
  BY <1>1, <1>3, <1>4, <1>5, <1>6, <1>7

\* Every step is one of these.
LEMMA StepMoves == ASSUME IInv, [Next]_vars PROVE Moves
<1>1. CASE \/ \E n \in Names : \/ Exits(n) \/ Appears(n)
                               \/ \E ms \in SUBSET Modes : Switches(n, ms)
                               \/ \E m \in Names : RenamedElsewhere(n, m)
           \/ DaemonGoes \/ DaemonComes \/ WindowChanges \/ Leave
           \/ (\E o \in {"columns", "rows"} : SplitLooks(o)) \/ SwitchLooks \/ Create \/ Revive
           \/ CallFails \/ Forget \/ Returns \/ KeyFails \/ Due \/ UNCHANGED vars
  BY <1>1, OthersMove
<1>2. CASE \/ OpenPane \/ SwapPane \/ ClosePane \/ Remove \/ Focus \/ Scrolls
           \/ (\E m \in Names : Rename(m)) \/ (\E step \in {-1, 1} : Grow(step))
  BY <1>2, CommandsMove
<1>3. CASE \/ \E c \in Conns : \/ TakeStale(c) \/ TakeModes(c) \/ TakeRenamed(c)
                               \/ TakeFinished(c) \/ TakeGone(c)
           \/ Winch
  BY <1>3, ReportsMove
<1>4. ASSUME NEW n \in Names, Begin(n) PROVE Moves
  <2>1. /\ known' = Looked
        /\ \E pn, cn, sh, fo, ho : Shows(Laid(pn, sh, ho, Looked), cn, sh, fo, ho)
    BY <1>4, Zenon DEF Begin
  <2> QED
    BY <2>1, Zenon DEF Moves, LaysOut
<1> QED
  BY <1>1, <1>2, <1>3, <1>4, Zenon DEF Next

----------------------------------------------------------------------------
(* The invariant, and what follows from it. *)

\* It holds before the first session.
LEMMA InitIInv == Init => IInv
<1> SUFFICES ASSUME Init PROVE IInv
  OBVIOUS
<1>1. /\ wish = [n \in Names |-> {}]
      /\ conn = [c \in Conns |-> NoConn] /\ pane = [p \in PaneIds |-> NoPane]
      /\ shown = <<>> /\ at = "out" /\ saved = [n \in Names |-> NoLayout]
      /\ window \in Sizes /\ known = window /\ term = {} /\ told = {} /\ askew = {}
  BY DEF Init, ScreenInit
<1>2. ViewInv
  BY <1>1 DEF ViewInv, Runs
<1>3. ServiceInv
  BY <1>1 DEF ServiceInv
<1>4. DiskInv
  <2>1. NoLayout.panes \in Seq([name : Names, weight : Weights])
    BY DEF NoLayout
  <2> HIDE DEF NoLayout
  <2> QED
    BY <1>1, <2>1 DEF DiskInv, Arrangements, Runs
<1>5. ScreenInv
  BY <1>1 DEF ScreenInv, Differs, Runs
<1>6. WindowInv
  BY <1>1 DEF WindowInv
<1> QED
  BY <1>2, <1>3, <1>4, <1>5, <1>6 DEF IInv

\* Nothing of it changes when nothing does.
LEMMA StutterKeeps == ASSUME IInv, UNCHANGED vars PROVE IInv'
<1>1. /\ svc' = svc /\ wish' = wish /\ up' = up /\ conn' = conn /\ pane' = pane /\ shown' = shown
      /\ focus' = focus /\ how' = how /\ at' = at /\ doing' = doing /\ asked' = asked
      /\ saved' = saved /\ written' = written /\ unkept' = unkept /\ owed' = owed
      /\ term' = term /\ told' = told /\ askew' = askew
      /\ window' = window /\ known' = known /\ winch' = winch /\ missed' = missed
  BY DEF vars, service, view, disk, screen, size
<1>2. ViewInv'
  BY <1>1 DEF IInv, ViewInv, Runs
<1>3. ServiceInv' /\ WindowInv'
  BY <1>1 DEF IInv, ServiceInv, WindowInv
<1>4. DiskInv'
  BY <1>1 DEF IInv, DiskInv, Runs
<1>5. ScreenInv'
  BY <1>1 DEF IInv, ScreenInv, Runs, Focused
<1> QED
  BY <1>2, <1>3, <1>4, <1>5 DEF IInv

\* It holds after every step.
LEMMA StepIInv == IInv /\ [Next]_vars => IInv'
<1> SUFFICES ASSUME IInv, [Next]_vars PROVE IInv'
  OBVIOUS
<1>1. ASSUME NEW n \in Names, Exits(n) PROVE IInv'
  BY <1>1, ExitsKeeps
<1>2. ASSUME NEW n \in Names, Appears(n) PROVE IInv'
  BY <1>2, AppearsKeeps
<1>3. ASSUME NEW n \in Names, NEW ms \in SUBSET Modes, Switches(n, ms) PROVE IInv'
  BY <1>3, SwitchesKeeps
<1>4. ASSUME NEW n \in Names, NEW m \in Names, RenamedElsewhere(n, m) PROVE IInv'
  BY <1>4, RenamedElsewhereKeeps
<1>5. ASSUME NEW m \in Names, Rename(m) PROVE IInv'
  BY <1>5, RenameKeeps
<1>6. CASE DaemonGoes
  BY <1>6, DaemonGoesKeeps
<1>7. CASE DaemonComes
  BY <1>7, DaemonComesKeeps
<1>8. CASE WindowChanges
  BY <1>8, WindowChangesKeeps
<1>9. ASSUME NEW n \in Names, Begin(n) PROVE IInv'
  BY <1>9, BeginKeeps
<1>10. CASE Leave
  BY <1>10, LeaveKeeps
<1>11. CASE (\E o \in {"columns", "rows"} : SplitLooks(o)) \/ SwitchLooks \/ Create \/ Revive
  BY <1>11, LooksKeep
<1>12. CASE OpenPane
  BY <1>12, OpenPaneKeeps
<1>13. CASE SwapPane
  BY <1>13, SwapPaneKeeps
<1>14. CASE CallFails
  BY <1>14, CallFailsKeeps
<1>15. CASE ClosePane
  BY <1>15, ClosePaneKeeps
<1>16. CASE Remove
  BY <1>16, RemoveKeeps
<1>17. CASE Focus \/ Scrolls
  BY <1>17, FocusKeeps
<1>18. CASE Forget
  BY <1>18, ForgetKeeps
<1>19. CASE Returns \/ KeyFails
  BY <1>19, ReturnsKeeps
<1>20. ASSUME NEW step \in {-1, 1}, Grow(step) PROVE IInv'
  BY <1>20, GrowKeeps
<1>21. ASSUME NEW c \in Conns, TakeStale(c) PROVE IInv'
  BY <1>21, TakeStaleKeeps
<1>22. ASSUME NEW c \in Conns, TakeModes(c) PROVE IInv'
  BY <1>22, TakeModesKeeps
<1>23. ASSUME NEW c \in Conns, TakeRenamed(c) PROVE IInv'
  BY <1>23, TakeRenamedKeeps
<1>24. ASSUME NEW c \in Conns, TakeFinished(c) PROVE IInv'
  BY <1>24, TakeFinishedKeeps
<1>25. ASSUME NEW c \in Conns, TakeGone(c) PROVE IInv'
  BY <1>25, TakeGoneKeeps
<1>26. CASE Due
  BY <1>26, DueKeeps
<1>27. CASE Winch
  BY <1>27, WinchKeeps
<1>28. CASE UNCHANGED vars
  BY <1>28, StutterKeeps
<1> QED
  BY <1>1, <1>2, <1>3, <1>4, <1>5, <1>6, <1>7, <1>8, <1>9, <1>10, <1>11, <1>12, <1>13, <1>14,
     <1>15, <1>16, <1>17, <1>18, <1>19, <1>20, <1>21, <1>22, <1>23, <1>24, <1>25, <1>26, <1>27,
     <1>28 DEF Next

\* And so always.
LEMMA IInvAlways == Spec => []IInv
<1>1. Init => IInv
  BY InitIInv
<1>2. IInv /\ [Next]_vars => IInv'
  BY StepIInv
<1> QED
  BY <1>1, <1>2, PTL DEF Spec

\* As long as a pane shows a service that somebody reports of, one goroutine reads its
\* connection, and never do two: dispatch and readPane, whatever is split, swapped,
\* closed, removed or reopened, and whenever the daemon goes and comes back.
THEOREM OneReaderAlways == Spec => []OneReader
<1>1. ASSUME IInv PROVE OneReader
  <2>1. CASE Runs
    <3>1. Wired(pane, conn, On(shown)) /\ shown \in Seq(PaneIds)
      BY <1>1, <2>1 DEF IInv, ViewInv, Row
    <3>2. \A c \in Conns : conn[c].readers \in {0, 1}
      BY <3>1 DEF Wired, Line
    <3>3. ASSUME NEW i \in DOMAIN shown
          PROVE  LET p == pane[shown[i]]
                 IN  conn[p.conn].readers = 1 \/ p.finished \/ p.frozen
      <4>1. shown[i] \in On(shown)
        BY <3>1, Places
      <4> QED
        BY <3>1, <4>1 DEF Wired, Goes
    <3> QED
      BY <3>2, <3>3 DEF OneReader
  <2>2. CASE ~Runs
    <3>1. conn = [c \in Conns |-> NoConn] /\ shown = <<>>
      BY <1>1, <2>2 DEF IInv, ViewInv
    <3>2. \A c \in Conns : conn[c].readers = 0
      BY <3>1, Empty
    <3>3. DOMAIN shown = {}
      BY <3>1
    <3> QED
      BY <3>2, <3>3 DEF OneReader
  <2> QED
    BY <2>1, <2>2
<1> QED
  BY <1>1, IInvAlways, PTL

\* What a pane is called, and so what revive, remove and rename act on, is the service
\* at the other end of its connection, or becomes that with the renames on their way
\* (the mux session's "renamed" case); reports of the connection before are ignored.
THEOREM PaneNamedAlways == Spec => []PaneNamed
<1>1. ASSUME IInv PROVE PaneNamed
  <2> SUFFICES ASSUME at = "idle", NEW i \in DOMAIN shown,
                      conn[pane[shown[i]].conn].name # None
               PROVE  Becomes(conn[pane[shown[i]].conn].q, pane[shown[i]].name,
                              conn[pane[shown[i]].conn].name)
    BY DEF PaneNamed
  <2>1. Wired(pane, conn, On(shown)) /\ shown \in Seq(PaneIds)
    BY <1>1 DEF IInv, ViewInv, Row, Runs
  <2>2. shown[i] \in On(shown)
    BY <2>1, Places
  <2> QED
    BY <2>1, <2>2 DEF Wired, Goes
<1> QED
  BY <1>1, IInvAlways, PTL

\* Whenever the session waits for a key or a report, the arrangement on the screen is the
\* one on disk (remember and saveLayout), but after a write that failed, which is not
\* tried again, after a restore that left a pane out, and after a service got a new name.
THEOREM LayoutKeptAlways == Spec => []LayoutKept
<1>1. IInv => LayoutKept
  BY DEF IInv, DiskInv, LayoutKept, Runs
<1> QED
  BY <1>1, IInvAlways, PTL

\* The grid of every pane that has a cell and the daemon at the other end of its connection
\* know the size it was laid out with, and the session that of the window, but for a
\* change between two sessions, when nobody listens for it.
THEOREM SizesToldAlways == Spec => []SizesTold
<1>1. ASSUME IInv PROVE SizesTold
  <2> SUFFICES ASSUME shown # <<>> PROVE SizesTold
    BY DEF SizesTold
  <2>1. Runs
    BY <1>1 DEF IInv, ViewInv
  <2>2. Sized(pane, conn, On(shown)) /\ shown \in Seq(PaneIds)
    BY <1>1, <2>1 DEF IInv, ViewInv, Row
  <2>3. winch \/ missed \/ known = window
    BY <1>1, <2>1 DEF IInv, WindowInv, Runs
  <2>4. \A i \in DOMAIN shown : shown[i] \in On(shown)
    BY <2>2, Places
  <2> QED
    BY <2>2, <2>3, <2>4 DEF Sized, SizesTold
<1> QED
  BY <1>1, IInvAlways, PTL

\* And so every pane always has its part.
LEMMA PartInvAlways == Spec => []PartInv
<1>1. Init => PartInv
  BY DEF Init, PartInv, Runs
<1>2. IInv /\ IInv' /\ PartInv /\ [Next]_vars => PartInv'
  BY StepMoves, PartsKept
<1> QED
  BY <1>1, <1>2, IInvAlways, PTL DEF Spec

\* The panes share the window out, as layoutColumns and layoutRows compute it: whatever
\* was split, closed, resized, restored or reopened, each has at least a cell, none lies
\* on another and nothing is left over, as long as there is a cell to each fifth of a
\* weight; and grid, daemon and session know the sizes.
THEOREM PanesFitAlways == Spec => []PanesFit
<1>1. ASSUME IInv, PartInv, SizesTold PROVE PanesFit
  <2> DEFINE w == [i \in DOMAIN shown |-> pane[shown[i]].weight]
             rects == [i \in DOMAIN shown |-> pane[shown[i]].rect]
             room == IF how = "rows" THEN known.rows ELSE known.cols - (Len(shown) - 1)
             parts == LayoutPanes(w, how, known.cols, known.rows)
  <2> SUFFICES ASSUME shown # <<>>, Total(w) <= room PROVE Fits(rects, known.cols, known.rows)
    BY <1>1, Zenon DEF PanesFit
  <2>1. Runs
    BY <1>1 DEF IInv, ViewInv
  <2>2. Wired(pane, conn, On(shown)) /\ shown \in Seq(PaneIds)
    BY <1>1, <2>1 DEF IInv, ViewInv, Row
  <2>3. /\ DOMAIN shown = 1..Len(shown) /\ Len(shown) \in Nat
        /\ \A i \in 1..Len(shown) : shown[i] \in PaneIds
    BY <2>2, Places
  <2>4. w = [i \in 1..Len(shown) |-> w[i]] /\ \A i \in 1..Len(shown) : w[i] \in Weights
    BY <2>2, <2>3 DEF Wired
  <2>5. \A i \in 1..Len(shown) : rects[i] = parts[i]
    BY <1>1, <2>1, <2>3, Zenon DEF PartInv, Parted, Parts
  <2>6. rects = [i \in 1..Len(shown) |-> rects[i]]
    BY <2>3
  <2>7. known.cols \in Nat \ {0} /\ known.rows \in Nat \ {0}
    BY <1>1, PanesAssumption DEF IInv, WindowInv
  <2>8. Len(shown) >= 1
    BY <2>2, EmptySeq, LenProperties
  <2> HIDE DEF w, rects
  <2>9. w \in Seq(Nat \ {0}) /\ Len(w) = Len(shown) /\ Len(rects) = Len(shown) /\ w # <<>>
    <3>1. Len(w) = Len(shown) /\ Len(rects) = Len(shown)
      BY <2>3, <2>4, <2>6, LenIs
    <3>2. w \in Seq(Nat \ {0})
      BY <2>3, <2>4, IsASeq DEF Weights
    <3> QED
      BY <3>1, <3>2, <2>8
  <2>10. Total(w) <= IF how = "rows" THEN known.rows ELSE known.cols - (Len(w) - 1)
    BY <2>9
  <2>11. Fits(parts, known.cols, known.rows)
    <3> DEFINE cols == known.cols
               rows == known.rows
    <3>1. cols \in Nat \ {0} /\ rows \in Nat \ {0}
      BY <2>7
    <3>2. Total(w) <= IF how = "rows" THEN rows ELSE cols - (Len(w) - 1)
      BY <2>10
    <3> HIDE DEF cols, rows
    <3>3. Fits(LayoutPanes(w, how, cols, rows), cols, rows)
      BY <2>9, <3>1, <3>2, PanesFitOnScreen
    <3> QED
      BY <3>3 DEF cols, rows
  <2>12. parts = [i \in 1..Len(shown) |-> parts[i]]
    <3>1. DOMAIN w = 1..Len(shown)
      BY <2>4
    <3>2. CASE how = "rows"
      <4>1. parts = LayoutRows(w, known.cols, known.rows)
        BY <3>2 DEF LayoutPanes
      <4> QED
        BY <3>1, <4>1 DEF LayoutRows
    <3>3. CASE how # "rows"
      <4>1. parts = LayoutColumns(w, known.cols, known.rows)
        BY <3>3 DEF LayoutPanes
      <4> QED
        BY <2>9, <4>1 DEF LayoutColumns
    <3> QED
      BY <3>2, <3>3
  <2> HIDE DEF parts
  <2>13. rects = parts
    BY <2>5, <2>6, <2>12
  <2> QED
    BY <2>11, <2>13
<1> QED
  BY <1>1, IInvAlways, PartInvAlways, SizesToldAlways, PTL

\* The real terminal is in the modes of the pane with the keyboard whenever no repaint is
\* owed, and given back in none of them when the attach is over (renderedScreen's
\* applyModes and close), but for what a forced redraw left behind.
THEOREM KeyboardModesAlways == Spec => []KeyboardModes
<1>1. ASSUME IInv PROVE KeyboardModes
  <2>1. /\ Differs(term, told) \subseteq askew
        /\ at = "idle" /\ ~owed => told = Focused.modes
        /\ at = "out" => told = {}
    BY <1>1 DEF IInv, ScreenInv, Runs
  <2>2. at = "out" => term \subseteq askew
    BY <2>1 DEF Differs
  <2> QED
    BY <2>1, <2>2 DEF KeyboardModes
<1> QED
  BY <1>1, IInvAlways, PTL

----------------------------------------------------------------------------
(* The scrollback of a pane's terminal, which Grid has in its states: an     *)
(* array that grows to its limit and is then written around, and that may    *)
(* be given another limit.                                                  *)

Scrollback == INSTANCE HistoryRing

Rings(Printed) == [lines : Seq(Printed), start : Nat, n : Nat, limit : Nat, all : Seq(Printed)]

\* An index that may have gone past the end of n lines once.
Around(i, n) == IF i < n THEN i ELSE i - n

\* The array is full, or not gone around yet, and the i-th oldest line is where it
\* belongs.
RingIs(lines, start, n, limit, all) ==
    /\ n = Len(lines) /\ n = Len(all) /\ n <= limit
    /\ start = 0 \/ start < n
    /\ n < limit => start = 0
    /\ \A i \in 1..n : all[i] = lines[Around(start + (i - 1), n) + 1]

RingOK(h) == RingIs(h.lines, h.start, h.n, h.limit, h.all)

LEMMA AroundOnce ==
    ASSUME NEW n \in Nat, NEW i \in Nat, i < n + n
    PROVE  i % n = Around(i, n) /\ Around(i, n) \in 0..(n - 1)
  BY DEF Around

LEMMA RingFields ==
    ASSUME NEW Printed, NEW h \in Rings(Printed)
    PROVE  /\ h.lines \in Seq(Printed) /\ h.all \in Seq(Printed)
           /\ h.start \in Nat /\ h.n \in Nat /\ h.limit \in Nat
  BY DEF Rings

\* Read by age, the ring is the history it stands for.
LEMMA RingRead ==
    ASSUME NEW Printed, NEW h \in Rings(Printed), RingOK(h)
    PROVE  Scrollback!RingLines(h) = h.all
<1>1. h.n \in Nat /\ h.start \in Nat /\ h.n = Len(h.lines) /\ h.n = Len(h.all) /\ h.all \in Seq(Printed)
  BY RingFields DEF RingOK, RingIs
<1>2. ASSUME NEW i \in 1..h.n PROVE Scrollback!LineAt(h, i - 1) = h.all[i]
  <2>1. h.start < h.n
    BY <1>1, <1>2 DEF RingOK, RingIs
  <2>2. h.start + (i - 1) \in Nat /\ h.start + (i - 1) < h.n + h.n
    BY <1>1, <2>1
  <2>3. (h.start + (i - 1)) % h.n = Around(h.start + (i - 1), h.n)
    BY <1>1, <2>2, AroundOnce
  <2> QED
    BY <2>3, <1>1 DEF Scrollback!LineAt, RingOK, RingIs
<1>3. h.all = [i \in 1..h.n |-> h.all[i]]
  BY <1>1, LenProperties
<1>4. Scrollback!RingLines(h) = [i \in 1..h.n |-> Scrollback!LineAt(h, i - 1)]
  BY DEF Scrollback!RingLines
<1> QED
  BY <1>2, <1>3, <1>4, Zenon

LEMMA NewestIs ==
    ASSUME NEW Printed, NEW s \in Seq(Printed), NEW n \in Nat
    PROVE  /\ Scrollback!Newest(s, n) \in Seq(Printed)
           /\ Len(Scrollback!Newest(s, n)) = IF Len(s) <= n THEN Len(s) ELSE n
           /\ Len(s) > n => \A i \in 1..n : Scrollback!Newest(s, n)[i] = s[Len(s) - n + i]
<1>1. CASE Len(s) <= n
  BY <1>1 DEF Scrollback!Newest
<1>2. CASE Len(s) > n
  <2>1. Scrollback!Newest(s, n) = SubSeq(s, Len(s) - n + 1, Len(s))
    BY <1>2 DEF Scrollback!Newest
  <2>2. /\ SubSeq(s, Len(s) - n + 1, Len(s)) \in Seq(Printed)
        /\ Len(SubSeq(s, Len(s) - n + 1, Len(s))) = n
        /\ \A i \in 1..n : SubSeq(s, Len(s) - n + 1, Len(s))[i] = s[Len(s) - n + i]
    BY <1>2, SubSeqProperties
  <2> QED
    BY <1>2, <2>1, <2>2
<1> QED
  BY <1>1, <1>2, LenProperties

LEMMA AppendedIs ==
    ASSUME NEW Printed, NEW s \in Seq(Printed), NEW e \in Printed
    PROVE  /\ Append(s, e) \in Seq(Printed) /\ Len(Append(s, e)) = Len(s) + 1
           /\ Append(s, e)[Len(s) + 1] = e /\ \A i \in 1..Len(s) : Append(s, e)[i] = s[i]
  BY AppendProperties

LEMMA PutIn ==
    ASSUME NEW Printed, NEW s \in Seq(Printed), NEW e \in Printed, NEW j \in 1..Len(s)
    PROVE  /\ [s EXCEPT ![j] = e] \in Seq(Printed) /\ Len([s EXCEPT ![j] = e]) = Len(s)
           /\ \A i \in 1..Len(s) : [s EXCEPT ![j] = e][i] = IF i = j THEN e ELSE s[i]
  BY ExceptSeq

\* A line more at the end of an array that is not full.
LEMMA GrownIs ==
    ASSUME NEW Printed, NEW lines \in Seq(Printed), NEW n \in Nat, NEW limit \in Nat, NEW all \in Seq(Printed),
           RingIs(lines, 0, n, limit, all), n < limit, NEW line \in Printed,
           NEW grown, grown = Append(lines, line), NEW more, more = Append(all, line)
    PROVE  RingIs(grown, 0, n + 1, limit, more)
<1>l. n = Len(lines) /\ n = Len(all)
  BY DEF RingIs
<1>1. Len(grown) = n + 1 /\ grown[n + 1] = line /\ \A i \in 1..n : grown[i] = lines[i]
  <2>1. /\ Len(Append(lines, line)) = Len(lines) + 1
        /\ Append(lines, line)[Len(lines) + 1] = line
        /\ \A i \in 1..Len(lines) : Append(lines, line)[i] = lines[i]
    BY AppendedIs
  <2> QED
    BY <2>1, <1>l, Zenon
<1>2. Len(more) = n + 1 /\ more[n + 1] = line /\ \A i \in 1..n : more[i] = all[i]
  <2>1. /\ Len(Append(all, line)) = Len(all) + 1
        /\ Append(all, line)[Len(all) + 1] = line
        /\ \A i \in 1..Len(all) : Append(all, line)[i] = all[i]
    BY AppendedIs
  <2> QED
    BY <2>1, <1>l, Zenon
<1>3. \A i \in 1..n : all[i] = lines[i]
  BY DEF RingIs, Around
<1>4. ASSUME NEW i \in 1..(n + 1)
      PROVE  more[i] = grown[Around(0 + (i - 1), n + 1) + 1]
  <2>1. Around(0 + (i - 1), n + 1) + 1 = i
    BY DEF Around
  <2>2. i = n + 1 \/ i \in 1..n
    OBVIOUS
  <2> QED
    BY <2>1, <2>2, <1>1, <1>2, <1>3
<1>5. n + 1 <= limit
  OBVIOUS
<1> QED
  BY ONLY <1>1, <1>2, <1>4, <1>5 DEF RingIs

\* A line in place of the oldest in one that is.
LEMMA TurnedIs ==
    ASSUME NEW Printed, NEW lines \in Seq(Printed), NEW start \in Nat, NEW n \in Nat, NEW all \in Seq(Printed),
           RingIs(lines, start, n, n, all), n # 0, NEW line \in Printed
    PROVE  /\ RingIs([lines EXCEPT ![start + 1] = line], Around(start + 1, n), n, n,
                     Scrollback!Newest(Append(all, line), n))
           /\ [lines EXCEPT ![start + 1] = line] \in Seq(Printed)
           /\ Scrollback!Newest(Append(all, line), n) \in Seq(Printed)
           /\ Around(start + 1, n) \in Nat
<1> DEFINE turned == [lines EXCEPT ![start + 1] = line]
           next == Scrollback!Newest(Append(all, line), n)
<1>l. n = Len(lines) /\ n = Len(all) /\ start < n
  BY DEF RingIs
<1>a. /\ Append(all, line) \in Seq(Printed) /\ Len(Append(all, line)) = n + 1
      /\ Append(all, line)[n + 1] = line /\ \A i \in 1..n : Append(all, line)[i] = all[i]
  BY <1>l, AppendedIs
<1>1. next \in Seq(Printed) /\ Len(next) = n /\ \A i \in 1..n : next[i] = Append(all, line)[i + 1]
  <2> DEFINE more == Append(all, line)
  <2>1. more \in Seq(Printed) /\ Len(more) = n + 1 /\ next = Scrollback!Newest(more, n)
    BY <1>a
  <2> HIDE DEF more
  <2>2. next \in Seq(Printed) /\ Len(next) = n /\ \A i \in 1..n : next[i] = more[Len(more) - n + i]
    <3>1. Len(more) > n /\ ~(Len(more) <= n)
      BY <2>1
    <3>2. /\ Scrollback!Newest(more, n) \in Seq(Printed)
          /\ Len(Scrollback!Newest(more, n)) = IF Len(more) <= n THEN Len(more) ELSE n
          /\ Len(more) > n =>
                \A i \in 1..n : Scrollback!Newest(more, n)[i] = more[Len(more) - n + i]
      BY <2>1, NewestIs
    <3> HIDE DEF next
    <3> QED
      BY <3>1, <3>2, <2>1
  <2>3. \A i \in 1..n : Len(more) - n + i = i + 1
    BY <2>1
  <2>4. \A i \in 1..n : next[i] = more[i + 1]
    BY <2>2, <2>3
  <2> QED
    BY <2>2, <2>4 DEF more
<1>2. /\ turned \in Seq(Printed) /\ Len(turned) = n
      /\ \A i \in 1..n : turned[i] = IF i = start + 1 THEN line ELSE lines[i]
  <2>1. start + 1 \in 1..Len(lines)
    BY <1>l
  <2>2. /\ [lines EXCEPT ![start + 1] = line] \in Seq(Printed)
        /\ Len([lines EXCEPT ![start + 1] = line]) = Len(lines)
        /\ \A i \in 1..Len(lines) : [lines EXCEPT ![start + 1] = line][i]
                                       = IF i = start + 1 THEN line ELSE lines[i]
    BY ONLY <2>1, PutIn, lines \in Seq(Printed), line \in Printed
  <2> QED
    BY <1>l, <2>2, Zenon DEF turned
<1> HIDE DEF turned, next
<1> DEFINE first == Around(start + 1, n)
<1>3. first \in 0..(n - 1)
  BY <1>l DEF Around
<1>4. ASSUME NEW i \in 1..n PROVE next[i] = turned[Around(first + (i - 1), n) + 1]
  <2>1. CASE i = n
    <3>1. Around(first + (i - 1), n) = start
      BY <1>l, <2>1 DEF Around
    <3>2. next[i] = line /\ turned[start + 1] = line
      BY <2>1, <1>l, <1>a, <1>1, <1>2
    <3> QED
      BY <3>1, <3>2
  <2>2. CASE i # n
    <3> DEFINE slot == Around(start + i, n)
    <3>1. Around(first + (i - 1), n) = slot /\ slot + 1 \in 1..n /\ slot + 1 # start + 1 /\ i + 1 \in 1..n
      BY <1>l, <2>2 DEF Around
    <3> HIDE DEF slot, first
    <3>2. next[i] = all[i + 1]
      BY <3>1, <1>1, <1>a
    <3>3. all[i + 1] = lines[Around(start + ((i + 1) - 1), n) + 1]
      BY <3>1 DEF RingIs
    <3>4. (i + 1) - 1 = i
      OBVIOUS
    <3>5. turned[slot + 1] = lines[slot + 1]
      BY <3>1, <1>2
    <3> QED
      BY <3>1, <3>2, <3>3, <3>4, <3>5 DEF slot
  <2> QED
    BY <2>1, <2>2
<1> HIDE DEF first
<1> QED
  <2>1. RingIs(turned, first, n, n, next)
    BY <1>1, <1>2, <1>3, <1>4 DEF RingIs
  <2>2. first \in Nat
    BY <1>3
  <2> QED
    BY ONLY <2>1, <2>2, <1>1, <1>2 DEF turned, next, first

\* A line that scrolls off is the newest, and at the limit the oldest makes room.
LEMMA PushKeeps ==
    ASSUME NEW Printed, NEW h \in Rings(Printed), RingOK(h), NEW line \in Printed
    PROVE  /\ Scrollback!Push(h, line) \in Rings(Printed) /\ RingOK(Scrollback!Push(h, line))
           /\ Scrollback!Push(h, line).all = Scrollback!Newest(Append(h.all, line), h.limit)
<1> DEFINE k == Scrollback!Push(h, line)
           grown == Append(h.lines, line)
           turned == [h.lines EXCEPT ![h.start + 1] = line]
           more == Append(h.all, line)
           next == Scrollback!Newest(more, h.limit)
<1>f. /\ h.lines \in Seq(Printed) /\ h.all \in Seq(Printed)
      /\ h.start \in Nat /\ h.n \in Nat /\ h.limit \in Nat
  BY RingFields
<1>l. h.n = Len(h.lines) /\ h.n = Len(h.all) /\ h.n <= h.limit
  BY DEF RingOK, RingIs
<1>a. grown \in Seq(Printed) /\ more \in Seq(Printed) /\ Len(more) = h.n + 1
  BY <1>f, <1>l, AppendedIs
<1>1. CASE h.limit = 0
  <2>1. k = h /\ h.all = <<>>
    BY <1>1, <1>f, <1>l, EmptySeq DEF Scrollback!Push
  <2> HIDE DEF more
  <2>2. next \in Seq(Printed) /\ Len(next) = 0
    BY <1>1, <1>f, <1>a, NewestIs
  <2> HIDE DEF k, next
  <2>3. k.all = next
    BY <2>1, <2>2, EmptySeq
  <2> QED
    BY <2>1, <2>3 DEF k, next, more
<1>2. CASE h.limit # 0 /\ h.n < h.limit
  <2>1. k = [h EXCEPT !.lines = grown, !.n = h.n + 1, !.all = more]
    BY <1>2, <1>l DEF Scrollback!Push
  <2>2. h.start = 0 /\ RingIs(h.lines, 0, h.n, h.limit, h.all)
    BY <1>2 DEF RingOK, RingIs
  <2>3. RingIs(grown, 0, h.n + 1, h.limit, more)
    BY <1>2, <1>f, <2>2, GrownIs
  <2>4. next = more
    BY <1>a, <1>2, <1>f DEF Scrollback!Newest
  <2>5. h.n + 1 \in Nat
    BY <1>f
  <2> HIDE DEF k, grown, more, next
  <2>6. /\ k \in Rings(Printed) /\ k.lines = grown /\ k.n = h.n + 1 /\ k.all = more
        /\ k.start = h.start /\ k.limit = h.limit
    BY ONLY <2>1, <2>5, <1>a, h \in Rings(Printed) DEF Rings
  <2>7. RingOK(k)
    BY <2>2, <2>3, <2>6 DEF RingOK
  <2> QED
    BY <2>4, <2>6, <2>7 DEF k, next, more
<1>3. CASE h.limit # 0 /\ h.n = h.limit
  <2> DEFINE first == Around(h.start + 1, h.n)
  <2>1. h.start < h.n
    BY <1>3, <1>f DEF RingOK, RingIs
  <2>2. (h.start + 1) % h.limit = first
    BY <1>3, <1>f, <2>1, AroundOnce
  <2>3. k = [h EXCEPT !.lines = turned, !.start = first, !.n = h.limit, !.all = next]
    <3>1. k = [h EXCEPT !.lines[h.start + 1] = line, !.start = (@ + 1) % h.limit, !.n = h.limit,
                        !.all = Scrollback!Newest(Append(@, line), h.limit)]
      <4>1. ~(Len(h.lines) < h.limit)
        BY <1>3, <1>l, <1>f
      <4> QED
        BY <4>1, <1>3, Zenon DEF Scrollback!Push
    <3>2. h = [lines |-> h.lines, start |-> h.start, n |-> h.n, limit |-> h.limit, all |-> h.all]
      BY DEF Rings
    <3> QED
      BY ONLY <3>1, <3>2, <2>2
  <2>4. RingIs(h.lines, h.start, h.n, h.n, h.all)
    BY <1>3 DEF RingOK
  <2>5. /\ RingIs(turned, first, h.n, h.n, next)
        /\ turned \in Seq(Printed) /\ next \in Seq(Printed) /\ first \in Nat
    BY <1>3, <1>f, <2>4, TurnedIs
  <2> HIDE DEF k, turned, more, next, first
  <2>6. /\ k \in Rings(Printed) /\ k.lines = turned /\ k.start = first /\ k.n = h.limit
        /\ k.all = next /\ k.limit = h.limit
    BY ONLY <2>3, <2>5, <1>f, h \in Rings(Printed) DEF Rings
  <2>7. RingOK(k)
    BY <1>3, <2>5, <2>6 DEF RingOK
  <2> QED
    BY <2>6, <2>7 DEF k, next, more
<1> QED
  BY <1>1, <1>2, <1>3, <1>l, <1>f

\* A shorter limit keeps the newest lines, a longer one all of them.
LEMMA SetLimitKeeps ==
    ASSUME NEW Printed, NEW h \in Rings(Printed), RingOK(h), NEW limit \in Nat
    PROVE  /\ Scrollback!SetLimit(h, limit) \in Rings(Printed) /\ RingOK(Scrollback!SetLimit(h, limit))
           /\ Scrollback!SetLimit(h, limit).all = Scrollback!Newest(h.all, limit)
<1>f. /\ h.lines \in Seq(Printed) /\ h.all \in Seq(Printed)
      /\ h.start \in Nat /\ h.n \in Nat /\ h.limit \in Nat
  BY RingFields
<1>l. h.n = Len(h.all) /\ h.n <= h.limit
  BY DEF RingOK, RingIs
<1> DEFINE kept == Scrollback!Newest(h.all, limit)
           k == Scrollback!SetLimit(h, limit)
<1>1. CASE limit = h.limit
  <2>1. k = h /\ kept = h.all
    BY <1>1, <1>l, <1>f DEF Scrollback!SetLimit, Scrollback!Newest
  <2> QED
    BY <2>1
<1>2. CASE limit # h.limit
  <2>1. k = [lines |-> kept, start |-> 0, n |-> Len(kept), limit |-> limit, all |-> kept]
    BY <1>2, RingRead DEF Scrollback!SetLimit
  <2>2. kept \in Seq(Printed) /\ Len(kept) \in Nat /\ Len(kept) <= limit
    <3>1. h.all \in Seq(Printed) /\ Len(h.all) \in Nat
      BY <1>f, LenProperties
    <3>2. kept \in Seq(Printed) /\ Len(kept) = IF Len(h.all) <= limit THEN Len(h.all) ELSE limit
      BY ONLY <3>1, NewestIs, limit \in Nat
    <3> HIDE DEF kept
    <3> QED
      BY ONLY <3>1, <3>2, limit \in Nat
  <2> HIDE DEF kept, k
  <2>3. k \in Rings(Printed)
    BY <2>1, <2>2 DEF Rings
  <2>4. RingOK(k)
    BY <2>1, <2>2 DEF RingOK, RingIs, Around
  <2> QED
    BY <2>1, <2>3, <2>4 DEF k, kept
<1> QED
  BY <1>1, <1>2

\* However long the scrollback is, and however its length is changed, it is the
\* newest of the lines that have scrolled off, the oldest first: the ring of
\* internal/vt/grid/history.go.
THEOREM ScrollbackIsNewest ==
    ASSUME NEW Printed, NEW limit \in Nat
    PROVE  /\ RingOK(Scrollback!NewRing(limit)) /\ Scrollback!NewRing(limit) \in Rings(Printed)
           /\ \A h \in Rings(Printed) : RingOK(h) =>
                /\ Scrollback!RingLines(h) = h.all
                /\ RingOK(Scrollback!Reset(h)) /\ Scrollback!Reset(h) \in Rings(Printed)
                /\ Scrollback!Reset(h).all = <<>>
                /\ RingOK(Scrollback!SetLimit(h, limit)) /\ Scrollback!SetLimit(h, limit) \in Rings(Printed)
                /\ Scrollback!SetLimit(h, limit).all = Scrollback!Newest(h.all, limit)
                /\ \A line \in Printed :
                     /\ RingOK(Scrollback!Push(h, line)) /\ Scrollback!Push(h, line) \in Rings(Printed)
                     /\ Scrollback!Push(h, line).all
                          = Scrollback!Newest(Append(h.all, line), h.limit)
<1>1. RingOK(Scrollback!NewRing(limit)) /\ Scrollback!NewRing(limit) \in Rings(Printed)
  BY DEF RingOK, RingIs, Scrollback!NewRing, Rings
<1>2. ASSUME NEW h \in Rings(Printed), RingOK(h)
      PROVE  /\ RingOK(Scrollback!Reset(h)) /\ Scrollback!Reset(h) \in Rings(Printed)
             /\ Scrollback!Reset(h).all = <<>>
  <2> DEFINE k == Scrollback!Reset(h)
  <2>1. k = [h EXCEPT !.lines = <<>>, !.start = 0, !.n = 0, !.all = <<>>]
    BY DEF Scrollback!Reset
  <2>2. <<>> \in Seq(Printed) /\ Len(<<>>) = 0 /\ h.limit \in Nat
    BY RingFields
  <2> HIDE DEF k
  <2>3. /\ k \in Rings(Printed) /\ k.lines = <<>> /\ k.start = 0 /\ k.n = 0 /\ k.all = <<>>
        /\ k.limit = h.limit
    BY ONLY <2>1, <2>2, h \in Rings(Printed) DEF Rings
  <2>4. RingOK(k)
    BY <2>2, <2>3 DEF RingOK, RingIs
  <2> QED
    BY <2>3, <2>4 DEF k
<1> QED
  BY <1>1, <1>2, RingRead, PushKeeps, SetLimitKeeps

=============================================================================
