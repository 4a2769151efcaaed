-------------------------------- MODULE Tabs --------------------------------
(***************************************************************************)
(* The order of tabs, and moving about in it, from the client's side        *)
(* (internal/daemon/attachclient.go).  A list of services is a sequence of  *)
(* names in the order of TabOrder; `live` is the set of those that have a   *)
(* process.                                                                *)
(***************************************************************************)
EXTENDS Naturals, Sequences

Names(tabs) == {tabs[i] : i \in DOMAIN tabs}
Place(tabs, n) == CHOOSE i \in DOMAIN tabs : tabs[i] = n

\* The place `step` after i, going round.
Along(tabs, i, step) == tabs[((i + step + Len(tabs) - 1) % Len(tabs)) + 1]

\* Where n and p lead; nowhere when there is one tab or none, and to the first
\* one when the service attached is not listed any more.
Neighbour(tabs, n, forward) ==
    IF Len(tabs) < 2 THEN {}
    ELSE IF n \notin Names(tabs) THEN {tabs[1]}
    ELSE {Along(tabs, Place(tabs, n), IF forward THEN 1 ELSE Len(tabs) - 1)}

\* Where an exit leads: the next one after n that runs, counted from before the
\* first when n is not listed.
RunningNeighbour(tabs, live, n) ==
    LET from == IF n \in Names(tabs) THEN Place(tabs, n) ELSE 0
        Leads(step) == LET to == Along(tabs, from, step) IN to # n /\ to \in live
        steps == {s \in 1..Len(tabs) : Leads(s)}
    IN  {Along(tabs, from, s) : s \in {t \in steps : \A u \in steps : t <= u}}

\* Names differ, so n has one place at most.
Without(tabs, n) ==
    LET i == Place(tabs, n)
    IN  IF n \notin Names(tabs) THEN tabs
        ELSE SubSeq(tabs, 1, i - 1) \o SubSeq(tabs, i + 1, Len(tabs))

\* The server's move: n is taken out and put in at the place asked for, or at the
\* nearest there is.
PutAt(tabs, n, to) ==
    LET others == Without(tabs, n)
        at == IF to < 1 THEN 1 ELSE IF to > Len(tabs) THEN Len(tabs) ELSE to
    IN  IF n \notin Names(tabs) THEN tabs
        ELSE SubSeq(others, 1, at - 1) \o <<n>> \o SubSeq(others, at, Len(others))

\* The client asks for one place along; for nothing at either end.
Moved(tabs, n, right) ==
    LET i == Place(tabs, n)
        to == IF right THEN i + 1 ELSE i - 1
    IN  IF n \in Names(tabs) /\ to \in DOMAIN tabs THEN PutAt(tabs, n, to) ELSE tabs

Renamed(tabs, n, m) == [i \in DOMAIN tabs |-> IF tabs[i] = n THEN m ELSE tabs[i]]

=============================================================================
