----------------------------- MODULE TermModes -----------------------------
(* The follower of a terminal's modes (internal/fabric/termmodes.go): it    *)
(* scans output for the switches it knows, keeps one that a write cuts off  *)
(* for the next, and says how to set the modes again and how to undo them.  *)
(* Bytes are those of EscapeParser.                                         *)
EXTENDS Naturals, Sequences, SequencesExt

CONSTANTS Tracked, \* trackedModes, a sequence in the order of Preamble
          Shown,   \* those that are on by default
          MaxCarry \* how much of a cut-off sequence is kept

ASSUME TermModesAssumption == Shown \subseteq ToSet(Tracked) /\ MaxCarry \in Nat

\* TermModes: the modes that differ from their default.
NoModes == [on |-> {}, keypad |-> FALSE, carry |-> <<>>]

Finals == {"h", "l"}

\* Where the parameters of a private sequence at the start of p end: the first
\* byte that is neither a number nor a semicolon, or the end of p.
Final(p) ==
    LET ends == {k \in 4..Len(p) : p[k] \notin ToSet(Tracked) \cup {";"}}
    IN  IF ends = {} THEN Len(p) + 1 ELSE CHOOSE k \in ends : \A j \in ends : k <= j

\* The modes named in p are set, or reset.
Switched(t, named, set) ==
    LET same == {m \in named : set = (m \in Shown)}
    IN  [t EXCEPT !.on = (@ \cup named) \ same]

\* TermModes.escape, of a sequence at the start of p: how long it is, 0 when p
\* ends before it does, and what it leaves.
EscapeAt(t, p) ==
    IF Len(p) < 2 THEN [n |-> 0, modes |-> t]
    ELSE IF p[2] \in {"=", ">"} THEN [n |-> 2, modes |-> [t EXCEPT !.keypad = p[2] = "="]]
    ELSE IF p[2] # "[" THEN [n |-> 1, modes |-> t]
    ELSE IF Len(p) < 3 THEN [n |-> 0, modes |-> t]
    ELSE IF p[3] # "?" THEN [n |-> 2, modes |-> t]
    ELSE IF Final(p) > Len(p) THEN [n |-> 0, modes |-> t]
    ELSE [n |-> Final(p),
          modes |-> IF p[Final(p)] \notin Finals THEN t
                    ELSE Switched(t, ToSet(SubSeq(p, 4, Final(p) - 1)) \cap ToSet(Tracked),
                                  p[Final(p)] = "h")]

\* The scan of Feed.
RECURSIVE Scan(_, _)
Scan(t, p) ==
    IF "esc" \notin ToSet(p) THEN t
    ELSE LET at == SelectInSeq(p, LAMBDA c : c = "esc")
             left == SubSeq(p, at, Len(p))
             seen == EscapeAt(t, left)
         IN  IF seen.n = 0
             THEN [t EXCEPT !.carry = IF Len(left) <= MaxCarry THEN left ELSE <<>>]
             ELSE Scan(seen.modes, SubSeq(left, seen.n + 1, Len(left)))

\* Mutant: every read is scanned by itself.
FeedUncarried(t, p) == Scan([t EXCEPT !.carry = <<>>], p)

\* TermModes.Feed.
Feed(t, p) == Scan([t EXCEPT !.carry = <<>>], t.carry \o p)

\* TermModes.AltScreen.
AltScreen(t) == t.on \cap {"47", "1047", "1049"} # {}

\* TermModes.sorted: the alternate screens first.
Sorted(t) == SelectSeq(Tracked, LAMBDA m : m \in t.on)

ModeSeq(m, set) == <<"esc", "[", "?", m, IF set THEN "h" ELSE "l">>

\* TermModes.Preamble.
Preamble(t) ==
    FlattenSeq([i \in DOMAIN Sorted(t) |-> ModeSeq(Sorted(t)[i], Sorted(t)[i] \notin Shown)])
        \o IF t.keypad THEN <<"esc", "=">> ELSE <<>>

\* TermModes.Reset, after which nothing is known: NoModes.
Undo(t) ==
    LET back == Reverse(Sorted(t))
    IN  FlattenSeq([i \in DOMAIN back |-> ModeSeq(back[i], back[i] \in Shown)])
            \o IF t.keypad THEN <<"esc", ">">> ELSE <<>>

=============================================================================
