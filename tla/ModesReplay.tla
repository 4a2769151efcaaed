---------------------------- MODULE ModesReplay ----------------------------
(* What becomes of a service's terminal modes between the service and the   *)
(* terminals that show it: the pty's reads cut its output anywhere, the     *)
(* daemon follows the modes, keeps the newest bytes and, while a program    *)
(* has the alternate screen, a picture of it (output.go); a client that     *)
(* attaches is sent the modes and then the replay (attach.go), passes on    *)
(* what follows, and takes the modes off when it leaves (attachclient.go).  *)
(*                                                                          *)
(* The service is one that finishes the sequences it begins.                *)
EXTENDS EscapeParser, TermModes

CONSTANTS Items,    \* what the service prints, each a character, a control or a sequence
          Capacity, \* bytes the ring holds
          MaxItems  \* bound: items printed

ASSUME ReplayAssumption ==
    /\ Capacity \in Nat \ {0} /\ MaxItems \in Nat
    /\ ToSet(Tracked) \subseteq Numbers
    /\ \A i \in Items : Len(i) <= MaxCarry

VARIABLES pty,     \* printed and not yet read
          printed, \* how many items were
          ring,    \* OutputBuffer: the newest bytes
          lost,    \* it has dropped some
          modes,   \* its TermModes
          picture, \* its screen, a terminal, or NoPicture
          whole,   \* history: the terminal that has had every byte by itself
          cut,     \* history: the terminal that has had every read as it came
          at,      \* the client: "away", "attached"
          shown,   \* its terminal
          follows, \* its terminalModes
          odd      \* history: what the terminal cannot be expected to get over

service == <<pty, printed>>
buffer  == <<ring, lost, modes, picture>>
client  == <<at, shown, follows, odd>>
vars    == <<service, buffer, whole, cut, client>>

NoPicture == [none |-> TRUE]

TypeOK ==
    /\ pty \in Seq(STRING) /\ printed \in 0..MaxItems
    /\ ring \in Seq(STRING) /\ Len(ring) <= Capacity /\ lost \in BOOLEAN
    /\ modes.on \subseteq ToSet(Tracked) /\ follows.on \subseteq ToSet(Tracked)
    /\ Len(modes.carry) <= MaxCarry
    /\ picture = NoPicture \/ picture.state \in STRING
    /\ at \in {"away", "attached"} /\ odd \subseteq {"came within", "cursor shown", "left within"}

Init ==
    /\ pty = <<>> /\ printed = 0
    /\ ring = <<>> /\ lost = FALSE /\ modes = NoModes /\ picture = NoPicture
    /\ whole = NewTerm /\ cut = NewTerm
    /\ at = "away" /\ shown = NewTerm /\ follows = NoModes /\ odd = {}

Prints(item) ==
    /\ printed < MaxItems
    /\ printed' = printed + 1
    /\ pty' = pty \o item
    /\ UNCHANGED <<buffer, whole, cut, client>>

\* OutputBuffer.drawLocked: a picture from the write that switched screens to
\* the one that switches back.
Drawn(b) ==
    IF ~AltScreen(modes') THEN NoPicture
    ELSE [Write(IF picture = NoPicture THEN NewTerm ELSE picture, b) EXCEPT !.did = <<>>]

\* What a terminal has done is compared and not kept.
Had(t) == [t EXCEPT !.did = <<>>]

\* OutputBuffer.Write of a read of n bytes, and the client that is passed them:
\* pumpOutput writes what it follows.
Read(n) ==
    LET b == SubSeq(pty, 1, n)
        kept == ring \o b
    IN  /\ pty' = SubSeq(pty, n + 1, Len(pty))
        /\ lost' = (lost \/ Len(kept) > Capacity)
        /\ ring' = IF Len(kept) > Capacity THEN SubSeq(kept, Len(kept) - Capacity + 1, Len(kept))
                   ELSE kept
        /\ modes' = Feed(modes, b)
        /\ picture' = Drawn(b)
        /\ whole' = ByteByByte(Had(whole), b)
        /\ cut' = Write(Had(cut), b)
        /\ IF at = "attached"
           THEN shown' = Had(Write(shown, b)) /\ follows' = Feed(follows, b)
           ELSE UNCHANGED <<shown, follows>>
        /\ UNCHANGED <<printed, at, odd>>

\* ReplayStart, after the first line's end if there is one.
ReplayStart(b) ==
    IF "nl" \in ToSet(b)
    THEN SubSeq(b, SelectInSeq(b, LAMBDA c : c = "nl") + 1, Len(b)) ELSE b

\* render.Screen: everything drawn anew, and the cursor shown or not.
Picture == <<"esc", "[", "m", "A">> \o ModeSeq("25", picture.visible)

\* serveAttach: the modes first, then the picture or what the ring has.
Replay ==
    Preamble(modes) \o (IF picture # NoPicture THEN Picture
                        ELSE IF lost THEN ReplayStart(ring) ELSE ring)

Attach ==
    /\ at = "away"
    /\ at' = "attached"
    /\ shown' = Had(Write(shown, Replay)) /\ follows' = Feed(follows, Replay)
    /\ odd' = odd \cup (IF picture # NoPicture /\ ~AtRest(whole) THEN {"came within"} ELSE {})
                  \cup (IF picture # NoPicture /\ picture.visible # whole.visible
                        THEN {"cursor shown"} ELSE {})
    /\ UNCHANGED <<service, buffer, whole, cut>>

\* showService, and the end of an attach: the modes are taken off, the screen
\* is cleared.
Leave ==
    /\ at = "attached"
    /\ at' = "away"
    /\ odd' = (odd \cap {"left within"})
                  \cup (IF shown.state \in {"osc", "str", "charset"} THEN {"left within"} ELSE {})
    /\ shown' = Had(Write(shown, Undo(follows) \o <<"esc", "[", "H", "esc", "[", "J">>))
    /\ follows' = NoModes
    /\ UNCHANGED <<service, buffer, whole, cut>>

Next ==
    \/ \E i \in Items : Prints(i)
    \/ \E n \in 1..Len(pty) : Read(n)
    \/ Attach \/ Leave

Spec == Init /\ [][Next]_vars

----------------------------------------------------------------------------

\* However the reads cut the output, the emulator does what it does with all of
\* it byte by byte: the same characters, replacements and operations, in the same
\* order, and it waits for the same (the parser's header; ground's comments).
CutAnyhow == cut = whole

\* While a client is attached and the service is between sequences, the terminal
\* is in the service's modes; once it has left, in none.  But for a client that
\* came to a picture in the middle of a sequence, or to one begun after the cursor
\* was hidden, or that left in the middle of a string, which swallows what follows.
TerminalFollows ==
    odd = {} =>
        /\ at = "attached" /\ AtRest(whole) => ModesOf(shown) = ModesOf(whole)
        /\ at = "away" => ModesOf(shown) = ModesOf(NewTerm)

=============================================================================
