--------------------------- MODULE EscapeParser ---------------------------
(* The emulator's parser (internal/vt/grid/parser.go): a state machine over *)
(* the bytes of a service, and what a sequence does to the terminal.        *)
(*                                                                          *)
(* A byte is a string: a control or an introducer by itself, a parameter    *)
(* number as one ("1049"), "lead" for the first of a character of three     *)
(* bytes, "cont" for one that may follow.  What a byte draws or executes is *)
(* an entry of did, in order; of the operations themselves only those on    *)
(* the modes of the terminal are carried out here (Grid has the others).    *)
EXTENDS Naturals, Sequences

Controls == {"nl", "bel"}          \* C0 but for the escape
Intermediates == {"("}
Introducers == {"P", "X", "^", "_"}    \* of DCS, SOS, PM and APC

AltScreens == {"47", "1047", "1049"}   \* the modes that switch screens

CONSTANT Numbers \* the mode numbers that programs use

\* parser and Term, of which: the state, what is kept between bytes, and the
\* modes that belong to the terminal a person looks at.
NewTerm == [state |-> "ground", private |-> FALSE, params |-> {}, utf8 |-> <<>>,
            invalid |-> FALSE, strEsc |-> FALSE,
            alt |-> FALSE, visible |-> TRUE, modes |-> {}, keypad |-> FALSE, did |-> <<>>]

Did(t, what) == [t EXCEPT !.did = Append(@, what)]
Ground(t) == [t EXCEPT !.state = "ground"]

\* The start of a sequence: nothing of an earlier one is left.
Begun(t, state) == [t EXCEPT !.state = state, !.private = FALSE, !.params = {}]

\* parser.drawPending: the replacement owed for bytes that are no character.
DrawPending(t) == IF t.invalid THEN Did([t EXCEPT !.invalid = FALSE], "replacement") ELSE t

\* utf8.FullRune, of a character of three bytes or a byte that begins none.
FullRune(u) == u[1] # "lead" \/ Len(u) = 3

\* Mutant: the bytes that a character lacks are taken whatever they are.
AbsorbedAny(u, b) ==
    LET more == {n \in 0..Len(b) : n <= 3 /\ \A k \in 1..n : ~FullRune(u \o SubSeq(b, 1, k - 1))}
    IN  CHOOSE n \in more : \A k \in more : k <= n

\* parser.ground takes the bytes that carry a character on, as far as this
\* write goes; the rest of a cut one is kept in utf8.
Absorbed(u, b) ==
    LET more == {n \in 0..Len(b) : /\ n <= 3
                                   /\ \A k \in 1..n : b[k] = "cont" /\ ~FullRune(u \o SubSeq(b, 1, k - 1))}
    IN  CHOOSE n \in more : \A k \in more : k <= n

\* The character that ends here: decoded, replaced, or waited for.
Decoded(t, u) ==
    IF ~FullRune(u) THEN [t EXCEPT !.utf8 = u]
    ELSE Did([t EXCEPT !.utf8 = <<>>], IF u[1] = "lead" THEN "character" ELSE "replacement")

\* A byte that does not carry the character on ends it, whatever it is.
CutOff(t, c) ==
    IF t.utf8 # <<>> /\ c # "cont" THEN [t EXCEPT !.utf8 = <<>>, !.invalid = TRUE] ELSE t

\* parser.ground, of the byte c with the rest of the write after it: the
\* terminal, and how many bytes of the rest were taken.  An escape sequence
\* is obeyed before the replacement that is owed is drawn.
Text(t, c, rest) ==
    LET cut == CutOff(t, c)
        owed == IF c = "esc" THEN cut ELSE DrawPending(cut)
        took == IF c \in {"lead", "cont"} THEN Absorbed(Append(owed.utf8, c), rest) ELSE 0
    IN  [took |-> took,
         term |-> CASE c = "esc" -> Begun(owed, "escape")
                    [] c \in {"lead", "cont"} ->
                           Decoded(owed, Append(owed.utf8, c) \o SubSeq(rest, 1, took))
                    [] OTHER -> Did(owed, c)]

\* `*t = *New(...)`, which keeps the size: of what this module looks at, nothing.
FullReset(t) == Did(NewTerm, "reset")

\* parser.escape, of the byte after an ESC.
Escape(t, c) ==
    CASE c = "esc" -> Begun(t, "escape")
      [] c \in Controls -> Did(t, c)
      [] c = "[" -> Begun(t, "csi")
      [] c = "]" -> [t EXCEPT !.state = "osc"]
      [] c \in Introducers -> [t EXCEPT !.state = "str", !.strEsc = FALSE]
      [] c = "(" -> [t EXCEPT !.state = "charset"]
      [] c \in {"=", ">"} -> Ground([t EXCEPT !.keypad = c = "="])
      [] c = "c" -> FullReset(t)
      [] OTHER -> Ground(t)

\* The alternate screen and the cursor are the grid's, the other modes are kept
\* for the terminal that shows it; those of one sequence are set alike.
SetModes(t, set) ==
    LET others == t.params \ (AltScreens \cup {"25"})
    IN  [t EXCEPT !.alt = IF t.params \cap AltScreens # {} THEN set ELSE @,
                  !.visible = IF "25" \in t.params THEN set ELSE @,
                  !.modes = IF set THEN @ \cup others ELSE @ \ others]

\* parser.dispatch.
Dispatch(t, final) ==
    IF ~t.private THEN Did(t, final)
    ELSE IF final \in {"h", "l"} THEN SetModes(t, final = "h") ELSE t

\* parser.csi: parameters are gathered, a control is executed where it appears,
\* another ESC starts again, and a final byte is acted on.
Csi(t, c) ==
    CASE c \in Numbers -> [t EXCEPT !.params = @ \cup {c}]
      [] c = "?" -> [t EXCEPT !.private = @ \/ t.params = {}]
      [] c = ";" \/ c \in Intermediates -> t
      [] c = "esc" -> Begun(t, "escape")
      [] c \in Controls -> Did(t, c)
      [] c \in {"lead", "cont"} -> Ground(t)
      [] OTHER -> Ground(Dispatch(t, c))

\* parser.osc: a BEL ends it, and so does an ESC; what follows the ESC is text.
Osc(t, c) == IF c \in {"bel", "esc"} THEN Ground(Did(t, "osc")) ELSE t

\* parser.str: only ESC \ ends it.
Str(t, c) ==
    IF t.strEsc THEN [t EXCEPT !.strEsc = FALSE, !.state = IF c = "\\" THEN "ground" ELSE @]
    ELSE [t EXCEPT !.strEsc = c = "esc"]

\* One turn of parser.feed, at the first byte of what is left of a write.
Step(t, c, rest) ==
    IF t.state = "ground" THEN Text(t, c, rest)
    ELSE [took |-> 0,
          term |-> CASE t.state = "escape" -> Escape(t, c)
                     [] t.state = "csi" -> Csi(t, c)
                     [] t.state = "osc" -> Osc(t, c)
                     [] t.state = "charset" -> Ground(Did(t, c))
                     [] t.state = "str" -> Str(t, c)]

\* parser.feed of one write.
RECURSIVE Write(_, _)
Write(t, b) ==
    IF b = <<>> THEN t
    ELSE LET step == Step(t, Head(b), Tail(b))
         IN  Write(step.term, SubSeq(b, 2 + step.took, Len(b)))

\* The same bytes, one to a write.
RECURSIVE ByteByByte(_, _)
ByteByByte(t, b) == IF b = <<>> THEN t ELSE ByteByByte(Write(t, <<Head(b)>>), Tail(b))

\* The modes that belong to the terminal.
ModesOf(t) == [alt |-> t.alt, visible |-> t.visible, modes |-> t.modes, keypad |-> t.keypad]

\* Between sequences, and between characters.
AtRest(t) == t.state = "ground" /\ t.utf8 = <<>>

=============================================================================
