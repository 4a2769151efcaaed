-------------------------------- MODULE Grid --------------------------------
(***************************************************************************)
(* The terminal emulator: a grid of cells, a cursor, the scrollback and the *)
(* alternate screen, as a program's output and resizes change them.         *)
(*                                                                         *)
(* The terminal is one record, and an operation a function of it, so that a *)
(* character that wraps, scrolls and is then drawn is one step.  A cell is  *)
(* blank, a narrow character, a wide one or a wide one's second half, and   *)
(* one mark may have been combined with it; colours, titles, modes that     *)
(* belong to the real terminal, and replies are left out.  The three arrays *)
(* the code keeps by row are one record here: it moves them together.  Rows *)
(* and columns count from 1.                                               *)
(***************************************************************************)
EXTENDS HistoryRing, FiniteSets, SequencesExt

CONSTANTS Sizes,      \* sizes of the screen, <<columns, rows>>
          DefaultScrollback,
          Limits,     \* lengths of the scrollback
          MaxText,    \* bound: what has been printed to begin with
          MaxOps,     \* bound: sequences a program sends after that
          MaxResizes  \* bound: resizes

ASSUME GridAssumption ==
    /\ Sizes \subseteq (Nat \ {0}) \X (Nat \ {0})
    /\ Limits \subseteq Nat /\ DefaultScrollback \in Nat
    /\ MaxText \in Nat /\ MaxOps \in Nat /\ MaxResizes \in Nat

VARIABLES
    t,        \* the terminal
    main,     \* history: the primary screen's text when the alternate one came up
    count     \* history: operations and resizes so far

vars == <<t, main, count>>

Blank == " "
Half == "-"
Narrow == "a"
Wide == "w"
Marked(c) == CASE c = Narrow -> "A" [] c = Wide -> "W" [] c = Blank -> "_" [] OTHER -> c
Width(c) == CASE c \in {Wide, Marked(Wide)} -> 2 [] c = Half -> 0 [] OTHER -> 1

AtLeast(a, b) == IF a >= b THEN a ELSE b
AtMost(a, b) == IF a <= b THEN a ELSE b
Clamp(v, lo, hi) == AtLeast(lo, AtMost(v, hi))

\* used: columns written; wrapped: it goes on in the row below.  short is history:
\* characters inserted by a sequence have pushed text past what used says.
Row(cells, wrapped, used) == [cells |-> cells, wrapped |-> wrapped, used |-> used, short |-> FALSE]
Blanks(n) == [i \in 1..n |-> Blank]
BlankRow(cols) == Row(Blanks(cols), FALSE, 0)
BlankRows(cols, rows) == [r \in 1..rows |-> BlankRow(cols)]
FitRow(cells, cols) == [i \in 1..cols |-> IF i <= Len(cells) THEN cells[i] ELSE Blank]

Home == [row |-> 1, col |-> 1]

DefaultTabs(cols) == {c \in 2..cols : c % 8 = 1}

NewTerm(cols, rows, limit) ==
    [cols |-> cols, rows |-> rows, screen |-> BlankRows(cols, rows), cur |-> Home, pend |-> FALSE,
     saved |-> Home, top |-> 1, bottom |-> rows, hidden |-> <<>>, altSaved |-> Home,
     onAlt |-> FALSE, altPending |-> FALSE, irm |-> FALSE, awm |-> TRUE,
     tabs |-> DefaultTabs(cols), hist |-> NewRing(limit), panicked |-> FALSE]

----------------------------------------------------------------------------
(* Lines and scrolling. *)

Up(rows, from, to, blank) ==
    [r \in DOMAIN rows |-> IF r \in from..(to - 1) THEN rows[r + 1]
                           ELSE IF r = to THEN blank ELSE rows[r]]
Down(rows, from, to, blank) ==
    [r \in DOMAIN rows |-> IF r \in (from + 1)..to THEN rows[r - 1]
                           ELSE IF r = from THEN blank ELSE rows[r]]

\* The primary screen's lines are remembered, a region's too.
ScrollUp(x) ==
    [x EXCEPT !.hist = IF x.onAlt THEN @ ELSE Push(@, x.screen[x.top]),
              !.screen = Up(@, x.top, x.bottom, BlankRow(x.cols))]
ScrollDown(x) == [x EXCEPT !.screen = Down(@, x.top, x.bottom, BlankRow(x.cols))]

LineFeed(x) ==
    IF x.cur.row = x.bottom THEN ScrollUp(x)
    ELSE IF x.cur.row < x.rows THEN [x EXCEPT !.cur.row = @ + 1] ELSE x

Wrap(x) == LineFeed([x EXCEPT !.screen[x.cur.row].wrapped = TRUE, !.pend = FALSE, !.cur.col = 1])

\* A row's cells pushed right from col by n, in insert mode and by the sequence;
\* only the first says so to used.
Pushed(cells, col, n) ==
    [i \in DOMAIN cells |-> IF i < col THEN cells[i]
                            ELSE IF i < col + n THEN Blank ELSE cells[i - n]]
ShiftRight(row, col, n) ==
    [row EXCEPT !.cells = Pushed(@, col, n),
                !.used = IF @ > 0 THEN AtMost(@ + n, Len(row.cells)) ELSE @]

\* An index that is out of range ends the whole process.
OutOfRange(x, c) == x.cur.row > x.rows \/ Width(c) > x.cols

\* putString.
Put(x, c) ==
    IF OutOfRange(x, c) THEN [x EXCEPT !.panicked = TRUE]
    ELSE
    LET w == Width(c)
        a == IF x.pend THEN Wrap(x) ELSE x
        b == IF a.cur.col - 1 + w <= a.cols THEN a
             ELSE IF a.awm THEN Wrap(a)
             ELSE [a EXCEPT !.cur.col = AtLeast(a.cols - w + 1, 1)]
        col == b.cur.col
        row == IF b.irm THEN ShiftRight(b.screen[b.cur.row], col, w) ELSE b.screen[b.cur.row]
        written == [i \in DOMAIN row.cells |->
                       IF i = col THEN c ELSE IF i \in (col + 1)..(col + w - 1) THEN Half
                       ELSE row.cells[i]]
        d == [b EXCEPT !.screen[b.cur.row] =
                          [row EXCEPT !.cells = written, !.used = AtLeast(@, col - 1 + w)]]
    IN  IF col + w > b.cols THEN [d EXCEPT !.cur.col = b.cols, !.pend = b.awm]
        ELSE [d EXCEPT !.cur.col = col + w]

\* combine: the mark goes with the character before the cursor, past the second half
\* of a wide one; there may be none.
Combine(x) ==
    LET col == IF x.pend THEN x.cols ELSE x.cur.col - 1
        whole == {i \in 1..col : x.screen[x.cur.row].cells[i] # Half}
    IN  IF col = 0 THEN x
        ELSE IF x.cur.row > x.rows \/ col > x.cols THEN [x EXCEPT !.panicked = TRUE]
        ELSE IF whole = {} THEN x
        ELSE [x EXCEPT !.screen[x.cur.row].cells[Max(whole)] = Marked(@)]

\* The next stop; without one, the last column.
NextTab(x) == Min({x.cols} \cup {c \in x.tabs : c > x.cur.col})

NewLine(x) == [LineFeed(x) EXCEPT !.pend = FALSE]
CarriageReturn(x) == [x EXCEPT !.cur.col = 1, !.pend = FALSE]

----------------------------------------------------------------------------
(* A resize. *)

Kept(row, used) == SubSeq(row.cells, 1, AtMost(used, Len(row.cells)))

\* logicalLines: a row is joined to the next when it wrapped.  line.at is the
\* cursor's place in it, 0 when it is elsewhere.
Joined(lines, row, used, at) ==
    LET cells == lines.last.cells \o Kept(row, used)
        cursor == IF at > 0 THEN Len(lines.last.cells) + at ELSE lines.last.at
    IN  IF row.wrapped THEN [lines EXCEPT !.last = [cells |-> cells, at |-> cursor], !.open = TRUE]
        ELSE [done |-> Append(lines.done, [cells |-> cells, at |-> cursor]),
              last |-> [cells |-> <<>>, at |-> 0], open |-> FALSE]

\* Mutant: the screen has nothing below the cursor.
LastRowCursor(x) == AtMost(x.cur.row, Len(x.screen))

\* The last row that is text: as far as the cursor, or as anything was written.
LastRow(x) ==
    LET written == {r \in DOMAIN x.screen : x.screen[r].used > 0}
    IN  CHOOSE r \in 0..Len(x.screen) :
            /\ r \in written \cup {AtMost(x.cur.row, Len(x.screen))}
            /\ \A s \in written : s <= r
            /\ AtMost(x.cur.row, Len(x.screen)) <= r

\* What is open at the end is a line too.
Ended(lines) ==
    IF lines.open \/ lines.last.at > 0 THEN Append(lines.done, lines.last) ELSE lines.done

LogicalLines(x) ==
    LET past == FoldLeft(LAMBDA lines, row : Joined(lines, row, row.used, 0),
                         [done |-> <<>>, last |-> [cells |-> <<>>, at |-> 0], open |-> FALSE],
                         RingLines(x.hist))
        JoinRow(lines, r) ==
            IF r # x.cur.row THEN Joined(lines, x.screen[r], x.screen[r].used, 0)
            ELSE Joined(lines, x.screen[r], AtLeast(x.screen[r].used, x.cur.col - 1), x.cur.col)
    IN  Ended(FoldLeft(JoinRow, past, [r \in 1..LastRow(x) |-> r]))

\* Mutant: the cursor's place is noted before a full row is ended.
PlaceEarly(cells, cols, cursor, acc, i) ==
    LET w == Width(cells[i])
        full == Len(acc.row) + w > cols
        rows == IF full THEN Append(acc.rows, acc.row) ELSE acc.rows
        row == IF full THEN <<>> ELSE acc.row
    IN  IF cells[i] = Half THEN acc
        ELSE [rows |-> rows, row |-> row \o (IF w = 2 THEN <<cells[i], Half>> ELSE <<cells[i]>>),
              at |-> IF i = cursor THEN <<Len(acc.rows) + 1, Len(acc.row) + 1>> ELSE acc.at]

\* One cell of a paragraph put into the rows it is broken into; the second half of
\* a wide one comes with the first.
Place(cells, cols, cursor, acc, i) ==
    LET w == Width(cells[i])
        full == Len(acc.row) + w > cols
        rows == IF full THEN Append(acc.rows, acc.row) ELSE acc.rows
        row == IF full THEN <<>> ELSE acc.row
    IN  IF cells[i] = Half THEN acc
        ELSE [rows |-> rows, row |-> row \o (IF w = 2 THEN <<cells[i], Half>> ELSE <<cells[i]>>),
              at |-> IF i = cursor THEN <<Len(rows) + 1, Len(row) + 1>> ELSE acc.at]

\* wrapCells: the rows of a paragraph, and the cursor's row and column among them,
\* which may be after its last character.
Broken(acc, cols, after) ==
    LET rows == Append(acc.rows, acc.row)
    IN  IF ~after THEN [rows |-> rows, at |-> acc.at]
        ELSE IF Len(acc.row) >= cols
        THEN [rows |-> Append(rows, <<>>), at |-> <<Len(rows) + 1, 1>>]
        ELSE [rows |-> rows, at |-> <<Len(rows), Len(acc.row) + 1>>]
WrapCells(cells, cols, cursor) ==
    Broken(FoldLeft(LAMBDA a, i : Place(cells, cols, cursor, a, i),
                    [rows |-> <<>>, row |-> <<>>, at |-> <<0, 0>>], [i \in DOMAIN cells |-> i]),
           cols, cursor > Len(cells))

\* Every paragraph broken anew, and where the cursor has come to be.
WithLine(acc, line, w, cols) ==
    [out |-> acc.out \o [i \in DOMAIN w.rows |->
                 Row(FitRow(w.rows[i], cols), i < Len(w.rows), Len(w.rows[i]))],
     at |-> IF w.at[1] > 0 /\ line.at > 0 THEN <<Len(acc.out) + w.at[1], w.at[2]>> ELSE acc.at]
Rewrapped(lines, cols) ==
    FoldLeft(LAMBDA acc, line : WithLine(acc, line, WrapCells(line.cells, cols, line.at), cols),
             [out |-> <<>>, at |-> <<0, 0>>], lines)

\* The screen ends with the cursor's row or with the text; above it is scrollback.
Refilled(x, cols, rows, out, at) ==
    LET start == AtLeast(AtLeast(at[1] - rows, Len(out) - rows), 0)
    IN  [x EXCEPT !.cols = cols, !.rows = rows,
                  !.screen = [r \in 1..rows |-> IF start + r <= Len(out) THEN out[start + r]
                                                ELSE BlankRow(cols)],
                  !.hist = FoldLeft(Push, Reset(@), SubSeq(out, 1, AtMost(start, Len(out)))),
                  !.cur = [row |-> Clamp(at[1] - start, 1, rows), col |-> Clamp(at[2], 1, cols)],
                  !.pend = FALSE, !.top = 1, !.bottom = rows, !.tabs = DefaultTabs(cols)]

ReflowFrom(x, cols, rows, lines, new) ==
    IF cols = 1 /\ \E i \in DOMAIN lines : \E j \in DOMAIN lines[i].cells : Width(lines[i].cells[j]) = 2
    THEN [x EXCEPT !.cols = cols, !.panicked = TRUE]
    ELSE Refilled(x, cols, rows, new.out, IF new.at[1] > 0 THEN new.at ELSE <<Len(new.out) + 1, 1>>)
ReflowTo(x, cols, rows) ==
    ReflowFrom(x, cols, rows, LogicalLines(x), Rewrapped(LogicalLines(x), cols))

\* Mutant: the cursor is left where it was.
ResizeAltFar(x, cols, rows) ==
    [x EXCEPT !.screen = [r \in 1..rows |-> IF r <= Len(@) THEN [@[r] EXCEPT !.cells = FitRow(@, cols)]
                                            ELSE BlankRow(cols)],
              !.cols = cols, !.rows = rows, !.top = 1, !.bottom = rows, !.tabs = DefaultTabs(cols),
              !.pend = FALSE, !.altPending = TRUE]

\* Mutant: the hidden screen is cut to the new width as well.
ResizeAltBoth(x, cols, rows) ==
    [x EXCEPT !.screen = [r \in 1..rows |-> IF r <= Len(@) THEN [@[r] EXCEPT !.cells = FitRow(@, cols)]
                                            ELSE BlankRow(cols)],
              !.hidden = [r \in DOMAIN @ |-> [@[r] EXCEPT !.cells = FitRow(@, cols)]],
              !.cols = cols, !.rows = rows, !.top = 1, !.bottom = rows, !.tabs = DefaultTabs(cols),
              !.cur = [row |-> AtMost(@.row, rows), col |-> AtMost(@.col, cols)],
              !.pend = FALSE, !.altPending = TRUE]

\* A program has the alternate screen: it draws it again, and the hidden one is
\* broken anew when it comes back.
ResizeAlt(x, cols, rows) ==
    [x EXCEPT !.screen = [r \in 1..rows |-> IF r <= Len(@) THEN [@[r] EXCEPT !.cells = FitRow(@, cols)]
                                            ELSE BlankRow(cols)],
              !.cols = cols, !.rows = rows, !.top = 1, !.bottom = rows, !.tabs = DefaultTabs(cols),
              !.cur = [row |-> AtMost(@.row, rows), col |-> AtMost(@.col, cols)],
              !.pend = FALSE, !.altPending = TRUE]

----------------------------------------------------------------------------
(* The text, as somebody reads it. *)

\* Scrolled and its view: the newest of the scrollback, and the screen as far as there
\* are rows left.
View(x, offset) ==
    LET past == SubSeq(RingLines(x.hist), x.hist.n - offset + 1, x.hist.n)
        shown == AtMost(offset, x.rows)
    IN  [r \in 1..x.rows |-> FitRow(IF r <= shown THEN past[r].cells
                                    ELSE x.screen[r - shown].cells, x.cols)]

TextOf(cells) == SelectSeq(cells, LAMBDA c : c \notin {Blank, Half, Marked(Blank)})
RowsText(rows) == FoldLeft(LAMBDA s, row : s \o TextOf(row.cells), <<>>, rows)
Everything(x) == RingLines(x.hist) \o (IF x.onAlt THEN x.hidden ELSE x.screen)
Text(x) == RowsText(Everything(x))

\* Paragraphs that are not empty: rows joined where they wrapped.
Paragraphs(x) ==
    LET rows == Everything(x)
        Join(acc, row) ==
            LET text == acc.open \o TextOf(row.cells)
            IN  IF row.wrapped THEN [acc EXCEPT !.open = text]
                ELSE [done |-> IF text = <<>> THEN acc.done ELSE Append(acc.done, text), open |-> <<>>]
        all == FoldLeft(Join, [done |-> <<>>, open |-> <<>>], rows)
    IN  IF all.open = <<>> THEN all.done ELSE Append(all.done, all.open)

\* The text from the cursor on, which the next characters go before or over.
TextAfter(x) ==
    TextOf(SubSeq(x.screen[x.cur.row].cells, x.cur.col, x.cols))
        \o RowsText(SubSeq(x.screen, x.cur.row + 1, x.rows))

Short(x) == \E i \in DOMAIN Everything(x) : Everything(x)[i].short
Torn(x) == \E i \in DOMAIN Everything(x) :
              LET cells == Everything(x)[i].cells
              IN  \E j \in DOMAIN cells : cells[j] = Half /\ (j = 1 \/ Width(cells[j - 1]) # 2)
Full(x) == x.hist.n = x.hist.limit

----------------------------------------------------------------------------

Texts == UNION {[1..n -> {Narrow, Wide, "nl"}] : n \in 0..MaxText}
Printed(x, c) == IF c = "nl" THEN CarriageReturn(NewLine(x)) ELSE Put(x, c)

\* A shell that has printed something.
Init ==
    /\ \E size \in Sizes, limit \in Limits, text \in Texts :
          /\ t = FoldLeft(Printed, NewTerm(size[1], size[2], limit), text)
          /\ ~t.panicked
    /\ main = <<>>
    /\ count = [ops |-> 0, resizes |-> 0]

Does(x) == t' = x /\ UNCHANGED main

Op ==
    /\ ~t.panicked /\ count.ops < MaxOps
    /\ count' = [count EXCEPT !.ops = @ + 1]

\* A mark on nothing is of no width that was written: a resize may drop it.
Mark == Op /\ Does(Combine(t))

Character == Op /\ \E c \in {Narrow, Wide} : Does(Put(t, c))

\* Controls.
Feed == Op /\ Does(NewLine(t))
Return == Op /\ Does(CarriageReturn(t))
Backspace ==
    /\ Op /\ (t.pend \/ t.cur.col > 1)
    /\ Does(IF t.pend THEN [t EXCEPT !.pend = FALSE] ELSE [t EXCEPT !.cur.col = @ - 1])
Tab == Op /\ ~t.pend /\ Does([t EXCEPT !.cur.col = NextTab(t)])
SetTab == Op /\ Does([t EXCEPT !.tabs = @ \cup ({t.cur.col} \cap 1..t.cols)])
ClearTabs == Op /\ \E these \in {{t.cur.col}, 1..t.cols} : Does([t EXCEPT !.tabs = @ \ these])
\* Unlike a line feed, these three leave a pending wrap.
Index == Op /\ Does(LineFeed(t))
NextLine == Op /\ Does(LineFeed([t EXCEPT !.cur.col = 1]))
ReverseIndex ==
    /\ Op
    /\ Does(IF t.cur.row = t.top THEN ScrollDown(t)
            ELSE [t EXCEPT !.cur.row = AtLeast(@ - 1, 1)])

\* Sequences.
MoveTo == Op /\ \E r \in 1..t.rows, c \in 1..t.cols :
                   Does([t EXCEPT !.cur = [row |-> r, col |-> c], !.pend = FALSE])
MoveVertically ==
    /\ Op
    /\ \E d \in {-1, 1} :
          LET hi == IF d > 0 /\ t.cur.row <= t.bottom THEN t.bottom ELSE t.rows
              lo == IF d < 0 /\ t.cur.row >= t.top THEN t.top ELSE 1
          IN  Does([t EXCEPT !.cur.row = Clamp(@ + d, lo, hi), !.pend = FALSE])
SetRegion ==
    /\ Op
    /\ \E a, b \in 1..t.rows :
          /\ a < b
          /\ Does([t EXCEPT !.top = a, !.bottom = b, !.cur = Home, !.pend = FALSE])

\* Past the last column while a wrap is pending.
EffCol(x) == IF x.pend THEN x.cols + 1 ELSE x.cur.col

Erased(x, r, from, to) ==
    IF r > x.rows THEN x
    ELSE [x EXCEPT !.screen[r].cells =
             [i \in DOMAIN @ |-> IF i \in from..to THEN Blank ELSE @[i]]]
EraseInLine ==
    /\ Op
    /\ \E part \in {<<EffCol(t), t.cols>>, <<1, EffCol(t)>>, <<1, t.cols>>, <<EffCol(t), EffCol(t)>>} :
          Does(Erased(t, t.cur.row, part[1], part[2]))
EraseInDisplay ==
    /\ Op
    /\ \E below \in BOOLEAN :
          Does([t EXCEPT !.screen = [r \in DOMAIN @ |->
                   [@[r] EXCEPT !.cells = [i \in DOMAIN @ |->
                       IF \/ /\ below
                             /\ r > t.cur.row \/ (r = t.cur.row /\ i >= t.cur.col)
                          \/ /\ ~below
                             /\ r < t.cur.row \/ (r = t.cur.row /\ i <= t.cur.col)
                       THEN Blank ELSE @[i]]]]])

OnRow(cells, short) ==
    IF t.cur.row > t.rows THEN Does([t EXCEPT !.panicked = TRUE])
    ELSE Does([t EXCEPT !.screen[t.cur.row].cells = cells, !.screen[t.cur.row].short = short])
Cells == t.screen[t.cur.row].cells
DeleteChars ==
    /\ Op /\ EffCol(t) <= t.cols
    /\ OnRow([i \in 1..t.cols |-> IF i < t.cur.col THEN Cells[i]
                                  ELSE IF i < t.cols THEN Cells[i + 1] ELSE Blank],
             t.screen[t.cur.row].short)
InsertChars ==
    /\ Op /\ EffCol(t) <= t.cols
    /\ OnRow(Pushed(Cells, t.cur.col, 1), TRUE)

ShiftBottom(x) == IF x.cur.row \in x.top..x.bottom THEN x.bottom ELSE x.rows
InsertLines ==
    /\ Op /\ t.cur.row <= ShiftBottom(t)
    /\ Does([t EXCEPT !.screen = Down(@, t.cur.row, ShiftBottom(t), BlankRow(t.cols))])
DeleteLines ==
    /\ Op /\ t.cur.row <= ShiftBottom(t)
    /\ Does([t EXCEPT !.screen = Up(@, t.cur.row, ShiftBottom(t), BlankRow(t.cols))])
Scroll == Op /\ (Does(ScrollUp(t)) \/ Does(ScrollDown(t)))
Switch == Op /\ (Does([t EXCEPT !.irm = ~@]) \/ Does([t EXCEPT !.awm = ~@]))

SaveCursor == Op /\ Does([t EXCEPT !.saved = t.cur])
RestoreCursor ==
    /\ Op
    /\ Does([t EXCEPT !.cur = [row |-> AtMost(t.saved.row, t.rows), col |-> AtMost(t.saved.col, t.cols)],
                      !.pend = FALSE])
\* Mode 1048, the one that is not held to the size of the screen.
SaveAside == Op /\ Does([t EXCEPT !.altSaved = t.cur])
RestoreAside == Op /\ Does([t EXCEPT !.cur = t.altSaved, !.pend = FALSE])

EnterAlt ==
    /\ Op /\ ~t.onAlt
    /\ \E save \in BOOLEAN :
          t' = [t EXCEPT !.altSaved = IF save THEN t.cur ELSE @, !.hidden = t.screen,
                         !.screen = BlankRows(t.cols, t.rows), !.onAlt = TRUE]
    /\ main' = Text(t)

LeaveAlt ==
    /\ Op /\ t.onAlt
    /\ \E restore \in BOOLEAN :
          LET back == [t EXCEPT !.screen = t.hidden, !.hidden = <<>>, !.onAlt = FALSE,
                                !.altPending = FALSE]
              laid == IF t.altPending THEN ReflowTo(back, t.cols, t.rows) ELSE back
          IN  t' = [laid EXCEPT !.cur = IF restore THEN [row |-> AtMost(t.altSaved.row, t.rows),
                                                         col |-> AtMost(t.altSaved.col, t.cols)]
                                        ELSE @,
                                !.pend = FALSE]
    /\ UNCHANGED main

\* ESC c, which asks nobody how long the scrollback was to be.
FullReset == Op /\ Does(NewTerm(t.cols, t.rows, DefaultScrollback))

SetScrollback == Op /\ \E n \in Limits : Does([t EXCEPT !.hist = SetLimit(@, n)])

Resize ==
    /\ ~t.panicked /\ count.resizes < MaxResizes
    /\ count' = [count EXCEPT !.resizes = @ + 1]
    /\ \E size \in Sizes : Does(IF t.onAlt THEN ResizeAlt(t, size[1], size[2])
                                ELSE ReflowTo(t, size[1], size[2]))

Next ==
    \/ Character \/ Mark \/ SetTab \/ ClearTabs \/ Feed \/ Return \/ Backspace \/ Tab
    \/ Index \/ NextLine \/ ReverseIndex
    \/ MoveTo \/ MoveVertically \/ SetRegion \/ EraseInLine \/ EraseInDisplay
    \/ DeleteChars \/ InsertChars \/ InsertLines \/ DeleteLines \/ Scroll \/ Switch
    \/ SaveCursor \/ RestoreCursor \/ SaveAside \/ RestoreAside
    \/ EnterAlt \/ LeaveAlt \/ FullReset \/ SetScrollback \/ Resize

Spec == Init /\ [][Next]_vars

----------------------------------------------------------------------------

Spot == [row : Int, col : Int]

TypeOK ==
    /\ {t.cols, t.rows, t.top, t.bottom} \subseteq Nat \ {0}
    /\ {t.cur, t.saved, t.altSaved} \subseteq Spot
    /\ {t.pend, t.onAlt, t.altPending, t.irm, t.awm, t.panicked} \subseteq BOOLEAN
    /\ t.panicked \/ t.tabs \subseteq 1..t.cols
    /\ t.hist.n = Len(t.hist.lines) /\ t.hist.n <= t.hist.limit
    /\ t.onAlt = (t.hidden # <<>>)
    /\ count.ops \in 0..MaxOps /\ count.resizes \in 0..MaxResizes

OnScreen(c) == c.row \in 1..t.rows /\ c.col \in 1..t.cols

\* What an operation indexes is there: the rows are as wide and as many as the
\* screen is, the region and the cursor are on it, and the process lives - but for
\* a cursor put aside by mode 1048 and fetched back onto a smaller screen, and a
\* wide character on a screen of one column.
InRange ==
    IF t.panicked THEN t.cols = 1 \/ ~OnScreen(t.altSaved)
    ELSE /\ Len(t.screen) = t.rows
         /\ \A r \in DOMAIN t.screen : /\ Len(t.screen[r].cells) = t.cols
                                       /\ t.screen[r].used <= t.cols \/ t.onAlt
         /\ t.top \in 1..t.bottom /\ t.bottom <= t.rows
         /\ OnScreen(t.cur) \/ ~OnScreen(t.altSaved)

\* The scrollback, read by age, is the newest of the lines that scrolled off; and
\* whoever looks back by any number of lines sees those and the screen without a gap,
\* each row as wide as the screen is now.
HistoryIsTail ==
    /\ RingLines(t.hist) = t.hist.all
    /\ LET all == t.hist.all \o t.screen
       IN  \A offset \in 0..Len(t.hist.all) : \A r \in 1..t.rows :
              ~t.panicked =>
                  View(t, offset)[r] = FitRow(all[Len(t.hist.all) - offset + r].cells, t.cols)

Resized == count'.resizes # count.resizes

\* A resize of the primary screen breaks lines anew and loses no character, joins no
\* two lines that a newline parted and parts none that wrapped; what a full scrollback
\* lets go of is the oldest.  Rows that InsertChars shifted are not held to it.
ReflowKeepsText ==
    [][Resized /\ ~t.onAlt /\ ~t'.panicked /\ ~Short(t) =>
          IF Full(t') THEN IsSuffix(Text(t'), Text(t)) ELSE Paragraphs(t') = Paragraphs(t)]_vars

\* The cursor stays before the same text, unless that scrolled off: then it is at the
\* top, before what is left - but for a wrap that was pending, and a cursor on the
\* second half of a wide character or among halves that lost theirs.
CursorKeepsPlace ==
    [][Resized /\ ~t.onAlt /\ ~t'.panicked /\ ~Short(t) /\ ~Torn(t)
        /\ ~t.pend /\ OnScreen(t.cur) /\ Cells[t.cur.col] # Half =>
          \/ TextAfter(t') = TextAfter(t)
          \/ t'.cur.row = 1 /\ IsSuffix(TextAfter(t'), TextAfter(t))]_vars

\* A program that had the alternate screen gives the shell's text back, whatever it
\* drew there and however the window was resized meanwhile.
AltGivesBack ==
    [][LeaveAlt /\ ~t'.panicked /\ ~Short(t) =>
          IF Full(t') THEN IsSuffix(Text(t'), main) ELSE Text(t') = main]_vars
=============================================================================
