----------------------------- MODULE PaneLayout -----------------------------
(***************************************************************************)
(* How panes share a screen, and which of a remembered arrangement fit on   *)
(* it.  Weights are counted in fifths, the step a pane grows or shrinks by, *)
(* and positions from 0.                                                    *)
(***************************************************************************)
EXTENDS Integers, Sequences

Larger(a, b) == IF a >= b THEN a ELSE b
Smaller(a, b) == IF a <= b THEN a ELSE b

InitialWeight == 5
Grown(weight, step, n) == Smaller(Larger(weight + step, 1), 5 * n)

\* Sums of the first elements of a sequence of numbers.
SumTo(s) == LET f[i \in 0..Len(s)] == IF i = 0 THEN 0 ELSE f[i - 1] + s[i] IN f

Total(weights) == SumTo(weights)[Len(weights)]

\* Each pane's share of the room there is, and where it begins with that many
\* cells between them.
Share(weights, room) ==
    LET total == Total(weights)
    IN  [i \in DOMAIN weights |-> Larger((room * weights[i]) \div total, 1)]
Begins(weights, room, gap) ==
    LET before == SumTo(Share(weights, room))
    IN  [i \in DOMAIN weights |-> before[i - 1] + gap * (i - 1)]

\* The last pane takes what is left.
LayoutRows(weights, cols, rows) ==
    LET share == Share(weights, rows)
        begins == Begins(weights, rows, 0)
    IN  [i \in DOMAIN weights |->
            [col |-> 0, row |-> begins[i], cols |-> cols,
             rows |-> Larger(IF i = Len(weights) THEN rows - begins[i] ELSE share[i], 1)]]

\* Mutant: every pane takes its own share and no more.
LayoutColumnsShares(weights, cols, rows) ==
    LET usable == Larger(cols - (Len(weights) - 1), Len(weights))
    IN  [i \in DOMAIN weights |->
            [col |-> Begins(weights, usable, 1)[i], row |-> 0,
             cols |-> Share(weights, usable)[i], rows |-> rows]]

LayoutColumns(weights, cols, rows) ==
    LET n == Len(weights)
        usable == Larger(cols - (n - 1), n)
        share == Share(weights, usable)
        begins == Begins(weights, usable, 1)
    IN  [i \in 1..n |->
            [col |-> begins[i], row |-> 0,
             cols |-> IF i = n THEN cols - begins[i] ELSE share[i], rows |-> rows]]

LayoutPanes(weights, how, cols, rows) ==
    IF how = "rows" THEN LayoutRows(weights, cols, rows) ELSE LayoutColumns(weights, cols, rows)

minPaneCols == 10
minPaneRows == 2

PaneRoom(how, cols, rows) ==
    Larger(IF how = "rows" THEN rows \div minPaneRows ELSE (cols + 1) \div (minPaneCols + 1), 1)

\* What is restored of an arrangement whose pane at was asked for: what fits, and
\* that pane in the place of the last if it is among the rest.
Restorable(panes, at, room) ==
    IF Len(panes) <= room THEN panes
    ELSE IF at > room THEN Append(SubSeq(panes, 1, room - 1), panes[at])
    ELSE SubSeq(panes, 1, room)

\* Nothing overlaps, nothing is off the screen or left over at its end, and every
\* pane has a cell.
Fits(rects, cols, rows) ==
    /\ \A i \in DOMAIN rects :
          /\ rects[i].cols >= 1 /\ rects[i].rows >= 1
          /\ rects[i].col + rects[i].cols <= cols /\ rects[i].row + rects[i].rows <= rows
    /\ LET last == rects[Len(rects)]
       IN  last.col + last.cols = cols /\ last.row + last.rows = rows
    /\ \A i, j \in DOMAIN rects :
          i < j => \/ rects[i].col + rects[i].cols < rects[j].col
                   \/ rects[i].row + rects[i].rows <= rects[j].row
=============================================================================
