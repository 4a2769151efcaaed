--------------------------- MODULE RenderedScreen ---------------------------
(***************************************************************************)
(* The real terminal under a rendered attach, as far as it has modes - mouse*)
(* reporting, bracketed paste, the cursor's shape, the keypad: whatever the *)
(* pane with the keyboard asked for is passed on, and only when it changed. *)
(* What the terminal has been told is remembered apart from what it is in.  *)
(***************************************************************************)
EXTENDS FiniteSets

CONSTANT Modes  \* what a program may switch on

VARIABLES
    term,   \* modes the terminal is in
    told,   \* renderedScreen.applied: what it has been told to be in
    askew   \* history: modes it was left in by a redraw that told it nothing

screen == <<term, told, askew>>

ScreenInit == term = {} /\ told = {} /\ askew = {}

Differs(a, b) == (a \ b) \cup (b \ a)

\* Mutant: what the last pane switched on stays on.
PaintOver(want) ==
    /\ term' = term \cup want
    /\ told' = want
    /\ askew' = askew

\* applyModes: the difference to what it was told last.
Paint(want) ==
    /\ term' = (term \ (told \ want)) \cup (want \ told)
    /\ told' = want
    /\ askew' = askew \ Differs(told, want)

\* Forget, then a paint: only what is to be on is sent.
Redraw(want) ==
    /\ term' = term \cup want
    /\ told' = want
    /\ askew' = term \ want

\* releaseModes: off goes what it was told to switch on.
CloseScreen ==
    /\ term' = term \ told
    /\ told' = {}
    /\ UNCHANGED askew
=============================================================================
