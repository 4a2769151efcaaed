--------------------------- MODULE StoppedProcess ---------------------------
(***************************************************************************)
(* What a process promises those who stop it, whatever becomes of it in the *)
(* meantime: a stop that has returned leaves neither the process nor        *)
(* anything it started, and nothing is started by it afterwards.            *)
(***************************************************************************)
CONSTANT Callers  \* of the stop

VARIABLES leader,   \* "live", or "gone" once its end is known
          kids,     \* something it started goes on
          stopping  \* the callers whose stop has not returned

vars == <<leader, kids, stopping>>

Init == leader = "live" /\ kids \in BOOLEAN /\ stopping = {}

Fork ==
    /\ leader = "live"
    /\ kids' = TRUE
    /\ UNCHANGED <<leader, stopping>>

Exit ==
    /\ leader = "live"
    /\ leader' = "gone"
    /\ UNCHANGED <<kids, stopping>>

KidsExit ==
    /\ kids
    /\ kids' = FALSE
    /\ UNCHANGED <<leader, stopping>>

World == Fork \/ Exit \/ KidsExit

Begin(c) ==
    /\ c \notin stopping
    /\ stopping' = stopping \cup {c}
    /\ UNCHANGED <<leader, kids>>

Stopped == leader # "live" /\ ~kids

Return(c) ==
    /\ c \in stopping /\ Stopped
    /\ stopping' = stopping \ {c}
    /\ UNCHANGED <<leader, kids>>

Next == World \/ \E c \in Callers : Begin(c) \/ Return(c)

Spec == Init /\ [][Next]_vars

=============================================================================
