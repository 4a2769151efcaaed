----------------------------- MODULE Transcript -----------------------------
(***************************************************************************)
(* What a service's log promises, whatever writes it: the bytes of the      *)
(* service's stream up to some offset are each in the log, once and in the  *)
(* order they were written, or admitted to be missing.                      *)
(***************************************************************************)
EXTENDS Integers, Sequences

VARIABLES kept,  \* the offsets in the log, in file order
          said,  \* how many bytes are admitted to be missing
          upTo   \* the log accounts for every offset below this one

vars == <<kept, said, upTo>>

Init == kept = <<>> /\ said = 0 /\ upTo = 0

\* The log comes to account for more: what it keeps of it goes at the end, in
\* order, and what it does not keep is admitted.
Advance ==
    /\ upTo' > upTo
    /\ Len(kept') >= Len(kept)
    /\ \A k \in 1..Len(kept) : kept'[k] = kept[k]
    /\ \A k \in (Len(kept) + 1)..Len(kept') :
         /\ kept'[k] \in upTo..(upTo' - 1)
         /\ k > Len(kept) + 1 => kept'[k-1] < kept'[k]
    /\ said' - said = (upTo' - upTo) - (Len(kept') - Len(kept))

Spec == Init /\ [][Advance]_vars

=============================================================================
