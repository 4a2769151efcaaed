----------------------------- MODULE MCRecovery -----------------------------
(* Names, processes and supervisors are alike.  The properties speak of       *)
(* behaviours in which nothing odd has happened yet, so the others are cut.    *)
EXTENDS Recovery, TLC

Alike == Permutations(Names) \cup Permutations(Pids) \cup Permutations(Sups)

NothingOdd == odd = {}

=============================================================================
