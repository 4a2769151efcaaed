------------------------------ MODULE MCPanes ------------------------------
(***************************************************************************)
(* Panes for TLC: the services beside those typed are alike, and the window has room for two   *)
(* panes or for one.                                                       *)
(***************************************************************************)
EXTENDS Panes, TLC

Alike == Permutations(Names \ Typed)
PaneSizes == {[cols |-> 22, rows |-> 5], [cols |-> 11, rows |-> 5]}
=============================================================================
