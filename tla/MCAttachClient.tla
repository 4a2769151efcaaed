-------------------------- MODULE MCAttachClient --------------------------
(* Two tabs, the second one a shell of the user's own. *)
EXTENDS AttachClient, TLC

CONSTANTS work, shell, new

TwoTabs == <<work, shell>>

=============================================================================
