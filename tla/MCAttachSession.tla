--------------------------- MODULE MCAttachSession ---------------------------
(* AttachSession with one client on a ring of three bytes. *)
EXTENDS AttachSession, TLC

MCNewlines == {1, 3}

=============================================================================
