------------------------- MODULE MCServerLifecycle -------------------------
(* An instance of ServerLifecycle for TLC. *)
EXTENDS ServerLifecycle
=============================================================================
