----------------------------- MODULE MCCodexTurn -----------------------------
(* CodexTurn for TLC: the bounds are in the configurations. *)
EXTENDS CodexTurn
=============================================================================
