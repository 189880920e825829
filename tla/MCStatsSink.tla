----------------------------- MODULE MCStatsSink -----------------------------
(* StatsSink for TLC: the bounds are in the configurations. *)
EXTENDS StatsSink
=============================================================================
