------------------------------ MODULE MCPublish ------------------------------
(***************************************************************************)
(* Publish for TLC: two publishes and a rollback.                          *)
(***************************************************************************)
EXTENDS Publish, TLC

CONSTANTS p1, p2, r1

MCPublishes == {p1, p2}
MCRollbacks == {r1}

=============================================================================
