---------------------------- MODULE MCPolarisCli ----------------------------
(***************************************************************************)
(* The CLI for TLC: one publish and one rollback, or three calls for a     *)
(* dependency, or three publishes and rollbacks of a manifest, or the      *)
(* audit of a start command of up to four words.                           *)
(***************************************************************************)
EXTENDS PolarisCli, TLC

CONSTANTS p1, r1, c1, c2, c3

MCPublishes == {p1}
MCRollbacks == {r1}
MCTwoCalls  == {c1, c2}
MCCommands  == BoundedSeq(Words, 4)
MCCalls     == {c1, c2, c3}

=============================================================================
