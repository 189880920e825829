--------------------------- MODULE MCClarification ---------------------------
(***************************************************************************)
(* Clarification for TLC: two answers and two submits, as model values.    *)
(***************************************************************************)
EXTENDS Clarification, TLC

CONSTANTS yes, no, u1, u2

MCAnswers  == {yes, no}
MCSubmits  == {u1, u2}

=============================================================================
