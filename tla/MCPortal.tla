------------------------------- MODULE MCPortal -------------------------------
(* The portal for TLC.  No request differs from another, so that they may be  *)
(* exchanged.                                                                 *)
EXTENDS Portal, TLC

MCSymmetry == Permutations(Creates) \cup Permutations(Deletes)
=============================================================================
