----------------------------- MODULE MCRunQuota -----------------------------
(***************************************************************************)
(* RunQuota for TLC: three requests, two of one user and one of another, so *)
(* that both limits can bind and a slot can be claimed again after a       *)
(* release or an expiry.                                                   *)
(***************************************************************************)
EXTENDS RunQuota, TLC

CONSTANTS ann, bob, s1, s2, s3

MCUsers    == {ann, bob}
MCSessions == {s1, s2, s3}
MCOwner    == (s1 :> ann) @@ (s2 :> ann) @@ (s3 :> bob)

\* Interchangeable sessions: those of ann.
MCSymmetry == Permutations({s1, s2})

=============================================================================
