-------------------------- MODULE MCSessionLifecycle --------------------------
(***************************************************************************)
(* SessionLifecycle for TLC: sessions of one project and one user, the     *)
(* first in the mode discover_then_build, the others in build_direct; or   *)
(* all of them in build_direct, and interchangeable.                       *)
(***************************************************************************)
EXTENDS SessionLifecycle, TLC

CONSTANTS s1, s2, app, ann

MCOne      == {s1}
MCTwo      == {s1, s2}
MCProjects == {app}
MCUsers    == {ann}
MCProject  == [s \in Sessions |-> app]
MCOwner    == [p \in Projects |-> ann]
MCMixed    == [s \in Sessions |->
                  IF s = s1 THEN <<"discovery", "codex">> ELSE <<"codex">>]
MCDirect   == [s \in Sessions |-> <<"codex">>]
MCSymmetry == Permutations(Sessions)

=============================================================================
