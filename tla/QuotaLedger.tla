----------------------------- MODULE QuotaLedger -----------------------------
(***************************************************************************)
(* What the run quota promises the rest of the system, whatever protocol   *)
(* keeps it: the sessions that hold a slot, of which there are never more  *)
(* than the two limits allow.  A session takes both its slots at once;     *)
(* slots go back by a release or because their time is over.               *)
(* RunQuota implements it on two Redis keys, SessionLifecycle relies on it.*)
(***************************************************************************)
EXTENDS Naturals, FiniteSets

CONSTANTS Sessions, Users, Owner, MaxGlobalRuns, MaxUserRuns

VARIABLE holders

HoldersOf(u) == {s \in holders : Owner[s] = u}

Init == holders = {}

\* acquire_run_slot returns None; entries whose time is over go in the same step.
Take(s, gone) ==
    /\ holders' = (holders \ gone) \cup {s}
    /\ Cardinality(holders') <= MaxGlobalRuns
    /\ \A u \in Users : Cardinality(HoldersOf(u)') <= MaxUserRuns

\* release_run_slot, or a purge by another request.
GiveBack(gone) == holders' = holders \ gone

Next ==
    \E gone \in SUBSET holders :
        \/ GiveBack(gone)
        \/ \E s \in Sessions \ holders : Take(s, gone)

Spec == Init /\ [][Next]_holders

=============================================================================
