---------------------------- MODULE AnswerLedger ----------------------------
(***************************************************************************)
(* What a clarification promises the agent that asks, whatever is lost,    *)
(* late or asked again: the questions of a session are asked one after the *)
(* other, each ends once and for good, and it ends empty or with answers   *)
(* that a user has given to this very question by then.  A user may answer *)
(* again, and answer a question that is over.                              *)
(***************************************************************************)
EXTENDS Naturals

CONSTANTS Requests, Answers

Open  == "none"                               \* a question that has not ended
Empty == {"timeout", "interrupt", "steer"}    \* the ways to end without answers

VARIABLES
    asked,     \* how many questions have been asked
    given,     \* the answers users have given to each of them
    outcome    \* how each of them has ended

contract == <<asked, given, outcome>>

Init ==
    /\ asked = 0
    /\ given = [r \in Requests |-> {}]
    /\ outcome = [r \in Requests |-> Open]

Ask ==
    /\ asked + 1 \in Requests
    /\ asked \in Requests => outcome[asked] # Open
    /\ asked' = asked + 1
    /\ UNCHANGED <<given, outcome>>

Give(r, a) ==
    /\ r <= asked
    /\ given' = [given EXCEPT ![r] = @ \cup {a}]
    /\ UNCHANGED <<asked, outcome>>

Settle ==
    /\ asked \in Requests /\ outcome[asked] = Open
    /\ \E how \in Empty \cup given[asked] : outcome' = [outcome EXCEPT ![asked] = how]
    /\ UNCHANGED <<asked, given>>

Next == Ask \/ Settle \/ \E r \in Requests, a \in Answers : Give(r, a)

Spec == Init /\ [][Next]_contract

=============================================================================
