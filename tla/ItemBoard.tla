------------------------------ MODULE ItemBoard ------------------------------
(***************************************************************************)
(* What the progress items of a session promise to who watches the chat:   *)
(* an item begins once and ends once, for good; nothing is shown of it     *)
(* that is not on record; and what has been shown is not taken back, but   *)
(* when the chat is loaded anew.                                           *)
(***************************************************************************)
EXTENDS Naturals

CONSTANT Items

VARIABLES
    row,     \* how far each item is on record: 0 not begun, 1 begun, 2 ended
    shown    \* how far the chat shows it

board == <<row, shown>>

Init ==
    /\ row = [i \in Items |-> 0]
    /\ shown = [i \in Items |-> 0]

Write(i) == row[i] < 2 /\ row' = [row EXCEPT ![i] = @ + 1] /\ UNCHANGED shown

Show(i) ==
    /\ \E far \in shown[i]..row[i] : shown' = [shown EXCEPT ![i] = far]
    /\ UNCHANGED row

Leave == shown' = [i \in Items |-> 0] /\ UNCHANGED row
Load  == shown' = row /\ UNCHANGED row

Next == Leave \/ Load \/ \E i \in Items : Write(i) \/ Show(i)

Spec == Init /\ [][Next]_board

=============================================================================
