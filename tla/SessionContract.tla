--------------------------- MODULE SessionContract ---------------------------
(***************************************************************************)
(* What the row of a session and its session_completed frames promise to   *)
(* whoever lists the sessions or follows one, whatever fails: the status   *)
(* goes through "queued" and "running" to its end, step by step and never  *)
(* back, and a frame says what the row says.  Only a session that somebody *)
(* has asked to interrupt is marked "interrupted" from outside, and only   *)
(* over that mark may work that has not noticed write its own status.      *)
(***************************************************************************)
CONSTANT Sessions

Terminal == {"completed", "failed", "interrupted"}

VARIABLES
    status,
    frames,   \* the statuses that frames have told of
    asked     \* sessions somebody has asked to interrupt

contract == <<status, frames, asked>>

Init ==
    /\ status = [s \in Sessions |-> "absent"]
    /\ frames = [s \in Sessions |-> {}]
    /\ asked = {}

Marked(s) == s \in asked /\ status[s] = "interrupted"

Becomes(s, new) == status' = [status EXCEPT ![s] = new] /\ UNCHANGED <<frames, asked>>

Create(s)   == status[s] = "absent" /\ Becomes(s, "queued")
Begin(s)    == (status[s] = "queued" \/ Marked(s)) /\ Becomes(s, "running")
End(s, how) == (status[s] = "running" \/ Marked(s)) /\ Becomes(s, how)
Mark(s)     == s \in asked /\ status[s] # "absent" /\ Becomes(s, "interrupted")

AskToStop(s) ==
    /\ status[s] \in {"queued", "running"}
    /\ asked' = asked \cup {s}
    /\ UNCHANGED <<status, frames>>

Tell(s, how) ==
    /\ how = status[s] \/ s \in asked
    /\ frames' = [frames EXCEPT ![s] = @ \cup {how}]
    /\ UNCHANGED <<status, asked>>

Next ==
    \E s \in Sessions :
        \/ Create(s) \/ Begin(s) \/ Mark(s) \/ AskToStop(s)
        \/ \E how \in Terminal : End(s, how) \/ Tell(s, how)

Spec == Init /\ [][Next]_contract

\* The row of a session that nobody has interrupted agrees with every frame sent, so
\* that the first frame a browser gets is the last word.
FramesAgree ==
    \A s \in Sessions \ asked :
        /\ frames[s] \subseteq {status[s]}
        /\ frames[s] # {} => status[s] \in Terminal

=============================================================================
