---------------------------- MODULE DiscoverBuild ----------------------------
(***************************************************************************)
(* The progress items of a session: a discovery run and, when it completes *)
(* (or at once, for a session that only builds), a codex run, on one page. *)
(* The codex run turns the notifications of codex about its items into     *)
(* sink calls (_CodexTurnSink): messages stream text while they are open,  *)
(* and an item may complete that was never seen to start.  What is open    *)
(* when the turn ends stays open.                                          *)
(***************************************************************************)
EXTENDS Discovery

VARIABLE turn   \* the codex run: "none", "running", "ended"

vars == <<feedVars, graphVars, agentVars, turn>>

CodexItems == Items \ {Stages[k] : k \in 1..4}

Init == DiscoveryInit /\ turn = "none"

BeginTurn ==
    /\ turn = "none" /\ turn' = "running"
    /\ agent = "idle" \/ (agent = "returned" /\ outcome = "completed")
    /\ UNCHANGED <<feedVars, graphVars, agentVars>>

\* A handler of the turn makes its calls before the next notification is read.
Calls(cs) ==
    /\ turn = "running" /\ script = <<>>
    /\ script' = cs
    /\ UNCHANGED <<events, wrote, started, completed, pageVars, graphVars, agentVars, turn>>

OnItemStarted(i) == started[i] = 0 /\ Calls(<<Start(i, Nothing)>>)

OnMessageDelta(i) == i \in Messages /\ IsOpen(i) /\ Calls(<<Text(i)>>)

OnItemCompleted(i) ==
    /\ i \notin completed
    /\ Calls((IF started[i] = 0 THEN <<Start(i, "final")>> ELSE <<>>)
             \o <<Complete(i, "final", "completed")>>)

TurnEnds ==
    /\ turn = "running" /\ script = <<>> /\ turn' = "ended"
    /\ UNCHANGED <<feedVars, graphVars, agentVars>>

CodexStep == \/ BeginTurn \/ TurnEnds
             \/ \E i \in CodexItems : OnItemStarted(i) \/ OnMessageDelta(i) \/ OnItemCompleted(i)

Next ==
    \/ turn = "none" /\ (DiscoveryStep \/ Interrupt) /\ UNCHANGED turn
    \/ FeedNext /\ UNCHANGED <<graphVars, agentVars, turn>>
    \/ CodexStep

Spec == Init /\ [][Next]_vars

-----------------------------------------------------------------------------
RowsOf(i) == {k \in DOMAIN events : events[k].item = i}
RowOf(i)  == events[CHOOSE k \in RowsOf(i) : TRUE]

\* "Moving into a later-sequence kind closes any earlier-sequence kinds still
\* open" (discovery.py): the row of a stage is written when those before it ended.
StagesInOrder ==
    \A k \in 1..4 : RowsOf(Stages[k]) # {} =>
        \A j \in 1..(k - 1) : RowsOf(Stages[j]) # {} => Ended(RowOf(Stages[j]).status)

\* A page that has read all its frames shows what a reload would show, one bubble
\* for one row, except for items with a frame it never got and the text of an open
\* message: what a lost frame said the completed frame of the item says again.
PageTellsRows ==
    (stream = "open" /\ feed = <<>> /\ script = <<>>) =>
        \A i \in Items \ (missed \cup orphaned) : RowsOf(i) # {} =>
            \E k \in BubblesOf(i) :
                /\ BubblesOf(i) = {k} /\ Cardinality(RowsOf(i)) = 1
                /\ Ended(page[k].status) <=> Ended(RowOf(i).status)
                /\ page[k].payload = RowOf(i).payload
                       \/ (i \in Messages /\ ~Ended(RowOf(i).status))

\* Once the agent has returned no stage is open, unless the interrupt cut the
\* call that opened it between its INSERT and its return.
ClosedOnReturn ==
    agent = "returned" =>
        \A k \in 1..4 : RowsOf(Stages[k]) # {} /\ Stages[k] \notin orphaned =>
            Ended(RowOf(Stages[k]).status)

\* finalize_all: "Close whatever is still open" (discovery.py).  Refuted: the stage
\* whose INSERT the interrupt cut is not among the started.
NoBubbleLeftOpen ==
    agent = "returned" => \A k \in 1..4 : RowsOf(Stages[k]) # {} => Ended(RowOf(Stages[k]).status)

\* The rows and the bubbles obey the board: whatever is lost, late, loaded anew or
\* interrupted, no bubble is ahead of its row, and a frame that comes late never
\* reopens a bubble that has ended.
HowFar(rows, i) ==
    IF \E k \in DOMAIN rows : rows[k].item = i /\ Ended(rows[k].status) THEN 2
    ELSE IF \E k \in DOMAIN rows : rows[k].item = i THEN 1
    ELSE 0

Board == INSTANCE ItemBoard WITH row <- [i \in Items |-> HowFar(events, i)],
                                 shown <- [i \in Items |-> HowFar(page, i)]

PageKeepsBoard == Board!Spec
=============================================================================
