------------------------------ MODULE Discovery ------------------------------
(***************************************************************************)
(* The discovery agent (worker agents/discovery.py): it runs the           *)
(* design-intent graph in a task of its own, a LangChain callback turns    *)
(* the entry of each node into progress items, one per stage, and when the *)
(* graph returns, fails or is cancelled the stages still open are closed   *)
(* and the intent is saved.  The user's interrupt cancels the task at      *)
(* whatever it awaits, the sink's own INSERT and PUBLISH included.         *)
(***************************************************************************)
EXTENDS EventFeed, DesignIntent

Stages == <<"clarifying", "references", "compiled", "moodboard">>

ASSUME StagesAreItems == {Stages[k] : k \in 1..4} \subseteq Items \ Messages

VARIABLES
    agent,    \* "idle", "running", "finalizing", "persisting" or "returned"
    outcome,  \* RunOutcome.status, "none" before there is one
    orphaned  \* history: stages whose row was written and never noted

agentVars == <<agent, outcome, orphaned>>

DiscoveryInit ==
    /\ FeedInit /\ GraphInit
    /\ agent = "idle" /\ outcome = "none" /\ orphaned = {}

-----------------------------------------------------------------------------
\* _DiscoveryProgressHandler.  palette_step belongs to no stage.
StageOf(n) ==
    CASE n \in {"clarifier_step", "clarifier_ask", "review_step"} -> 1
      [] n \in {"pinterest_search", "pinterest_score"} -> 2
      [] n = "compiler" -> 3
      [] n = "mood_board_step" -> 4
      [] OTHER -> 0

IsOpen(i) == started[i] # 0 /\ i \notin completed

\* The call that closes the kth stage, if it is open.
Closed(k, p, s) == IF IsOpen(Stages[k]) THEN <<Complete(Stages[k], p, s)>> ELSE <<>>

\* _close_earlier: the open ones of the first n stages, in their order.
Closing(n, s) ==
    LET First(k) == IF k <= n THEN Closed(k, Nothing, s) ELSE <<>>
    IN  First(1) \o First(2) \o First(3)

\* The references close with their scores, the others with nothing of interest.
ClosedByNext(n) ==
    IF n = "compiler" THEN Closed(2, "scored", "completed") \o Closing(1, "completed")
                      ELSE Closing(StageOf(n) - 1, "completed")

Opened(n) ==
    LET i == Stages[StageOf(n)] IN
    IF started[i] = 0 THEN <<Start(i, IF i = "references" THEN "searching" ELSE Nothing)>>
    ELSE IF n = "pinterest_score" THEN <<Delta(i, "scoring")>>
    ELSE <<>>

\* Mutant: the next stage opens before the last one is closed.
OpenedFirst(n) == IF StageOf(n) = 0 THEN <<>> ELSE Opened(n) \o ClosedByNext(n)

\* on_chain_start.
OnChainStart(n) == IF StageOf(n) = 0 THEN <<>> ELSE ClosedByNext(n) \o Opened(n)

\* Mutant: the stages are closed only when the graph returns.
FinalizingReturned(status, url) ==
    IF status = "failed" THEN <<>> ELSE Closing(3, status) \o Closed(4, url, status)

\* finalize_all; the url of the mood board rides along when it was uploaded.
Finalizing(status, url) == Closing(3, status) \o Closed(4, url, status)

-----------------------------------------------------------------------------
Run ==
    /\ agent = "idle" /\ agent' = "running"
    /\ StartGraph
    /\ UNCHANGED <<outcome, orphaned, feedVars>>

EnterNode ==
    /\ agent = "running" /\ at = "enter"
    /\ at' = "body"
    /\ script' = OnChainStart(node)
    /\ UNCHANGED <<node, steps, answered, counters, dialogue, intent, refVars,
                   events, wrote, started, completed, pageVars, agentVars>>

\* The callback has returned, and the node runs; or the graph is started again.
RunGraph ==
    /\ agent = "running" /\ script = <<>>
    /\ RunNode \/ ModelRaises \/ Resume
    /\ UNCHANGED <<feedVars, agentVars>>

FinalizeAll(status, result, url) ==
    /\ agent' = "finalizing" /\ outcome' = result
    /\ script' = Finalizing(status, url)

\* The state of the graph goes with its task.
GraphGone ==
    /\ node' = "clarifier_step" /\ at' = "off" /\ steps' = 0 /\ answered' = FALSE
    /\ round' = 0 /\ rejections' = 0 /\ emptyEmits' = 0
    /\ told' = "nothing" /\ open' = 0 /\ intent' = "none" /\ defied' = FALSE
    /\ images' = {} /\ used' = NoRef /\ best' = NoRef

\* run_design_intent returns or raises.
GraphEnds ==
    /\ agent = "running" /\ at \in {"done", "raised"}
    /\ IF at = "done" THEN \E url \in {Nothing, "url"} : FinalizeAll("completed", "completed", url)
                      ELSE FinalizeAll("failed", "failed", Nothing)
    /\ GraphGone
    /\ UNCHANGED <<events, wrote, started, completed, pageVars, orphaned>>

\* What is left of the call the cancellation cuts: its row may be written and
\* its frame may be out, but the agent does not note it.
CallCut ==
    IF script = <<>> THEN UNCHANGED <<events, feed, missed, orphaned>>
    ELSE LET c == Head(script) IN
         \/ /\ ~wrote
            /\ UNCHANGED <<events, feed, missed, orphaned>>
         \/ /\ IF wrote THEN UNCHANGED events ELSE events' = Written(c)
            /\ orphaned' = IF c.op = "start" THEN orphaned \cup {c.item} ELSE orphaned
            /\ \/ missed' = missed \cup {c.item} /\ UNCHANGED feed
               \/ /\ wrote /\ stream = "open"
                  /\ feed' = Append(feed, FrameOf(c))
                  /\ UNCHANGED missed

\* handle_control cancels the task, unless it is done.
Interrupt ==
    /\ agent = "running" /\ at \notin {"done", "raised"}
    /\ CallCut
    /\ wrote' = FALSE
    /\ FinalizeAll("failed", "interrupted", Nothing)
    /\ GraphGone
    /\ UNCHANGED <<started, completed, stream, page, loads, lost>>

Finalized ==
    /\ agent = "finalizing" /\ script = <<>>
    /\ agent' = IF outcome = "completed" THEN "persisting" ELSE "returned"
    /\ UNCHANGED <<outcome, orphaned, feedVars, graphVars>>

\* The transaction of _persist_design_intent commits, or raises out of run.
Persist ==
    /\ agent = "persisting" /\ agent' = "returned"
    /\ outcome' \in {"completed", "failed"}
    /\ UNCHANGED <<orphaned, feedVars, graphVars>>

DiscoveryStep == Run \/ EnterNode \/ RunGraph \/ GraphEnds \/ Finalized \/ Persist
=============================================================================
