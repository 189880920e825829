----------------------------- MODULE DesignIntent -----------------------------
(***************************************************************************)
(* The design-intent graph of the discovery agent (packages/design-intent: *)
(* graph.py and nodes/): a LangGraph whose clarifier asks the user rounds  *)
(* of questions until its language model emits an intent, a reviewer that  *)
(* may send it back, and the chain search - score - compile - mood board.  *)
(* What the models reply is a choice of this module; what the code tells   *)
(* them, counts, and does with the replies is the graph's.                 *)
(* A node runs in two halves: "enter", where LangGraph calls the callbacks,*)
(* and "body", once they return.  A question suspends the graph; its       *)
(* answer starts a new invocation that runs clarifier_ask again, with new  *)
(* steps to spend.                                                         *)
(***************************************************************************)
EXTENDS Naturals, FiniteSets

CONSTANTS
    MaxRounds,            \* max_rounds
    MaxReviewRejections,  \* MAX_REVIEW_REJECTIONS
    MaxEmptyEmits,        \* empty emits before the clarifier gives up
    RecursionLimit,       \* supersteps of one invocation (LangGraph's default)
    MaxAsks,              \* bound: rounds the clarifier's model asks for
    Refs, MaxScore, Threshold  \* Pinterest references, image_score_threshold

ASSUME IntentAssumption ==
    /\ {MaxRounds, MaxReviewRejections, MaxEmptyEmits, MaxAsks, MaxScore} \subseteq Nat
    /\ RecursionLimit \in Nat \ {0}

Nodes == {"clarifier_step", "clarifier_ask", "palette_step", "review_step",
          "pinterest_search", "pinterest_score", "compiler", "mood_board_step"}
EmptyEmit == "emit empty"
Emits     == {EmptyEmit, "emit weak", "emit rich"}  \* weak: no required field has text
Replies   == Emits \cup {"ask", "palette", "unknown tool", "prose"}
NoRef     == "no reference"

VARIABLES
    node, at,    \* where the graph stands; at: "off", "enter", "body", "wait", "done", "raised"
    steps,       \* supersteps of this invocation
    answered,    \* clarifier_ask has its answers
    round, rejections, emptyEmits,  \* the counters in the state
    told,        \* what the last message tells the clarifier's model to do
    open,        \* tool calls in the conversation that no message answers
    intent,      \* design_intent
    defied,      \* the model asked although it was told to emit
    images,      \* the references that carry image_b64
    used, best   \* the reference the compiler gets, the best-scored one

counters  == <<round, rejections, emptyEmits>>
dialogue  == <<told, open, defied>>
refVars   == <<images, used, best>>
graphVars == <<node, at, steps, answered, counters, dialogue, intent, refVars>>

GraphInit ==
    /\ node = "clarifier_step" /\ at = "off" /\ steps = 0 /\ answered = FALSE
    /\ round = 0 /\ rejections = 0 /\ emptyEmits = 0
    /\ told = "nothing" /\ open = 0 /\ intent = "none" /\ defied = FALSE
    /\ images = {} /\ used = NoRef /\ best = NoRef

\* A superstep more; GraphRecursionError when there is none left.
GoTo(n) ==
    /\ node' = n
    /\ at' = IF steps < RecursionLimit THEN "enter" ELSE "raised"
    /\ steps' = IF steps < RecursionLimit THEN steps + 1 ELSE steps

Body(n) == at = "body" /\ node = n
Raise   == at' = "raised" /\ UNCHANGED <<node, steps>>

StartGraph ==
    /\ at = "off" /\ GoTo("clarifier_step")
    /\ UNCHANGED <<answered, counters, dialogue, intent, refVars>>

\* Any call of a language model that no node guards.
ModelRaises ==
    /\ at = "body" /\ node \in {"clarifier_step", "compiler"}
    /\ Raise
    /\ UNCHANGED <<answered, counters, dialogue, intent, refVars>>

-----------------------------------------------------------------------------
\* Mutant: the cap is one round late.
HeardLate == IF round > MaxRounds /\ told = "nothing" THEN "emit" ELSE told

\* clarifier_step.  At the round cap the model is told to emit, unless a message
\* newer than its last reply already names emit_design_intent, as those of the
\* reviewer and of an empty emit do.
Heard == IF round >= MaxRounds /\ told = "nothing" THEN "emit" ELSE told

Replied(r, extra) ==
    /\ Body("clarifier_step") /\ open = 0
    /\ defied' = (defied \/ (Heard = "emit" /\ r = "ask"))
    \* Only the first of several tool calls ever gets an answer, an unknown one none.
    /\ open' = extra + (IF r \in {"ask", "palette", "unknown tool"} THEN 1 ELSE 0)
    /\ UNCHANGED <<answered, round, rejections, refVars>>

\* The API refuses a conversation with a tool call that has no answer.
ConversationRefused ==
    /\ Body("clarifier_step") /\ open > 0
    /\ Raise
    /\ UNCHANGED <<answered, counters, dialogue, intent, refVars>>

AskOrLoop(r, extra) ==
    /\ r \notin Emits /\ (r = "ask" => round < MaxAsks) /\ (r = "prose" => extra = 0)
    /\ Replied(r, extra)
    /\ told' = "nothing"
    /\ GoTo(CASE r = "ask" -> "clarifier_ask" [] r = "palette" -> "palette_step"
              [] OTHER -> "clarifier_step")
    /\ UNCHANGED <<emptyEmits, intent>>

EmitsIntent(r, extra) ==
    /\ r \in Emits \ {EmptyEmit}
    /\ Replied(r, extra)
    /\ told' = "nothing" /\ intent' = r
    /\ GoTo("review_step")
    /\ UNCHANGED emptyEmits

EmitsNothing(extra) ==
    /\ Replied(EmptyEmit, extra)
    /\ emptyEmits' = emptyEmits + 1
    /\ told' = "fill"
    /\ IF emptyEmits' > MaxEmptyEmits THEN Raise ELSE GoTo("clarifier_step")
    /\ UNCHANGED intent

\* clarifier_ask runs twice: up to interrupt(), and again with the answers.
Suspend ==
    /\ Body("clarifier_ask") /\ ~answered
    /\ at' = "wait"
    /\ UNCHANGED <<node, steps, answered, counters, dialogue, intent, refVars>>

\* user_input_fn returns, with answers or without: Command(resume=answers).
Resume ==
    /\ at = "wait" /\ at' = "enter"
    /\ steps' = 1 /\ answered' = TRUE
    /\ UNCHANGED <<node, counters, dialogue, intent, refVars>>

TakeAnswers ==
    /\ Body("clarifier_ask") /\ answered
    /\ answered' = FALSE /\ round' = round + 1 /\ open' = open - 1
    /\ GoTo("clarifier_step")
    /\ UNCHANGED <<rejections, emptyEmits, told, defied, intent, refVars>>

\* palette_step falls back to fixed colours when its model fails.
Palette ==
    /\ Body("palette_step")
    /\ open' = open - 1
    /\ GoTo("clarifier_step")
    /\ UNCHANGED <<answered, counters, told, defied, intent, refVars>>

-----------------------------------------------------------------------------
\* review_step: the reviewer's model approves, or cannot be reached.
ReviewPasses ==
    /\ Body("review_step") /\ intent = "emit rich"
    /\ GoTo("pinterest_search")
    /\ UNCHANGED <<answered, counters, dialogue, intent, refVars>>

\* A rejection past the cap lets the intent through with a note.
ReviewRejects ==
    /\ Body("review_step")
    /\ rejections' = rejections + 1
    /\ IF rejections' > MaxReviewRejections
       THEN GoTo("pinterest_search") /\ UNCHANGED <<told, intent>>
       ELSE told' = "ask" /\ intent' = "none" /\ GoTo("clarifier_step")
    /\ UNCHANGED <<answered, round, emptyEmits, open, defied, refVars>>

\* pinterest_search: any of the references found may come without an image.
Search ==
    /\ Body("pinterest_search")
    /\ images' \in SUBSET Refs
    /\ GoTo("pinterest_score")
    /\ UNCHANGED <<answered, counters, dialogue, intent, used, best>>

\* pinterest_score: the first reference, in shuffled order, that reaches the
\* threshold, else the best; without scores the first.  The others lose their image.
Scored(order, score) ==
    LET FirstOf(S) == CHOOSE r \in S : \A q \in S : order[r] <= order[q]
        good == {r \in images : score[r] >= Threshold}
        top  == {r \in images : \A q \in images : score[q] <= score[r]}
    IN /\ used' = FirstOf(IF good = {} THEN top ELSE good)
       /\ best' = FirstOf(top)

Orders == {o \in [images -> 1..Cardinality(images)] : \A r, q \in images : o[r] = o[q] => r = q}

Score ==
    /\ Body("pinterest_score") /\ GoTo("compiler")
    /\ \/ images = {} /\ UNCHANGED refVars
       \/ images # {} /\ used' \in images /\ best' = NoRef /\ images' = {used'}
       \/ /\ images # {}
          /\ \E order \in Orders, score \in [images -> 0..MaxScore] : Scored(order, score)
          /\ images' = {used'}
    /\ UNCHANGED <<answered, counters, dialogue, intent>>

Compile ==
    /\ Body("compiler") /\ GoTo("mood_board_step")
    /\ UNCHANGED <<answered, counters, dialogue, intent, refVars>>

\* mood_board_step is the last node; a failure costs the picture only.
MoodBoard ==
    /\ Body("mood_board_step") /\ at' = "done"
    /\ UNCHANGED <<node, steps, answered, counters, dialogue, intent, refVars>>

Clarify ==
    \/ \E r \in Replies, extra \in {0, 1} : AskOrLoop(r, extra) \/ EmitsIntent(r, extra)
    \/ \E extra \in {0, 1} : EmitsNothing(extra)
    \/ ConversationRefused
RunNode == \/ Clarify \/ Suspend \/ TakeAnswers \/ Palette \/ ReviewPasses \/ ReviewRejects
           \/ Search \/ Score \/ Compile \/ MoodBoard

-----------------------------------------------------------------------------
\* Past the cap a round needs a message that let the clarifier ask: a model that
\* emits when told to asks no more rounds than max_rounds, the rejections and the
\* empty emits together.
RoundsAccountedFor == ~defied => round <= MaxRounds + rejections + emptyEmits

\* "once the user has answered 3 rounds of questions, force the next call to emit
\* rather than ask again" (clarifier.py).
RoundsCapped == ~defied => round <= MaxRounds

\* The bubble marks the reference the pipeline has used ("FINAL scored refs +
\* chosen_id").
ChosenIsUsed == best # NoRef => best = used
=============================================================================
