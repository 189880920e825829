------------------------------ MODULE EventFeed ------------------------------
(***************************************************************************)
(* How the progress items of one agent run reach the chat: DbEventSink     *)
(* (worker sink.py) writes a row of the events table and publishes a frame *)
(* on the session's channel; the page reduces the frames it receives       *)
(* (useSessionEventHandler.ts), matching them to its bubbles by            *)
(* external_id, or loads the rows (loadProject).  The agent makes one call *)
(* of the sink after another: "script" holds the calls it has still to     *)
(* make, and each is cut in two by the await between the row and the frame.*)
(* Pub/sub keeps nothing: a frame published while the page has no stream   *)
(* is lost, and so is one whose PUBLISH raises (the sink only logs it).    *)
(***************************************************************************)
EXTENDS Naturals, Sequences

CONSTANTS
    Items,      \* external ids
    Messages,   \* the items that stream text: codex:agent_message
    MaxLoads,   \* bound: page loads
    MaxLost,    \* bound: PUBLISHes that raise, dropped EventSources
    MaxBacklog  \* bound: frames on their way

ASSUME FeedAssumption == Messages \subseteq Items /\ {MaxLoads, MaxLost, MaxBacklog} \subseteq Nat

VARIABLES
    events,     \* the rows of the run
    script,     \* the sink calls the agent has still to make
    wrote,      \* the row of the first of them is written, its frame is not out
    started,    \* the agent's memory: item -> the id of its row, 0 for none
    completed,  \* the agent's memory: items it has completed
    stream,     \* the page: "off" loading, "gap" loaded, "open" subscribed
    page,       \* its bubbles
    feed,       \* frames on their way to it
    missed,     \* items with a frame the page never got
    loads, lost

sinkVars == <<events, script, wrote, started, completed>>
pageVars == <<stream, page, feed, missed, loads, lost>>
feedVars == <<sinkVars, pageVars>>

Nothing == ""   \* a payload with none of the keys told apart here
Row(i, s, p) == [item |-> i, status |-> s, payload |-> p]
Call(op, i, p, s) == [op |-> op, item |-> i, payload |-> p, status |-> s]
Start(i, p)       == Call("start", i, p, "started")
Delta(i, p)       == Call("delta", i, p, "started")
Complete(i, p, s) == Call("complete", i, p, s)
Text(i)           == Call("text", i, "partial", "started")

\* payload_jsonb || $3::jsonb, and the spread of the reducer.
Merge(old, new) == IF new = Nothing THEN old ELSE new

FeedInit ==
    /\ events = <<>> /\ script = <<>> /\ wrote = FALSE
    /\ started = [i \in Items |-> 0] /\ completed = {}
    \* The page that has created the session shows it before it subscribes.
    /\ stream = "gap" /\ page = <<>> /\ feed = <<>> /\ missed = {}
    /\ loads = 0 /\ lost = 0

-----------------------------------------------------------------------------
\* The sink.
Written(c) ==
    CASE c.op = "start" -> Append(events, Row(c.item, c.status, c.payload))
      [] c.op = "text"  -> events
      [] OTHER          -> [events EXCEPT ![started[c.item]] =
                               Row(c.item, c.status, Merge(@.payload, c.payload))]

WriteRow ==
    /\ script # <<>> /\ ~wrote
    /\ events' = Written(Head(script))
    /\ wrote' = TRUE
    /\ UNCHANGED <<script, started, completed, pageVars>>

\* Mutant: the frame of a delta or a completion has the payload of the call.
FrameOfCall(c) == c

\* A started frame has the payload of the call, the others that of the row.
FrameOf(c) == IF c.op \in {"start", "text"} THEN c
              ELSE [c EXCEPT !.payload = events[started[c.item]].payload]

\* The call returns and the agent notes the item.
Noted(c) ==
    /\ script' = Tail(script)
    /\ wrote' = FALSE
    /\ started' = IF c.op = "start" THEN [started EXCEPT ![c.item] = Len(events)] ELSE started
    /\ completed' = IF c.op = "complete" THEN completed \cup {c.item} ELSE completed
    /\ UNCHANGED events

\* A completed frame has all there is to know of its item.
Publish ==
    /\ wrote /\ Len(feed) < MaxBacklog
    /\ LET c == Head(script) IN
        /\ Noted(c)
        /\ feed' = IF stream = "open" THEN Append(feed, FrameOf(c)) ELSE feed
        /\ missed' = IF stream # "open" THEN missed \cup {c.item}
                     ELSE IF c.op = "complete" THEN missed \ {c.item} ELSE missed
    /\ UNCHANGED <<stream, page, loads, lost>>

PublishRaises ==
    /\ wrote /\ lost < MaxLost
    /\ LET c == Head(script) IN Noted(c) /\ missed' = missed \cup {c.item}
    /\ lost' = lost + 1
    /\ UNCHANGED <<stream, page, feed, loads>>

-----------------------------------------------------------------------------
\* The reducer.
BubblesOf(i) == {k \in DOMAIN page : page[k].item = i}
Bubble(f)    == Row(f.item, f.status, f.payload)
PutBubble(f, row) ==
    IF BubblesOf(f.item) = {} THEN Append(page, row)
    ELSE [page EXCEPT ![CHOOSE k \in BubblesOf(f.item) : \A l \in BubblesOf(f.item) : k <= l] = row]

\* Text goes to the newest message that is still open, whichever it belongs to.
OpenMessages == {k \in DOMAIN page : page[k].item \in Messages /\ page[k].status = "started"}
Newest       == CHOOSE k \in OpenMessages : \A l \in OpenMessages : l <= k

\* A bubble whose item fails is shown completed, too.
Reduced(f) ==
    CASE f.op = "start"    -> PutBubble(f, Bubble(f))
      [] f.op = "complete" -> PutBubble(f, Row(f.item, "completed", f.payload))
      [] f.op = "delta" /\ BubblesOf(f.item) # {} ->
            [k \in DOMAIN page |-> IF k \in BubblesOf(f.item)
                THEN [page[k] EXCEPT !.payload = Merge(@, f.payload)] ELSE page[k]]
      [] f.op = "text" /\ OpenMessages # {} -> [page EXCEPT ![Newest].payload = f.payload]
      [] OTHER -> page

ReduceFrame ==
    /\ feed # <<>>
    /\ page' = Reduced(Head(feed))
    /\ feed' = Tail(feed)
    /\ UNCHANGED <<sinkVars, stream, missed, loads, lost>>

\* The page: handleSelectProject closes the stream, loadProject reads the rows
\* and subscribes.
LoadPage ==
    /\ loads < MaxLoads /\ loads' = loads + 1
    /\ stream' = "off" /\ page' = <<>> /\ feed' = <<>>
    /\ UNCHANGED <<sinkVars, missed, lost>>

ReadRows ==
    /\ stream = "off" /\ stream' = "gap"
    /\ page' = events /\ missed' = {}
    /\ UNCHANGED <<sinkVars, feed, loads, lost>>

Subscribe ==
    /\ stream = "gap" /\ stream' = "open"
    /\ UNCHANGED <<sinkVars, page, feed, missed, loads, lost>>

\* The connection breaks; the EventSource connects again by itself.
DropStream ==
    /\ stream = "open" /\ lost < MaxLost
    /\ stream' = "gap" /\ feed' = <<>> /\ lost' = lost + 1
    /\ missed' = missed \cup {feed[k].item : k \in DOMAIN feed}
    /\ UNCHANGED <<sinkVars, page, loads>>

SinkStep == WriteRow \/ Publish
PageStep == ReduceFrame \/ ReadRows \/ Subscribe
FeedNext == SinkStep \/ PublishRaises \/ PageStep \/ LoadPage \/ DropStream

Ended(s) == s \in {"completed", "failed"}
=============================================================================
