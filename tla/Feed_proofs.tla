------------------------------ MODULE Feed_proofs ------------------------------
(***************************************************************************)
(* Proofs about what the worker tells the chat while an agent runs: the    *)
(* rows of the stages and the page that shows them (DiscoverBuild), the    *)
(* rounds of questions (DesignIntent) and the counters of the status bar   *)
(* (StatsSink); for any items, caps, backlog, number of page loads, lost   *)
(* frames and failing UPDATEs.                                             *)
(*                                                                         *)
(* Stages.  Neither StagesInOrder nor ClosedOnReturn is inductive: both    *)
(* speak of rows, and what the agent does next depends on what it has      *)
(* noted (started, completed) and on the calls it has still to make        *)
(* (script).  StageInv says how the three fit together: a row is known to  *)
(* the agent, being started, or lost to the interrupt (RowsKnown); the     *)
(* calls left are in an order that makes sense (ScriptSound) and are those *)
(* of the node the graph stands at (Control); and what a start, or the     *)
(* agent's return, waits for has ended or is about to be closed            *)
(* (StagesClosing).                                                        *)
(*                                                                         *)
(* Page.  PageTellsRows speaks of a page that has read all its frames.     *)
(* PageInv says what holds before: the last frame about an item that is on *)
(* its way, or the bubble if there is none, says what the row does (Told), *)
(* unless the agent has written the row and not yet published it; and      *)
(* nothing is shown to have ended that has not (EndedTold), so that an     *)
(* update of a stage finds its bubble open.                                *)
(*                                                                         *)
(* Rounds.  RoundsAccountedFor counts rounds that are over.  RoundsInv     *)
(* counts also the round being asked, and the one that a message of the    *)
(* reviewer or of an empty emit still lets the clarifier ask: each of      *)
(* those is paid for by the counter that its message has raised.           *)
(*                                                                         *)
(* Counters.  NeverOvercounts forgets the delta that has left the buffer   *)
(* and is in a local variable of a flusher; StatsInv counts it.            *)
(***************************************************************************)
EXTENDS DiscoverBuild, StatsSink, SequenceTheorems, FiniteSetTheorems, WellFoundedInduction, TLAPS

StageItems == {Stages[k] : k \in 1..4}
Statuses   == {"started", "completed", "failed"}
Payloads   == {Nothing, "searching", "scoring", "scored", "url", "final", "partial"}
EventRows  == [item : Items, status : Statuses, payload : Payloads]
SinkCalls  == [op : {"start", "text", "delta", "complete"}, item : Items,
               payload : Payloads, status : Statuses]

\* Where the agent is between its sink calls.
FeedTypes ==
    /\ events \in Seq(EventRows)
    /\ script \in Seq(SinkCalls)
    /\ wrote \in BOOLEAN /\ (wrote => script # <<>>)
    /\ started \in [Items -> Nat]
    /\ completed \subseteq Items /\ orphaned \subseteq StageItems

\* The first call of the script is one that starts i, and its row is written.
Starting(i) == wrote /\ Head(script).op = "start" /\ Head(script).item = i

\* A row is known to the agent by the item it shows, or it is being started,
\* or the interrupt has cut the call that started it.
RowsKnown ==
    /\ \A i \in Items : started[i] # 0 =>
          started[i] \in DOMAIN events /\ events[started[i]].item = i
    /\ \A m \in DOMAIN events :
          \/ started[events[m].item] = m
          \/ events[m].item \in orphaned
          \/ Starting(events[m].item) /\ m = Len(events)
    /\ \A i \in Items : Starting(i) =>
          Len(events) # 0 /\ events[Len(events)].item = i
    /\ \A i \in orphaned : started[i] = 0

\* What has been completed has ended, and stays so.
CompletedEnded ==
    /\ \A i \in completed : started[i] # 0 /\ Ended(events[started[i]].status)
    /\ wrote /\ Head(script).op = "complete" => Ended(events[started[Head(script).item]].status)

\* The calls still to be made make sense of one another.
ScriptSound ==
    /\ \A p, q \in DOMAIN script : script[p].op = "start" /\ script[q].op = "start" => p = q
    /\ \A p \in DOMAIN script :
        LET c == script[p] IN
        /\ c.op = "complete" <=> Ended(c.status)
        /\ c.op = "start" => started[c.item] = 0 /\ c.item \notin orphaned
        /\ c.op # "start" =>
              \/ started[c.item] # 0
              \/ \E q \in 1..(p - 1) : script[q].op = "start" /\ script[q].item = c.item
        /\ c.op = "delta" => c.item \notin completed /\
              \A q \in DOMAIN script : script[q].item = c.item => q = p

Closes(i) == \E p \in DOMAIN script : script[p].op = "complete" /\ script[p].item = i

Rank(n) == IF n = "palette_step" THEN 1 ELSE StageOf(n)

\* Who makes the calls.
Control ==
    /\ agent \in {"idle", "running", "finalizing", "persisting", "returned"}
    /\ turn \in {"none", "running", "ended"}
    /\ node \in Nodes /\ (agent = "idle" => node = "clarifier_step")
    /\ turn # "none" => agent \in {"idle", "returned"}
    /\ script # <<>> => (agent = "running" /\ at = "body") \/ agent = "finalizing" \/ turn = "running"
    /\ agent \in {"idle", "running"} => orphaned = {}
    /\ agent \in {"idle", "returned"} =>
          \A p \in DOMAIN script : script[p].item \notin StageItems /\ script[p].op # "delta"
    /\ agent = "finalizing" => \A p \in DOMAIN script : script[p].op = "complete"
    /\ agent = "running" => \A p \in DOMAIN script :
          LET c == script[p] IN
          /\ c.op \in {"start", "delta"} => p = Len(script) /\ c.item = Stages[Rank(node)]
          /\ c.op = "complete" => \E j \in 1..(Rank(node) - 1) : c.item = Stages[j]
          /\ c.op # "text"

ShowsStage(m, k) == m \in DOMAIN events /\ events[m].item = Stages[k]

\* The stages on the page are those the graph has come to, one after another.
StagesSoFar ==
    /\ agent = "idle" => \A m \in DOMAIN events : events[m].item \notin StageItems
    /\ agent = "running" => \A k \in 1..4 : \A m \in DOMAIN events : ShowsStage(m, k) => k <= Rank(node)
    /\ agent = "running" => \A k \in 1..4 : Stages[k] \in completed => k < Rank(node)
    /\ \A j, k \in 1..4 : \A m, n \in DOMAIN events :
          j < k /\ ShowsStage(m, j) /\ ShowsStage(n, k) => Ended(events[m].status)

\* What the next start, or the agent's return, waits for is closed or about to be.
StagesClosing ==
    /\ agent = "running" /\ (\E p \in DOMAIN script : script[p].op = "start") =>
          \A j \in 1..(Rank(node) - 1) : \A m \in DOMAIN events :
              ShowsStage(m, j) => Ended(events[m].status) \/ Closes(Stages[j])
    /\ agent = "finalizing" =>
          \A k \in 1..4 : \A m \in DOMAIN events :
              ShowsStage(m, k) /\ Stages[k] \notin orphaned => Ended(events[m].status) \/ Closes(Stages[k])
    /\ agent \in {"persisting", "returned"} =>
          \A k \in 1..4 : \A m \in DOMAIN events :
              ShowsStage(m, k) /\ Stages[k] \notin orphaned => Ended(events[m].status)

StageInv == FeedTypes /\ RowsKnown /\ CompletedEnded /\ ScriptSound /\ Control /\ StagesSoFar /\ StagesClosing

-----------------------------------------------------------------------------
(* The calls that close stages.                                            *)

\* cs closes the open ones of the stages in J, and does nothing else.
Closers(cs, J) ==
    /\ cs \in Seq(SinkCalls)
    /\ \A p \in DOMAIN cs :
          /\ cs[p].op = "complete" /\ Ended(cs[p].status)
          /\ \E j \in J : cs[p].item = Stages[j] /\ IsOpen(Stages[j])
    /\ \A j \in J : IsOpen(Stages[j]) => \E p \in DOMAIN cs : cs[p].item = Stages[j]

\* The stages are four items.
LEMMA StageFacts ==
    /\ \A k \in 1..4 : Stages[k] \in Items /\ Stages[k] \in StageItems
    /\ \A j, k \in 1..4 : Stages[j] = Stages[k] => j = k
    /\ StageItems \subseteq Items
BY StagesAreItems DEF Stages, StageItems

\* Calls that close, one list after the other.
LEMMA ClosersConcat ==
    ASSUME NEW J, NEW K, NEW s, NEW t, Closers(s, J), Closers(t, K)
    PROVE  Closers(s \o t, J \cup K)
<1>1. s \in Seq(SinkCalls) /\ t \in Seq(SinkCalls) /\ Len(s) \in Nat /\ Len(t) \in Nat
      /\ DOMAIN s = 1..Len(s) /\ DOMAIN t = 1..Len(t)
  BY DEF Closers
<1>2. /\ s \o t \in Seq(SinkCalls) /\ Len(s \o t) = Len(s) + Len(t)
      /\ DOMAIN (s \o t) = 1..(Len(s) + Len(t))
      /\ \A p \in 1..(Len(s) + Len(t)) : (s \o t)[p] = IF p <= Len(s) THEN s[p] ELSE t[p - Len(s)]
  BY <1>1, ConcatProperties
<1> DEFINE u == s \o t
<1> HIDE DEF u
<1>3. ASSUME NEW p \in DOMAIN u
      PROVE  /\ u[p].op = "complete" /\ Ended(u[p].status)
             /\ \E j \in J \cup K : u[p].item = Stages[j] /\ IsOpen(Stages[j])
  <2>1. (p \in DOMAIN s /\ u[p] = s[p]) \/ (p - Len(s) \in DOMAIN t /\ u[p] = t[p - Len(s)])
    BY <1>1, <1>2, <1>3 DEF u
  <2> QED
    BY <2>1 DEF Closers
<1>4. ASSUME NEW j \in J \cup K, IsOpen(Stages[j])
      PROVE  \E p \in DOMAIN u : u[p].item = Stages[j]
  <2>1. CASE j \in J
    <3>1. PICK p \in DOMAIN s : s[p].item = Stages[j]
      BY <1>4, <2>1 DEF Closers
    <3>2. p \in DOMAIN u /\ u[p] = s[p]
      BY <1>1, <1>2, <3>1 DEF u
    <3> QED
      BY <3>1, <3>2
  <2>2. CASE j \in K
    <3>1. PICK p \in DOMAIN t : t[p].item = Stages[j]
      BY <1>4, <2>2 DEF Closers
    <3>2. p + Len(s) \in DOMAIN u /\ u[p + Len(s)] = t[p]
      BY <1>1, <1>2, <3>1 DEF u
    <3> QED
      BY <3>1, <3>2
  <2> QED
    BY <2>1, <2>2
<1> QED
  BY <1>2, <1>3, <1>4 DEF Closers, u

\* Closed, Closing, Finalizing and ClosedByNext close what they are for: _close_earlier,
\* finalize_all and the compiler's own close of the references.
LEMMA ClosedEffect ==
    ASSUME NEW k \in 1..4, NEW p \in Payloads, NEW s \in {"completed", "failed"}
    PROVE  Closers(Closed(k, p, s), {k})
<1>1. Complete(Stages[k], p, s) \in SinkCalls
  BY StageFacts DEF Complete, Call, SinkCalls, Statuses
<1>2. CASE IsOpen(Stages[k])
  <2> DEFINE c == Complete(Stages[k], p, s)
  <2>1. c.op = "complete" /\ c.status = s /\ c.item = Stages[k]
    BY DEF Complete, Call
  <2> HIDE DEF c
  <2>2. <<c>> \in Seq(SinkCalls) /\ DOMAIN <<c>> = {1} /\ <<c>>[1] = c
    BY <1>1 DEF c
  <2>3. Closers(<<c>>, {k})
    BY <1>2, <2>1, <2>2 DEF Closers, Ended
  <2> QED
    BY <1>2, <2>3 DEF Closed, c
<1>3. CASE ~IsOpen(Stages[k])
  BY <1>3 DEF Closed, Closers
<1> QED
  BY <1>2, <1>3

\* _close_earlier: the open ones of the first n stages.
LEMMA ClosingEffect ==
    ASSUME NEW n \in 0..3, NEW s \in {"completed", "failed"}
    PROVE  Closers(Closing(n, s), 1..n)
<1> DEFINE First(k) == IF k <= n THEN Closed(k, Nothing, s) ELSE <<>>
           Upto(k)  == {j \in {k} : j <= n}
<1>1. ASSUME NEW k \in 1..3 PROVE Closers(First(k), Upto(k))
  <2>1. CASE k <= n
    <3>1. Closers(Closed(k, Nothing, s), {k})
      BY ClosedEffect DEF Payloads
    <3> QED
      BY <2>1, <3>1
  <2>2. CASE ~(k <= n)
    BY <2>2 DEF Closers
  <2> QED
    BY <2>1, <2>2
<1>2. Closing(n, s) = First(1) \o First(2) \o First(3)
  BY DEF Closing
<1>3. Closers(First(1), Upto(1)) /\ Closers(First(2), Upto(2)) /\ Closers(First(3), Upto(3))
  BY <1>1
<1>4. Upto(1) \cup Upto(2) \cup Upto(3) = 1..n
  OBVIOUS
<1> HIDE DEF First, Upto
<1>5. Closers(First(1) \o First(2), Upto(1) \cup Upto(2))
  BY <1>3, ClosersConcat
<1>6. Closers((First(1) \o First(2)) \o First(3), (Upto(1) \cup Upto(2)) \cup Upto(3))
  BY <1>3, <1>5, ClosersConcat
<1> QED
  BY <1>2, <1>4, <1>6

\* finalize_all: every open stage.
LEMMA FinalizingEffect ==
    ASSUME NEW s \in {"completed", "failed"}, NEW url \in {Nothing, "url"}
    PROVE  Closers(Finalizing(s, url), 1..4)
<1>1. Closers(Closing(3, s), 1..3) /\ Closers(Closed(4, url, s), {4})
  BY ClosingEffect, ClosedEffect DEF Payloads
<1>2. (1..3) \cup {4} = 1..4
  OBVIOUS
<1> QED
  BY <1>1, <1>2, ClosersConcat DEF Finalizing

\* A node of a stage closes the stages before it.
LEMMA ClosedByNextEffect ==
    ASSUME NEW n \in Nodes, StageOf(n) # 0
    PROVE  StageOf(n) \in 1..4 /\ Rank(n) = StageOf(n) /\ Closers(ClosedByNext(n), 1..(StageOf(n) - 1))
<1>1. StageOf(n) \in 1..4 /\ Rank(n) = StageOf(n)
  BY DEF Nodes, StageOf, Rank
<1>2. CASE n = "compiler"
  <2>1. Closers(Closed(2, "scored", "completed"), {2}) /\ Closers(Closing(1, "completed"), 1..1)
    BY ClosingEffect, ClosedEffect DEF Payloads
  <2>2. {2} \cup (1..1) = 1..2 /\ StageOf(n) - 1 = 2
    BY <1>2 DEF StageOf
  <2> QED
    BY <1>1, <1>2, <2>1, <2>2, ClosersConcat DEF ClosedByNext
<1>3. CASE n # "compiler"
  <2>1. StageOf(n) - 1 \in 0..3 /\ ClosedByNext(n) = Closing(StageOf(n) - 1, "completed")
    BY <1>1, <1>3 DEF ClosedByNext
  <2> QED
    BY <1>1, <2>1, ClosingEffect
<1> QED
  BY <1>2, <1>3

-----------------------------------------------------------------------------
(* The first call of the script: its row, then its frame.                  *)

\* The row of c is written: a new one, or the one the agent knows c's item by.
Wrote(c) ==
    /\ events' \in Seq(EventRows)
    /\ \A m \in DOMAIN events : m \in DOMAIN events' /\ events'[m].item = events[m].item
    /\ c.op = "start" =>
          /\ Len(events') = Len(events) + 1 /\ events'[Len(events) + 1].item = c.item
          /\ \A m \in DOMAIN events : events'[m] = events[m]
    /\ c.op # "start" =>
          /\ Len(events') = Len(events) /\ started[c.item] \in DOMAIN events
          /\ \A m \in DOMAIN events \ {started[c.item]} : events'[m] = events[m]
    /\ c.op = "complete" => Ended(events'[started[c.item]].status)
    /\ c.op = "text" => events' = events

\* The call that is made next.
LEMMA HeadOfScript ==
    ASSUME FeedTypes, script # <<>>
    PROVE  /\ Head(script) = script[1] /\ Head(script) \in SinkCalls /\ 1 \in DOMAIN script
           /\ DOMAIN script = 1..Len(script) /\ Len(script) \in Nat /\ Len(script) >= 1
           /\ DOMAIN events = 1..Len(events) /\ Len(events) \in Nat
BY DEF FeedTypes

\* The statement of the sink: INSERT for a start, UPDATE of the row the agent knows else.
LEMMA WrittenEffect ==
    ASSUME FeedTypes, RowsKnown, ScriptSound, script # <<>>,
           NEW c, c = Head(script), events' = Written(c)
    PROVE  Wrote(c)
<1>1. c = script[1] /\ c \in SinkCalls /\ 1 \in DOMAIN script /\ DOMAIN events = 1..Len(events)
  BY HeadOfScript
<1>2. events \in Seq(EventRows) /\ Len(events) \in Nat
  BY DEF FeedTypes
<1>3. CASE c.op = "start"
  <2>1. Row(c.item, c.status, c.payload) \in EventRows /\ Row(c.item, c.status, c.payload).item = c.item
    BY <1>1 DEF Row, EventRows, SinkCalls
  <2>2. events' = Append(events, Row(c.item, c.status, c.payload))
    BY <1>3 DEF Written
  <2> QED
    BY <1>1, <1>2, <1>3, <2>1, <2>2 DEF Wrote
<1>4. CASE c.op # "start"
  <2>1. started[c.item] # 0
    BY <1>1, <1>4 DEF ScriptSound
  <2>2. started[c.item] \in DOMAIN events /\ events[started[c.item]].item = c.item
    BY <1>1, <2>1 DEF RowsKnown, SinkCalls
  <2>3. CASE c.op = "text"
    BY <1>2, <1>4, <2>2, <2>3 DEF Written, Wrote
  <2>4. CASE c.op # "text"
    <3> DEFINE n == started[c.item]
               r == Row(c.item, c.status, Merge(events[n].payload, c.payload))
    <3>1. r \in EventRows /\ r.item = c.item /\ r.status = c.status
      <4>1. events[n] \in EventRows
        BY <1>2, <2>2
      <4>2. Merge(events[n].payload, c.payload) \in Payloads
        BY <1>1, <4>1 DEF Merge, EventRows, SinkCalls
      <4> QED
        BY <1>1, <4>2 DEF Row, EventRows, SinkCalls
    <3>2. events' = [events EXCEPT ![n] = r]
      BY <1>4, <2>4 DEF Written
    <3> HIDE DEF r
    <3>3. /\ events' \in Seq(EventRows) /\ Len(events') = Len(events)
          /\ \A m \in 1..Len(events) : events'[m] = IF m = n THEN r ELSE events[m]
      BY <1>1, <1>2, <2>2, <3>1, <3>2, ExceptSeq
    <3>4. c.op = "complete" => Ended(c.status)
      BY <1>1 DEF ScriptSound
    <3> QED
      BY <1>1, <1>2, <1>4, <2>2, <2>4, <3>1, <3>3, <3>4 DEF Wrote
  <2> QED
    BY <2>3, <2>4
<1> QED
  BY <1>3, <1>4

\* What was there is there, and has ended if it had: a delta is for an item that
\* has not been completed.
LEMMA WroteKeeps ==
    ASSUME StageInv, script # <<>>, NEW c, c = Head(script), Wrote(c)
    PROVE  /\ DOMAIN events' = 1..Len(events') /\ Len(events') \in Nat
           /\ \A i \in completed : started[i] # 0 /\ Ended(events'[started[i]].status)
           /\ \A m \in DOMAIN events : Ended(events[m].status) =>
                 Ended(events'[m].status) \/ (c.op = "delta" /\ events[m].item = c.item)
           /\ \A n \in DOMAIN events' : n \notin DOMAIN events =>
                 n = Len(events) + 1 /\ c.op = "start" /\ events'[n].item = c.item
<1>1. /\ c = script[1] /\ c \in SinkCalls /\ 1 \in DOMAIN script
      /\ DOMAIN events = 1..Len(events) /\ Len(events) \in Nat
  BY HeadOfScript DEF StageInv
<1>2. DOMAIN events' = 1..Len(events') /\ Len(events') \in Nat
  BY DEF Wrote
<1>3. \A i \in Items : started[i] # 0 => started[i] \in DOMAIN events /\ events[started[i]].item = i
  BY DEF StageInv, RowsKnown
<1>4. ASSUME NEW m \in DOMAIN events, Ended(events[m].status)
      PROVE  Ended(events'[m].status) \/ (c.op = "delta" /\ events[m].item = c.item)
  <2>1. CASE c.op = "start" \/ c.op = "text"
    BY <1>4, <2>1 DEF Wrote
  <2>2. CASE c.op # "start" /\ m # started[c.item]
    BY <1>4, <2>2 DEF Wrote
  <2>3. CASE c.op = "complete" /\ m = started[c.item]
    BY <2>3 DEF Wrote
  <2>4. CASE c.op = "delta" /\ m = started[c.item]
    <3>1. started[c.item] # 0 /\ c.item \in Items
      BY <1>1, <2>4 DEF StageInv, ScriptSound, SinkCalls
    <3> QED
      BY <1>3, <2>4, <3>1
  <2> QED
    BY <1>1, <2>1, <2>2, <2>3, <2>4 DEF SinkCalls
<1>5. ASSUME NEW i \in completed PROVE started[i] # 0 /\ Ended(events'[started[i]].status)
  <2>1. i \in Items /\ started[i] # 0 /\ Ended(events[started[i]].status)
    BY DEF StageInv, FeedTypes, CompletedEnded
  <2>2. started[i] \in DOMAIN events /\ events[started[i]].item = i
    BY <1>3, <2>1
  <2>3. c.op = "delta" => c.item # i
    BY <1>1 DEF StageInv, ScriptSound
  <2> QED
    BY <1>4, <2>1, <2>2, <2>3
<1>6. ASSUME NEW n \in DOMAIN events', n \notin DOMAIN events
      PROVE  n = Len(events) + 1 /\ c.op = "start" /\ events'[n].item = c.item
  <2>1. c.op = "start" => Len(events') = Len(events) + 1 /\ events'[Len(events) + 1].item = c.item
    BY DEF Wrote
  <2>2. c.op # "start" => Len(events') = Len(events)
    BY DEF Wrote
  <2>3. n \in 1..Len(events') /\ n \notin 1..Len(events)
    BY <1>1, <1>2, <1>6
  <2>4. c.op = "start"
    BY <1>1, <1>2, <2>2, <2>3
  <2>5. n = Len(events) + 1
    <3>1. Len(events) \in Nat /\ Len(events') = Len(events) + 1
      BY <1>1, <2>1, <2>4
    <3> QED
      BY <2>3, <3>1
  <2> QED
    BY <2>1, <2>4, <2>5
<1> QED
  BY <1>2, <1>4, <1>5, <1>6

\* Rows of the stages k and j that the agent can still have open.
LEMMA WroteInOrder ==
    ASSUME StageInv, script # <<>>, NEW c, c = Head(script), Wrote(c)
    PROVE  /\ \A j, k \in 1..4 : \A m, n \in DOMAIN events' :
                 j < k /\ ShowsStage(m, j)' /\ ShowsStage(n, k)' => Ended(events'[m].status)
           /\ agent = "running" => \A k \in 1..4 : \A m \in DOMAIN events' : ShowsStage(m, k)' => k <= Rank(node)
<1>1. /\ c = script[1] /\ c \in SinkCalls /\ 1 \in DOMAIN script
      /\ DOMAIN script = 1..Len(script) /\ Len(script) \in Nat
      /\ DOMAIN events = 1..Len(events) /\ Len(events) \in Nat
  BY HeadOfScript DEF StageInv
<1>2. c.op \in {"start", "delta"} /\ c.item \in StageItems =>
         agent = "running" /\ c.item = Stages[Rank(node)] /\ Len(script) = 1
  <2> SUFFICES ASSUME c.op \in {"start", "delta"}, c.item \in StageItems
               PROVE  agent = "running" /\ c.item = Stages[Rank(node)] /\ Len(script) = 1
    OBVIOUS
  <2>1. agent \notin {"idle", "returned", "finalizing"}
    BY <1>1 DEF StageInv, Control
  <2>2. agent = "running"
    BY <2>1 DEF StageInv, Control
  <2> QED
    BY <1>1, <2>2 DEF StageInv, Control
<1>3. Rank(node) \in 1..4
  BY DEF StageInv, Control, Nodes, Rank, StageOf
<1>4. ASSUME NEW k \in 1..4, NEW m \in DOMAIN events', ShowsStage(m, k)'
      PROVE  \/ m \in DOMAIN events /\ ShowsStage(m, k)
             \/ /\ m = Len(events) + 1 /\ c.op = "start" /\ c.item = Stages[k]
                /\ agent = "running" /\ k = Rank(node) /\ Len(script) = 1
  <2>1. CASE m \in DOMAIN events
    BY <1>4, <2>1 DEF Wrote, ShowsStage
  <2>2. CASE m \notin DOMAIN events
    <3>1. m = Len(events) + 1 /\ c.op = "start" /\ c.item = Stages[k]
      BY <1>4, <2>2, WroteKeeps DEF ShowsStage
    <3> QED
      BY <1>2, <1>3, <3>1, StageFacts
  <2> QED
    BY <2>1, <2>2
<1>5. agent = "running" => \A k \in 1..4 : \A m \in DOMAIN events' : ShowsStage(m, k)' => k <= Rank(node)
  BY <1>3, <1>4 DEF StageInv, StagesSoFar
<1>6. ASSUME NEW j \in 1..4, NEW k \in 1..4, NEW m \in DOMAIN events', NEW n \in DOMAIN events',
             j < k, ShowsStage(m, j)', ShowsStage(n, k)'
      PROVE  Ended(events'[m].status)
  <2>1. m \in DOMAIN events /\ ShowsStage(m, j)
    <3>1. CASE c.op = "start" /\ agent = "running" /\ j = Rank(node)
      BY <1>5, <1>6, <3>1
    <3> QED
      BY <1>4, <1>6, <3>1
  <2>2. Ended(events[m].status)
    <3>1. CASE n \in DOMAIN events /\ ShowsStage(n, k)
      BY <1>6, <2>1, <3>1 DEF StageInv, StagesSoFar
    <3>2. CASE c.op = "start" /\ agent = "running" /\ k = Rank(node) /\ Len(script) = 1
      <4>1. j \in 1..(Rank(node) - 1) /\ ~Closes(Stages[j])
        BY <1>1, <1>6, <3>2 DEF Closes
      <4> QED
        BY <1>1, <2>1, <3>2, <4>1 DEF StageInv, StagesClosing
    <3> QED
      BY <1>4, <1>6, <3>1, <3>2
  <2>3. ~(c.op = "delta" /\ events[m].item = c.item)
    <3> SUFFICES ASSUME c.op = "delta", c.item = Stages[j] PROVE FALSE
      BY <2>1 DEF ShowsStage
    <3>1. agent = "running" /\ j = Rank(node)
      BY <1>2, <1>3, StageFacts
    <3> QED
      BY <1>5, <1>6, <3>1
  <2> QED
    BY <2>1, <2>2, <2>3, WroteKeeps
<1> QED
  BY <1>5, <1>6

Around == <<agent, orphaned, turn, node, at>>

\* A row is written: append_started, append_delta or append_completed up to the commit.
LEMMA WriteStep ==
    ASSUME StageInv, WriteRow, UNCHANGED Around
    PROVE  StageInv'
<1> DEFINE c == Head(script)
<1>1. /\ script # <<>> /\ ~wrote /\ wrote' = TRUE
      /\ UNCHANGED <<script, started, completed, agent, orphaned, turn, node, at>>
  BY DEF WriteRow, Around
<1>2. Wrote(c)
  BY <1>1, WrittenEffect DEF StageInv, WriteRow
<1>3. PICK d : d = c
  OBVIOUS
<1>4. Wrote(d) /\ d = Head(script) /\ d = Head(script)' /\ d \in SinkCalls
  BY <1>1, <1>2, <1>3, HeadOfScript DEF StageInv
<1>5. /\ DOMAIN events' = 1..Len(events') /\ Len(events') \in Nat
      /\ DOMAIN events = 1..Len(events) /\ Len(events) \in Nat
      /\ \A i \in completed : started[i] # 0 /\ Ended(events'[started[i]].status)
      /\ \A m \in DOMAIN events : Ended(events[m].status) =>
            Ended(events'[m].status) \/ (d.op = "delta" /\ events[m].item = d.item)
      /\ \A n \in DOMAIN events' : n \notin DOMAIN events =>
            n = Len(events) + 1 /\ d.op = "start" /\ events'[n].item = d.item
  BY <1>1, <1>4, WroteKeeps, HeadOfScript DEF StageInv
<1>6. FeedTypes'
  BY <1>1, <1>4 DEF StageInv, FeedTypes, Wrote
<1>7. RowsKnown'
  <2>1. ASSUME NEW i \in Items, started[i] # 0
        PROVE  started[i] \in DOMAIN events' /\ events'[started[i]].item = i
    BY <1>4, <2>1 DEF StageInv, RowsKnown, Wrote
  <2>2. ASSUME NEW m \in DOMAIN events'
        PROVE  \/ started[events'[m].item] = m
               \/ events'[m].item \in orphaned
               \/ d.op = "start" /\ events'[m].item = d.item /\ m = Len(events')
    <3>1. CASE m \in DOMAIN events
      <4>1. events'[m].item = events[m].item
        BY <1>4, <3>1 DEF Wrote
      <4>2. started[events[m].item] = m \/ events[m].item \in orphaned
        BY <1>1, <3>1 DEF StageInv, RowsKnown, Starting
      <4> QED
        BY <4>1, <4>2
    <3>2. CASE m \notin DOMAIN events
      <4>1. m = Len(events) + 1 /\ d.op = "start" /\ events'[m].item = d.item
        BY <1>5, <2>2, <3>2
      <4>2. Len(events') = Len(events) + 1
        BY <1>4, <4>1 DEF Wrote
      <4> QED
        BY <4>1, <4>2
    <3> QED
      BY <3>1, <3>2
  <2>3. ASSUME NEW i \in Items, Starting(i)'
        PROVE  Len(events') # 0 /\ events'[Len(events')].item = i
    <3>1. d.op = "start" /\ d.item = i
      BY <1>4, <2>3 DEF Starting
    <3>2. Len(events') = Len(events) + 1 /\ events'[Len(events) + 1].item = i
      BY <1>4, <3>1 DEF Wrote
    <3> QED
      BY <1>5, <3>2
  <2>4. \A i : Starting(i)' <=> d.op = "start" /\ d.item = i
    BY <1>1, <1>4 DEF Starting
  <2>5. \A i \in orphaned : started[i] = 0
    BY DEF StageInv, RowsKnown
  <2> QED
    BY <1>1, <2>1, <2>2, <2>3, <2>4, <2>5 DEF RowsKnown
<1>8. CompletedEnded'
  BY <1>1, <1>4, <1>5 DEF CompletedEnded, Wrote
<1>9. ScriptSound'
  BY <1>1 DEF StageInv, ScriptSound
<1>10. Control'
  BY <1>1 DEF StageInv, Control
<1>11. StagesSoFar'
  <2>1. agent = "idle" => \A m \in DOMAIN events' : events'[m].item \notin StageItems
    <3> SUFFICES ASSUME agent = "idle", NEW m \in DOMAIN events' PROVE events'[m].item \notin StageItems
      OBVIOUS
    <3>1. CASE m \in DOMAIN events
      BY <1>4, <3>1 DEF StageInv, StagesSoFar, Wrote
    <3>2. CASE m \notin DOMAIN events
      <4>1. events'[m].item = d.item /\ d = script[1] /\ 1 \in DOMAIN script
        BY <1>1, <1>4, <1>5, <3>2, HeadOfScript DEF StageInv
      <4> QED
        BY <4>1 DEF StageInv, Control
    <3> QED
      BY <3>1, <3>2
  <2>2. /\ \A j, k \in 1..4 : \A m, n \in DOMAIN events' :
                 j < k /\ ShowsStage(m, j)' /\ ShowsStage(n, k)' => Ended(events'[m].status)
        /\ agent = "running" => \A k \in 1..4 : \A m \in DOMAIN events' : ShowsStage(m, k)' => k <= Rank(node)
    BY <1>1, <1>4, WroteInOrder
  <2> QED
    BY <1>1, <2>1, <2>2 DEF StageInv, StagesSoFar
<1>12. StagesClosing'
  <2> DEFINE Done(m, j) == Ended(events[m].status) \/ Closes(Stages[j])
  <2>1. ASSUME NEW m \in DOMAIN events, NEW j \in 1..4, ShowsStage(m, j), d.op # "delta", Done(m, j)
        PROVE  Done(m, j)'
    BY <1>1, <1>5, <2>1 DEF Closes
  <2>2. ASSUME NEW m \in DOMAIN events', NEW j \in 1..4, ShowsStage(m, j)'
        PROVE  \/ m \in DOMAIN events /\ ShowsStage(m, j)
               \/ d.op = "start" /\ d.item = Stages[j]
    BY <1>4, <1>5, <2>2 DEF Wrote, ShowsStage
  <2>3. 1 \in DOMAIN script /\ d = script[1] /\ DOMAIN script = 1..Len(script) /\ Len(script) \in Nat
    BY <1>1, <1>4, HeadOfScript DEF StageInv
  <2>4. Rank(node) \in 1..4
    BY DEF StageInv, Control, Nodes, Rank, StageOf
  <2>5. ASSUME agent = "running", NEW p \in DOMAIN script, script[p].op = "start",
               NEW j \in 1..(Rank(node) - 1), NEW m \in DOMAIN events', ShowsStage(m, j)'
        PROVE  Done(m, j)'
    <3>1. d.op = "start" => d.item = Stages[Rank(node)]
      BY <2>3, <2>5 DEF StageInv, Control
    <3>2. j \in 1..4 /\ Stages[j] # Stages[Rank(node)]
      BY <2>4, StageFacts
    <3>3. m \in DOMAIN events /\ ShowsStage(m, j)
      BY <2>2, <2>5, <3>1, <3>2
    <3>4. Done(m, j)
      BY <2>5, <3>3 DEF StageInv, StagesClosing
    <3>5. d.op # "delta"
      BY <2>3, <2>5 DEF StageInv, Control
    <3> QED
      BY <2>1, <3>2, <3>3, <3>4, <3>5
  <2>6. ASSUME agent = "finalizing", NEW k \in 1..4, NEW m \in DOMAIN events',
               ShowsStage(m, k)', Stages[k] \notin orphaned
        PROVE  Done(m, k)'
    <3>1. d.op = "complete"
      BY <2>3, <2>6 DEF StageInv, Control
    <3>2. m \in DOMAIN events /\ ShowsStage(m, k)
      BY <2>2, <2>6, <3>1
    <3>3. Done(m, k)
      BY <2>6, <3>2 DEF StageInv, StagesClosing
    <3> QED
      BY <2>1, <3>1, <3>2, <3>3
  <2>7. ASSUME agent \in {"persisting", "returned"}, NEW k \in 1..4, NEW m \in DOMAIN events',
               ShowsStage(m, k)', Stages[k] \notin orphaned
        PROVE  Ended(events'[m].status)
    <3>1. agent = "returned" /\ d.item \notin StageItems /\ d.op # "delta"
      BY <1>1, <2>3, <2>7 DEF StageInv, Control
    <3>2. m \in DOMAIN events /\ ShowsStage(m, k)
      BY <2>2, <2>7, <3>1, StageFacts
    <3>3. Ended(events[m].status)
      BY <2>7, <3>2 DEF StageInv, StagesClosing
    <3> QED
      BY <1>5, <3>1, <3>2, <3>3
  <2> QED
    BY <1>1, <2>5, <2>6, <2>7 DEF StagesClosing
<1> QED
  BY <1>6, <1>7, <1>8, <1>9, <1>10, <1>11, <1>12 DEF StageInv

\* The call returns: the agent notes its item, whose row it wrote.
LEMMA NoteStep ==
    ASSUME StageInv, wrote, Noted(Head(script)), UNCHANGED Around
    PROVE  StageInv'
<1>1. PICK c : c = Head(script)
  OBVIOUS
<1>2. /\ c = script[1] /\ c \in SinkCalls /\ 1 \in DOMAIN script /\ script # <<>>
      /\ DOMAIN script = 1..Len(script) /\ Len(script) \in Nat /\ Len(script) >= 1
      /\ DOMAIN events = 1..Len(events) /\ Len(events) \in Nat
  BY <1>1, HeadOfScript DEF StageInv, FeedTypes
<1>3. /\ script' \in Seq(SinkCalls) /\ Len(script') = Len(script) - 1
      /\ DOMAIN script' = 1..(Len(script) - 1)
      /\ \A p \in 1..(Len(script) - 1) : script'[p] = script[p + 1]
  BY <1>2, HeadTailProperties DEF Noted, StageInv, FeedTypes
<1>4. /\ wrote' = FALSE
      /\ UNCHANGED <<events, agent, orphaned, turn, node, at>>
      /\ started' = IF c.op = "start" THEN [started EXCEPT ![c.item] = Len(events)] ELSE started
      /\ completed' = IF c.op = "complete" THEN completed \cup {c.item} ELSE completed
  BY <1>1 DEF Noted, Around
<1>5. c.item \in Items /\ started \in [Items -> Nat]
  BY <1>2 DEF SinkCalls, StageInv, FeedTypes
<1>6. c.op = "start" => /\ started[c.item] = 0 /\ c.item \notin orphaned
                        /\ Len(events) # 0 /\ events[Len(events)].item = c.item
  BY <1>1, <1>2, <1>5 DEF StageInv, ScriptSound, RowsKnown, Starting
<1>7. /\ started' \in [Items -> Nat]
      /\ \A i \in Items : started'[i] = IF c.op = "start" /\ i = c.item THEN Len(events) ELSE started[i]
  BY <1>2, <1>4, <1>5
<1>8. FeedTypes'
  BY <1>3, <1>4, <1>5, <1>7 DEF StageInv, FeedTypes
<1>9. RowsKnown'
  <2>1. \A i \in Items : started'[i] # 0 => started'[i] \in DOMAIN events /\ events[started'[i]].item = i
    BY <1>2, <1>6, <1>7 DEF StageInv, RowsKnown
  <2>2. ASSUME NEW m \in DOMAIN events
        PROVE  started'[events[m].item] = m \/ events[m].item \in orphaned
    <3>1. events[m].item \in Items
      <4>1. events \in Seq(EventRows) /\ m \in 1..Len(events)
        BY <1>2 DEF StageInv, FeedTypes
      <4>2. events[m] \in EventRows
        BY <4>1, ElementOfSeq
      <4> QED
        BY <4>2 DEF EventRows
    <3>2. CASE c.op = "start" /\ events[m].item = c.item
      <4>1. m = Len(events)
        BY <1>2, <1>6, <3>2 DEF StageInv, RowsKnown
      <4> QED
        BY <1>7, <3>1, <3>2, <4>1
    <3>3. CASE ~(c.op = "start" /\ events[m].item = c.item)
      <4>1. ~Starting(events[m].item)
        BY <1>1, <3>3 DEF Starting
      <4>2. started[events[m].item] = m \/ events[m].item \in orphaned
        BY <4>1 DEF StageInv, RowsKnown
      <4> QED
        BY <1>7, <3>1, <3>3, <4>2
    <3> QED
      BY <3>2, <3>3
  <2>3. \A i \in orphaned : started'[i] = 0
    <3>1. \A i \in orphaned : i \in Items /\ started[i] = 0
      BY StageFacts DEF StageInv, FeedTypes, RowsKnown
    <3> QED
      BY <1>6, <1>7, <3>1
  <2> QED
    BY <1>4, <2>1, <2>2, <2>3 DEF RowsKnown, Starting
<1>10. CompletedEnded'
  <2> SUFFICES ASSUME NEW i \in completed' PROVE started'[i] # 0 /\ Ended(events[started'[i]].status)
    BY <1>4 DEF CompletedEnded
  <2>1. CASE i \in completed
    <3>1. i \in Items /\ started[i] # 0 /\ Ended(events[started[i]].status)
      BY <2>1 DEF StageInv, FeedTypes, CompletedEnded
    <3>2. started'[i] = started[i]
      BY <1>6, <1>7, <3>1
    <3> QED
      BY <3>1, <3>2
  <2>2. CASE c.op = "complete" /\ i = c.item
    <3>1. Ended(events[started[i]].status)
      BY <1>1, <2>2 DEF StageInv, CompletedEnded
    <3>2. started[i] # 0
      BY <1>2, <2>2 DEF StageInv, ScriptSound
    <3> QED
      BY <1>5, <1>7, <2>2, <3>1, <3>2
  <2> QED
    BY <1>4, <2>1, <2>2
<1>11. ScriptSound'
  <2>1. \A p \in DOMAIN script' : p \in Nat /\ p # 0 /\ p + 1 \in DOMAIN script /\ script'[p] = script[p + 1]
    BY <1>2, <1>3
  <2>2. \A p \in DOMAIN script : script[p] \in SinkCalls
    BY DEF StageInv, FeedTypes
  <2>3. \A p, q \in DOMAIN script : script[p].op = "start" /\ script[q].op = "start" => p = q
    BY DEF StageInv, ScriptSound
  <2>4. \A p, q \in DOMAIN script' : script'[p].op = "start" /\ script'[q].op = "start" => p = q
    <3> SUFFICES ASSUME NEW p \in DOMAIN script', NEW q \in DOMAIN script',
                        script'[p].op = "start", script'[q].op = "start" PROVE p = q
      OBVIOUS
    <3>1. p + 1 = q + 1
      BY <2>1, <2>3
    <3> QED
      BY <2>1, <3>1
  <2>5. ASSUME NEW p \in DOMAIN script', NEW d, d = script'[p]
        PROVE  /\ d.op = "complete" <=> Ended(d.status)
               /\ d.op = "start" => started'[d.item] = 0 /\ d.item \notin orphaned
               /\ d.op # "start" =>
                     \/ started'[d.item] # 0
                     \/ \E q \in 1..(p - 1) : script'[q].op = "start" /\ script'[q].item = d.item
               /\ d.op = "delta" => d.item \notin completed' /\
                     \A q \in DOMAIN script' : script'[q].item = d.item => q = p
    <3>1. d = script[p + 1] /\ p + 1 \in DOMAIN script /\ p + 1 # 1 /\ d.item \in Items
      BY <2>1, <2>2, <2>5 DEF SinkCalls
    <3>2. d.op = "complete" <=> Ended(d.status)
      BY <3>1 DEF StageInv, ScriptSound
    <3>3. d.op = "start" => started'[d.item] = 0 /\ d.item \notin orphaned
      <4> SUFFICES ASSUME d.op = "start" PROVE started'[d.item] = 0 /\ d.item \notin orphaned
        OBVIOUS
      <4>1. started[d.item] = 0 /\ d.item \notin orphaned
        BY <3>1 DEF StageInv, ScriptSound
      <4>2. c.op # "start"
        BY <1>2, <2>3, <3>1
      <4> QED
        BY <1>7, <3>1, <4>1, <4>2
    <3>4. ASSUME d.op # "start"
          PROVE  \/ started'[d.item] # 0
                 \/ \E q \in 1..(p - 1) : script'[q].op = "start" /\ script'[q].item = d.item
      <4>1. CASE started[d.item] # 0
        BY <1>6, <1>7, <3>1, <4>1
      <4>2. CASE started[d.item] = 0
        <5>1. PICK q \in 1..p : script[q].op = "start" /\ script[q].item = d.item
          <6>1. \E q \in 1..((p + 1) - 1) : script[q].op = "start" /\ script[q].item = d.item
            BY <3>1, <3>4, <4>2 DEF StageInv, ScriptSound
          <6>2. p \in Nat /\ (p + 1) - 1 = p
            BY <2>1
          <6> QED
            BY <6>1, <6>2
        <5>2. CASE q = 1
          BY <1>2, <1>6, <1>7, <3>1, <5>1, <5>2
        <5>3. CASE q # 1
          <6>1. p \in 1..(Len(script) - 1) /\ q - 1 \in 1..(p - 1) /\ q - 1 \in 1..(Len(script) - 1)
            BY <1>2, <1>3, <5>3
          <6>2. script'[q - 1] = script[q]
            BY <1>2, <1>3, <6>1
          <6> QED
            BY <5>1, <6>1, <6>2
        <5> QED
          BY <5>2, <5>3
      <4> QED
        BY <4>1, <4>2
    <3>5. ASSUME d.op = "delta"
          PROVE  /\ d.item \notin completed'
                 /\ \A q \in DOMAIN script' : script'[q].item = d.item => q = p
      <4>1. d.item \notin completed /\ \A q \in DOMAIN script : script[q].item = d.item => q = p + 1
        BY <3>1, <3>5 DEF StageInv, ScriptSound
      <4>2. c.item # d.item
        BY <1>2, <3>1, <4>1
      <4>3. ASSUME NEW q \in DOMAIN script', script'[q].item = d.item PROVE q = p
        <5>1. q + 1 = p + 1
          BY <2>1, <4>1, <4>3
        <5> QED
          BY <2>1, <5>1
      <4> QED
        BY <1>4, <4>1, <4>2, <4>3
    <3> QED
      BY <3>2, <3>3, <3>4, <3>5
  <2> QED
    BY <1>4, <2>4, <2>5 DEF ScriptSound
<1>12. Control'
  <2>1. \A p \in DOMAIN script' : p + 1 \in DOMAIN script /\ script'[p] = script[p + 1]
    BY <1>2, <1>3
  <2>2. agent \in {"idle", "returned"} =>
          \A p \in DOMAIN script' : script'[p].item \notin StageItems /\ script'[p].op # "delta"
    BY <2>1 DEF StageInv, Control
  <2>3. agent = "finalizing" => \A p \in DOMAIN script' : script'[p].op = "complete"
    BY <2>1 DEF StageInv, Control
  <2>4. ASSUME agent = "running", NEW p \in DOMAIN script', NEW d, d = script'[p]
        PROVE  /\ d.op \in {"start", "delta"} => p = Len(script') /\ d.item = Stages[Rank(node)]
               /\ d.op = "complete" => \E j \in 1..(Rank(node) - 1) : d.item = Stages[j]
               /\ d.op # "text"
    <3>1. d = script[p + 1] /\ p + 1 \in DOMAIN script
      BY <2>1, <2>4
    <3>2. p + 1 = Len(script) => p = Len(script')
      BY <1>2, <1>3, <2>4
    <3> QED
      BY <2>4, <3>1, <3>2 DEF StageInv, Control
  <2>5. script # <<>> => (agent = "running" /\ at = "body") \/ agent = "finalizing" \/ turn = "running"
    BY DEF StageInv, Control
  <2>6. /\ agent' = agent /\ turn' = turn /\ node' = node /\ at' = at /\ orphaned' = orphaned
        /\ agent \in {"idle", "running", "finalizing", "persisting", "returned"}
        /\ turn \in {"none", "running", "ended"} /\ node \in Nodes
        /\ agent = "idle" => node = "clarifier_step"
        /\ turn # "none" => agent \in {"idle", "returned"}
        /\ agent \in {"idle", "running"} => orphaned = {}
    BY <1>4 DEF StageInv, Control
  <2> QED
    BY <1>2, <2>2, <2>3, <2>4, <2>5, <2>6 DEF Control
<1>13. StagesSoFar'
  <2>1. agent = "running" => \A k \in 1..4 : Stages[k] \in completed' => k < Rank(node)
    <3> SUFFICES ASSUME agent = "running", NEW k \in 1..4, Stages[k] = c.item, c.op = "complete"
                 PROVE  k < Rank(node)
      BY <1>4 DEF StageInv, StagesSoFar
    <3>1. PICK j \in 1..(Rank(node) - 1) : c.item = Stages[j]
      BY <1>2 DEF StageInv, Control
    <3>2. Rank(node) \in 1..4
      BY DEF StageInv, Control, Nodes, Rank, StageOf
    <3>3. j = k
      BY <3>1, <3>2, StageFacts
    <3> QED
      BY <3>1, <3>2, <3>3
  <2> QED
    BY <1>4, <2>1 DEF StageInv, StagesSoFar, ShowsStage
<1>14. StagesClosing'
  <2>1. ASSUME NEW k \in 1..4, NEW m \in DOMAIN events, ShowsStage(m, k), Stages[k] \notin orphaned,
               Ended(events[m].status) \/ Closes(Stages[k])
        PROVE  Ended(events[m].status) \/ Closes(Stages[k])'
    <3>1. CASE Ended(events[m].status)
      BY <3>1
    <3>2. CASE ~Ended(events[m].status)
      <4>1. PICK p \in DOMAIN script : script[p].op = "complete" /\ script[p].item = Stages[k]
        BY <2>1, <3>2 DEF Closes
      <4>2. CASE p = 1
        <5>1. started[Stages[k]] = m
          BY <1>1, <1>2, <2>1, <4>1, <4>2 DEF StageInv, RowsKnown, ShowsStage, Starting
        <5>2. Ended(events[m].status)
          BY <1>1, <1>2, <4>1, <4>2, <5>1 DEF StageInv, CompletedEnded
        <5> QED
          BY <5>2
      <4>3. CASE p # 1
        <5>1. p - 1 \in 1..(Len(script) - 1) /\ (p - 1) + 1 = p
          BY <1>2, <4>1, <4>3
        <5>2. p - 1 \in DOMAIN script' /\ script'[p - 1] = script[p]
          BY <1>3, <5>1
        <5> QED
          BY <4>1, <5>2 DEF Closes
      <4> QED
        BY <4>2, <4>3
    <3> QED
      BY <3>1, <3>2
  <2>2. \A p \in DOMAIN script' : p + 1 \in DOMAIN script /\ script'[p] = script[p + 1]
    BY <1>2, <1>3
  <2>3. ASSUME agent = "running", NEW p \in DOMAIN script', script'[p].op = "start",
               NEW j \in 1..(Rank(node) - 1), NEW m \in DOMAIN events, ShowsStage(m, j)
        PROVE  Ended(events[m].status) \/ Closes(Stages[j])'
    <3>1. Ended(events[m].status) \/ Closes(Stages[j])
      BY <2>2, <2>3 DEF StageInv, StagesClosing
    <3>2. j \in 1..4
      BY DEF StageInv, Control, Nodes, Rank, StageOf
    <3>3. Stages[j] \notin orphaned
      BY <2>3 DEF StageInv, Control
    <3> QED
      BY <2>1, <2>3, <3>1, <3>2, <3>3
  <2>4. ASSUME agent = "finalizing", NEW k \in 1..4, NEW m \in DOMAIN events,
               ShowsStage(m, k), Stages[k] \notin orphaned
        PROVE  Ended(events[m].status) \/ Closes(Stages[k])'
    BY <2>1, <2>4 DEF StageInv, StagesClosing
  <2>5. \A m, k : ShowsStage(m, k)' <=> ShowsStage(m, k)
    BY <1>4 DEF ShowsStage
  <2> QED
    BY <1>4, <2>3, <2>4, <2>5 DEF StageInv, StagesClosing
<1> QED
  BY <1>8, <1>9, <1>10, <1>11, <1>12, <1>13, <1>14 DEF StageInv

-----------------------------------------------------------------------------
(* The page, the graph and the agent around them.                          *)

\* A step of the page.
LEMMA FeedRests ==
    ASSUME StageInv, UNCHANGED <<sinkVars, Around>> PROVE StageInv'
<1>1. UNCHANGED <<events, script, wrote, started, completed, agent, orphaned, turn, node, at>>
  BY DEF sinkVars, Around
<1> QED
  BY <1>1 DEF StageInv, FeedTypes, RowsKnown, Starting, CompletedEnded, ScriptSound, Control,
              StagesSoFar, StagesClosing, ShowsStage, Closes

\* The agent goes on, or the turn, with no call to make.
LEMMA Between ==
    ASSUME StageInv, script = <<>>, UNCHANGED <<sinkVars, orphaned, node>>,
           agent' \in {"idle", "running", "finalizing", "persisting", "returned"},
           turn' \in {"none", "running", "ended"},
           turn' # "none" => agent' \in {"idle", "returned"},
           \/ agent' = agent
           \/ agent = "finalizing" /\ agent' \in {"persisting", "returned"}
           \/ agent = "persisting" /\ agent' = "returned"
    PROVE  StageInv'
<1>1. UNCHANGED <<events, script, wrote, started, completed, orphaned, node>>
  BY DEF sinkVars
<1>2. FeedTypes' /\ RowsKnown' /\ CompletedEnded' /\ ScriptSound'
  BY <1>1 DEF StageInv, FeedTypes, RowsKnown, Starting, CompletedEnded, ScriptSound
<1>3. DOMAIN script = {}
  OBVIOUS
<1>4. Control'
  BY <1>1, <1>3 DEF StageInv, Control
<1>5. StagesSoFar'
  BY <1>1, <1>3 DEF StageInv, StagesSoFar, ShowsStage
<1>6. StagesClosing'
  BY <1>1, <1>3 DEF StageInv, StagesClosing, ShowsStage, Closes
<1> QED
  BY <1>2, <1>4, <1>5, <1>6 DEF StageInv

\* The graph comes to a node of its stage or of a later one, or stays.
LEMMA GraphAdvances ==
    ASSUME node \in Nodes, StartGraph \/ RunNode \/ ModelRaises \/ Resume,
           StartGraph => node = "clarifier_step"
    PROVE  node' \in Nodes /\ Rank(node) <= Rank(node')
<1> USE DEF Nodes, Rank, StageOf
<1>1. CASE StartGraph
  BY <1>1 DEF StartGraph, GoTo
<1>2. CASE Clarify
  <2>1. node = "clarifier_step" /\ Rank(node) = 1
    BY <1>2 DEF Clarify, AskOrLoop, EmitsIntent, EmitsNothing, ConversationRefused, Replied, Body
  <2>2. node' \in {"clarifier_step", "clarifier_ask", "palette_step", "review_step"}
    <3>1. ASSUME NEW r \in Replies, NEW extra \in {0, 1}, AskOrLoop(r, extra)
          PROVE  node' \in {"clarifier_step", "clarifier_ask", "palette_step"}
      <4>1. GoTo(CASE r = "ask" -> "clarifier_ask" [] r = "palette" -> "palette_step"
                   [] OTHER -> "clarifier_step")
        BY <3>1 DEF AskOrLoop
      <4> QED
        BY <4>1 DEF GoTo
    <3>2. ASSUME NEW r \in Replies, NEW extra \in {0, 1}, EmitsIntent(r, extra)
          PROVE  node' = "review_step"
      BY <3>2 DEF EmitsIntent, GoTo
    <3>3. ASSUME NEW extra \in {0, 1}, EmitsNothing(extra) PROVE node' = "clarifier_step"
      BY <2>1, <3>3 DEF EmitsNothing, GoTo, Raise
    <3>4. CASE ConversationRefused
      BY <2>1, <3>4 DEF ConversationRefused, Raise
    <3> QED
      BY <1>2, <3>1, <3>2, <3>3, <3>4 DEF Clarify
  <2> QED
    BY <2>1, <2>2
<1>3. CASE Suspend \/ ModelRaises \/ Resume \/ MoodBoard
  BY <1>3 DEF Suspend, ModelRaises, Raise, Resume, MoodBoard
<1>4. CASE TakeAnswers
  BY <1>4 DEF TakeAnswers, Body, GoTo
<1>5. CASE Palette
  BY <1>5 DEF Palette, Body, GoTo
<1>6. CASE ReviewPasses \/ ReviewRejects
  <2>1. node = "review_step" /\ node' \in {"pinterest_search", "clarifier_step"}
    BY <1>6 DEF ReviewPasses, ReviewRejects, Body, GoTo
  <2> QED
    BY <2>1
<1>7. CASE Search
  BY <1>7 DEF Search, Body, GoTo
<1>8. CASE Score
  BY <1>8 DEF Score, Body, GoTo
<1>9. CASE Compile
  BY <1>9 DEF Compile, Body, GoTo
<1> QED
  BY <1>1, <1>2, <1>3, <1>4, <1>5, <1>6, <1>7, <1>8, <1>9 DEF RunNode

\* The graph goes on and the agent has no call to make.
LEMMA GraphStep ==
    ASSUME StageInv, script = <<>>, UNCHANGED <<sinkVars, orphaned, turn>>,
           agent' = "running", agent \in {"idle", "running"}, agent = "idle" => turn = "none",
           node' \in Nodes, Rank(node) <= Rank(node')
    PROVE  StageInv'
<1>1. UNCHANGED <<events, script, wrote, started, completed, orphaned, turn>>
  BY DEF sinkVars
<1>2. FeedTypes' /\ RowsKnown' /\ CompletedEnded' /\ ScriptSound'
  BY <1>1 DEF StageInv, FeedTypes, RowsKnown, Starting, CompletedEnded, ScriptSound
<1>3. DOMAIN script = {}
  OBVIOUS
<1>4. Control'
  BY <1>1, <1>3 DEF StageInv, Control
<1>5. Rank(node) \in 1..4 /\ Rank(node') \in 1..4
  BY DEF StageInv, Control, Nodes, Rank, StageOf
<1>6. agent = "idle" => \A k \in 1..4 : Stages[k] \notin completed /\ \A m \in DOMAIN events : ~ShowsStage(m, k)
  <2> SUFFICES ASSUME agent = "idle", NEW k \in 1..4
               PROVE  Stages[k] \notin completed /\ \A m \in DOMAIN events : ~ShowsStage(m, k)
    OBVIOUS
  <2>1. \A m \in DOMAIN events : events[m].item # Stages[k]
    BY StageFacts DEF StageInv, StagesSoFar
  <2>2. ASSUME Stages[k] \in completed PROVE FALSE
    <3>1. started[Stages[k]] # 0
      BY <2>2 DEF StageInv, CompletedEnded
    <3> QED
      BY <2>1, <3>1, StageFacts DEF StageInv, RowsKnown
  <2> QED
    BY <2>1, <2>2 DEF ShowsStage
<1>7. StagesSoFar'
  <2>1. \A k \in 1..4 : \A m \in DOMAIN events : ShowsStage(m, k) => k <= Rank(node')
    BY <1>5, <1>6 DEF StageInv, StagesSoFar
  <2>2. \A k \in 1..4 : Stages[k] \in completed => k < Rank(node')
    BY <1>5, <1>6 DEF StageInv, StagesSoFar
  <2>3. Rank(node') = Rank(node)'
    BY DEF Rank, StageOf
  <2> QED
    BY <1>1, <2>1, <2>2, <2>3 DEF StageInv, StagesSoFar, ShowsStage
<1>8. StagesClosing'
  BY <1>1, <1>3 DEF StageInv, StagesClosing
<1> QED
  BY <1>2, <1>4, <1>7, <1>8 DEF StageInv

\* A row that has not ended is known by an item that is open.
LEMMA OpenRow ==
    ASSUME StageInv, NEW k \in 1..4, NEW m \in DOMAIN events, ShowsStage(m, k),
           ~Ended(events[m].status), Stages[k] \notin orphaned, ~Starting(Stages[k])
    PROVE  IsOpen(Stages[k])
<1>1. started[Stages[k]] = m
  BY DEF StageInv, RowsKnown, ShowsStage
<1>2. m # 0
  BY DEF StageInv, FeedTypes
<1>3. Stages[k] \notin completed
  BY <1>1 DEF StageInv, CompletedEnded
<1> QED
  BY <1>1, <1>2, <1>3 DEF IsOpen

\* The callback of a node: what is open of earlier stages is closed first.
LEMMA EnterNodeStep ==
    ASSUME StageInv, EnterNode, UNCHANGED turn PROVE StageInv'
<1> DEFINE k == StageOf(node)
<1>1. /\ agent = "running" /\ UNCHANGED <<events, wrote, started, completed, agent, orphaned, node, turn>>
      /\ at = "enter" /\ at' = "body" /\ script' = OnChainStart(node)
  BY DEF EnterNode, agentVars
<1>2. turn = "none" /\ script = <<>> /\ orphaned = {} /\ node \in Nodes /\ ~wrote
  BY <1>1 DEF StageInv, Control, FeedTypes
<1>3. CASE k = 0
  <2>1. script' = script
    BY <1>1, <1>2, <1>3 DEF OnChainStart
  <2> QED
    BY <1>1, <1>2, <2>1, Between DEF sinkVars
<1>4. CASE k # 0
  <2>1. k \in 1..4 /\ Rank(node) = k /\ Closers(ClosedByNext(node), 1..(k - 1))
    BY <1>2, <1>4, ClosedByNextEffect
  <2>2. PICK a : a = ClosedByNext(node)
    OBVIOUS
  <2>3. PICK b : b = Opened(node)
    OBVIOUS
  <2>4. Closers(a, 1..(k - 1)) /\ script' = a \o b
    BY <1>1, <1>4, <2>1, <2>2, <2>3 DEF OnChainStart
  <2>5. a \in Seq(SinkCalls) /\ Len(a) \in Nat /\ DOMAIN a = 1..Len(a)
    BY <2>4 DEF Closers
  <2>6. /\ b \in Seq(SinkCalls) /\ Len(b) \in {0, 1} /\ DOMAIN b = 1..Len(b)
        /\ \A p \in DOMAIN b : /\ p = 1 /\ b[p].item = Stages[k] /\ b[p].status = "started"
                               /\ b[p].op \in {"start", "delta"}
                               /\ b[p].op = "start" <=> started[Stages[k]] = 0
    <3>1. Stages[k] \in Items
      BY <2>1, StageFacts
    <3>2. \A p \in {Nothing, "searching"} : Start(Stages[k], p) \in SinkCalls /\ Delta(Stages[k], "scoring") \in SinkCalls
      BY <3>1 DEF Start, Delta, Call, SinkCalls, Statuses, Payloads
    <3>3. ASSUME NEW c \in SinkCalls PROVE <<c>> \in Seq(SinkCalls) /\ Len(<<c>>) = 1 /\ DOMAIN <<c>> = 1..1 /\ <<c>>[1] = c
      BY <3>3
    <3>4. CASE started[Stages[k]] = 0
      <4>1. PICK p \in {Nothing, "searching"} : b = <<Start(Stages[k], p)>>
        BY <2>3, <3>4 DEF Opened
      <4>2. Start(Stages[k], p).op = "start" /\ Start(Stages[k], p).item = Stages[k] /\ Start(Stages[k], p).status = "started"
        BY DEF Start, Call
      <4>3. Start(Stages[k], p) \in SinkCalls
        BY <3>2
      <4> QED
        BY <3>3, <3>4, <4>1, <4>2, <4>3
    <3>5. CASE started[Stages[k]] # 0 /\ node = "pinterest_score"
      <4>1. b = <<Delta(Stages[k], "scoring")>>
        BY <2>3, <3>5 DEF Opened
      <4>2. Delta(Stages[k], "scoring").op = "delta" /\ Delta(Stages[k], "scoring").item = Stages[k]
            /\ Delta(Stages[k], "scoring").status = "started"
        BY DEF Delta, Call
      <4>3. Delta(Stages[k], "scoring") \in SinkCalls
        BY <3>2
      <4> QED
        BY <3>3, <3>5, <4>1, <4>2, <4>3
    <3>6. CASE started[Stages[k]] # 0 /\ node # "pinterest_score"
      BY <2>3, <3>6 DEF Opened
    <3> QED
      BY <3>4, <3>5, <3>6
  <2>7. /\ script' \in Seq(SinkCalls) /\ Len(script') = Len(a) + Len(b)
        /\ DOMAIN script' = 1..(Len(a) + Len(b))
        /\ \A p \in 1..(Len(a) + Len(b)) : script'[p] = IF p <= Len(a) THEN a[p] ELSE b[p - Len(a)]
    BY <2>4, <2>5, <2>6, ConcatProperties
  <2>8. \A p \in DOMAIN script' : \/ p \in DOMAIN a /\ script'[p] = a[p]
                                  \/ 1 \in DOMAIN b /\ p = Len(script') /\ script'[p] = b[1]
    BY <2>5, <2>6, <2>7
  <2>9. \A p \in DOMAIN a : p \in DOMAIN script' /\ script'[p] = a[p]
    BY <2>5, <2>6, <2>7
  <2>10. \A p \in DOMAIN a : /\ a[p].op = "complete" /\ Ended(a[p].status)
                             /\ a[p].item # Stages[k] /\ started[a[p].item] # 0
                             /\ \E j \in 1..(k - 1) : a[p].item = Stages[j]
    <3> SUFFICES ASSUME NEW p \in DOMAIN a
                 PROVE  /\ a[p].op = "complete" /\ Ended(a[p].status)
                        /\ a[p].item # Stages[k] /\ started[a[p].item] # 0
                        /\ \E j \in 1..(k - 1) : a[p].item = Stages[j]
      OBVIOUS
    <3>1. a[p].op = "complete" /\ Ended(a[p].status)
      BY <2>4 DEF Closers
    <3>2. PICK j \in 1..(k - 1) : a[p].item = Stages[j] /\ IsOpen(Stages[j])
      BY <2>4 DEF Closers
    <3>3. Stages[j] # Stages[k]
      <4>1. j \in 1..4 /\ j # k
        BY <2>1
      <4> QED
        BY <2>1, <4>1, StageFacts
    <3> QED
      BY <3>1, <3>2, <3>3 DEF IsOpen
  <2>11. FeedTypes'
    BY <1>1, <1>2, <2>7 DEF StageInv, FeedTypes
  <2>12. RowsKnown' /\ CompletedEnded'
    BY <1>1, <1>2 DEF StageInv, RowsKnown, CompletedEnded, Starting
  <2>13. ScriptSound'
    <3>1. \A p, q \in DOMAIN script' : script'[p].op = "start" /\ script'[q].op = "start" => p = q
      BY <2>8, <2>10
    <3>2. ASSUME NEW p \in DOMAIN script', NEW d, d = script'[p]
          PROVE  /\ d.op = "complete" <=> Ended(d.status)
                 /\ d.op = "start" => started[d.item] = 0
                 /\ d.op # "start" => started[d.item] # 0
                 /\ d.op = "delta" => d.item \notin completed /\
                       \A q \in DOMAIN script' : script'[q].item = d.item => q = p
      <4>1. CASE p \in DOMAIN a /\ d = a[p]
        BY <2>10, <4>1
      <4>2. CASE 1 \in DOMAIN b /\ p = Len(script') /\ d = b[1]
        <5>1. ~Ended(d.status) /\ d.op \in {"start", "delta"} /\ d.item = Stages[k]
              /\ (d.op = "start" <=> started[Stages[k]] = 0)
          BY <2>6, <4>2 DEF Ended
        <5>2. Stages[k] \notin completed
          BY <1>1, <2>1 DEF StageInv, StagesSoFar
        <5>3. \A q \in DOMAIN script' : script'[q].item = d.item => q = p
          BY <2>8, <2>10, <4>2, <5>1
        <5> QED
          BY <5>1, <5>2, <5>3
      <4> QED
        BY <2>8, <3>2, <4>1, <4>2
    <3> QED
      BY <1>1, <1>2, <3>1, <3>2 DEF ScriptSound
  <2>14. Control'
    <3>1. ASSUME NEW p \in DOMAIN script', NEW d, d = script'[p]
          PROVE  /\ d.op \in {"start", "delta"} => p = Len(script') /\ d.item = Stages[k]
                 /\ d.op = "complete" => \E j \in 1..(k - 1) : d.item = Stages[j]
                 /\ d.op # "text"
      <4>1. CASE p \in DOMAIN a /\ d = a[p]
        BY <2>10, <4>1
      <4>2. CASE 1 \in DOMAIN b /\ p = Len(script') /\ d = b[1]
        BY <2>6, <4>2
      <4> QED
        BY <2>8, <3>1, <4>1, <4>2
    <3> QED
      BY <1>1, <1>2, <2>1, <3>1 DEF StageInv, Control
  <2>15. StagesSoFar'
    BY <1>1 DEF StageInv, StagesSoFar, ShowsStage
  <2>16. StagesClosing'
    <3>1. ASSUME NEW j \in 1..(k - 1), NEW m \in DOMAIN events, ShowsStage(m, j), ~Ended(events[m].status)
          PROVE  Closes(Stages[j])'
      <4>1. j \in 1..4 /\ IsOpen(Stages[j])
        BY <1>2, <2>1, <3>1, OpenRow DEF Starting
      <4>2. PICK p \in DOMAIN a : a[p].item = Stages[j]
        BY <2>4, <4>1 DEF Closers
      <4>3. p \in DOMAIN script' /\ script'[p].item = Stages[j] /\ script'[p].op = "complete"
        BY <2>9, <2>10, <4>2
      <4> QED
        BY <4>3 DEF Closes
    <3> QED
      BY <1>1, <2>1, <3>1 DEF StagesClosing, ShowsStage
  <2> QED
    BY <2>11, <2>12, <2>13, <2>14, <2>15, <2>16 DEF StageInv
<1> QED
  BY <1>3, <1>4

\* The graph is over, and what is open of the stages is closed.
LEMMA FinalStep ==
    ASSUME StageInv, Closers(script', 1..4),
           agent' = "finalizing", turn' = "none", node' \in Nodes, wrote' = FALSE,
           UNCHANGED <<started, completed>>,
           events' \in Seq(EventRows), orphaned' \subseteq StageItems,
           \A i \in Items : started[i] # 0 => started[i] \in DOMAIN events' /\ events'[started[i]].item = i,
           \A m \in DOMAIN events' : started[events'[m].item] = m \/ events'[m].item \in orphaned',
           \A i \in orphaned' : started[i] = 0,
           \A i \in completed : started[i] # 0 /\ Ended(events'[started[i]].status),
           \A j, k \in 1..4 : \A m, n \in DOMAIN events' :
              j < k /\ ShowsStage(m, j)' /\ ShowsStage(n, k)' => Ended(events'[m].status)
    PROVE  StageInv'
<1>1. script' \in Seq(SinkCalls) /\ DOMAIN script' = 1..Len(script')
  BY DEF Closers
<1>2. \A p \in DOMAIN script' : /\ script'[p].op = "complete" /\ Ended(script'[p].status)
                                /\ started[script'[p].item] # 0
  BY DEF Closers, IsOpen
<1>3. FeedTypes'
  BY <1>1 DEF StageInv, FeedTypes
<1>4. RowsKnown' /\ CompletedEnded'
  BY DEF RowsKnown, Starting, CompletedEnded
<1>5. ScriptSound'
  BY <1>2 DEF ScriptSound
<1>6. Control'
  BY <1>2 DEF Control
<1>7. StagesSoFar'
  BY DEF StagesSoFar
<1>8. StagesClosing'
  <2> SUFFICES ASSUME NEW k \in 1..4, NEW m \in DOMAIN events', ShowsStage(m, k)', Stages[k] \notin orphaned',
                      ~Ended(events'[m].status)
               PROVE  Closes(Stages[k])'
    BY DEF StagesClosing
  <2>1. events'[m].item = Stages[k] /\ started[Stages[k]] = m
    BY DEF ShowsStage
  <2>2. m # 0
    <3>1. DOMAIN events' = 1..Len(events')
      OBVIOUS
    <3> QED
      BY <3>1
  <2>3. Stages[k] \notin completed
    BY <2>1
  <2>4. PICK p \in DOMAIN script' : script'[p].item = Stages[k]
    BY <2>1, <2>2, <2>3 DEF Closers, IsOpen
  <2> QED
    BY <1>2, <2>4 DEF Closes
<1> QED
  BY <1>3, <1>4, <1>5, <1>6, <1>7, <1>8 DEF StageInv

\* The interrupt cuts the call being made, and finalize_all closes what is noted open.
LEMMA InterruptStep ==
    ASSUME StageInv, Interrupt, turn = "none", UNCHANGED turn PROVE StageInv'
<1>1. /\ agent = "running" /\ CallCut /\ wrote' = FALSE /\ agent' = "finalizing"
      /\ script' = Finalizing("failed", Nothing) /\ node' \in Nodes
      /\ UNCHANGED <<started, completed>>
  BY DEF Interrupt, FinalizeAll, GraphGone, Nodes
<1>2. Closers(script', 1..4)
  BY <1>1, FinalizingEffect
<1>3. orphaned = {}
  BY <1>1 DEF StageInv, Control
<1>4. CASE UNCHANGED <<events, orphaned>> /\ (script = <<>> \/ ~wrote)
  <2>1. ~wrote
    BY <1>4 DEF StageInv, FeedTypes
  <2>2. \A m \in DOMAIN events : started[events[m].item] = m \/ events[m].item \in orphaned
    BY <2>1 DEF StageInv, RowsKnown, Starting
  <2>3. \A i \in completed : started[i] # 0 /\ Ended(events[started[i]].status)
    BY DEF StageInv, CompletedEnded
  <2>4. \A j, k \in 1..4 : \A m, n \in DOMAIN events :
              j < k /\ ShowsStage(m, j) /\ ShowsStage(n, k) => Ended(events[m].status)
    BY DEF StageInv, StagesSoFar
  <2>5. events \in Seq(EventRows) /\ orphaned \subseteq StageItems
    BY DEF StageInv, FeedTypes
  <2>6. /\ \A i \in Items : started[i] # 0 => started[i] \in DOMAIN events /\ events[started[i]].item = i
        /\ \A i \in orphaned : started[i] = 0
    BY DEF StageInv, RowsKnown
  <2>7. \A m, k : ShowsStage(m, k)' <=> ShowsStage(m, k)
    BY <1>4 DEF ShowsStage
  <2> QED
    BY <1>1, <1>2, <1>4, <2>2, <2>3, <2>4, <2>5, <2>6, <2>7, FinalStep
<1>5. CASE /\ script # <<>>
           /\ IF wrote THEN UNCHANGED events ELSE events' = Written(Head(script))
           /\ orphaned' = IF Head(script).op = "start" THEN orphaned \cup {Head(script).item} ELSE orphaned
  <2>1. PICK c : c = Head(script)
    OBVIOUS
  <2>2. /\ c = script[1] /\ 1 \in DOMAIN script /\ c \in SinkCalls
        /\ DOMAIN script = 1..Len(script) /\ Len(script) \in Nat
        /\ DOMAIN events = 1..Len(events) /\ Len(events) \in Nat
    BY <1>5, <2>1, HeadOfScript DEF StageInv
  <2>3. c.op = "start" => c.item \in StageItems /\ started[c.item] = 0
    <3>1. Rank(node) \in 1..4
      BY DEF StageInv, Control, Nodes, Rank, StageOf
    <3> QED
      BY <1>1, <2>2, <3>1, StageFacts DEF StageInv, Control, ScriptSound
  <2>4. orphaned' = IF c.op = "start" THEN {c.item} ELSE {}
    BY <1>3, <1>5, <2>1
  <2>5. orphaned' \subseteq StageItems /\ \A i \in orphaned' : started[i] = 0
    BY <2>3, <2>4
  <2>6. ASSUME events' \in Seq(EventRows),
               \A i \in Items : started[i] # 0 => started[i] \in DOMAIN events' /\ events'[started[i]].item = i,
               \A m \in DOMAIN events' : \/ started[events'[m].item] = m
                                         \/ c.op = "start" /\ events'[m].item = c.item,
               \A i \in completed : started[i] # 0 /\ Ended(events'[started[i]].status),
               \A j, k \in 1..4 : \A m, n \in DOMAIN events' :
                  j < k /\ ShowsStage(m, j)' /\ ShowsStage(n, k)' => Ended(events'[m].status)
        PROVE  StageInv'
    <3>1. \A m \in DOMAIN events' : started[events'[m].item] = m \/ events'[m].item \in orphaned'
      BY <2>4, <2>6
    <3> QED
      BY <1>1, <1>2, <2>5, <2>6, <3>1, FinalStep
  <2>7. \A i \in Items : started[i] # 0 => started[i] \in DOMAIN events /\ events[started[i]].item = i
    BY DEF StageInv, RowsKnown
  <2>8. \A m \in DOMAIN events : \/ started[events[m].item] = m
                                 \/ c.op = "start" /\ events[m].item = c.item
    BY <1>3, <2>1 DEF StageInv, RowsKnown, Starting
  <2>9. CASE wrote
    <3>1. events' = events
      BY <1>5, <2>9
    <3>2. \A i \in completed : started[i] # 0 /\ Ended(events[started[i]].status)
      BY DEF StageInv, CompletedEnded
    <3>3. \A j, k \in 1..4 : \A m, n \in DOMAIN events :
              j < k /\ ShowsStage(m, j) /\ ShowsStage(n, k) => Ended(events[m].status)
      BY DEF StageInv, StagesSoFar
    <3>4. events \in Seq(EventRows)
      BY DEF StageInv, FeedTypes
    <3>5. \A m, k : ShowsStage(m, k)' <=> ShowsStage(m, k)
      BY <3>1 DEF ShowsStage
    <3> QED
      BY <2>6, <2>7, <2>8, <3>1, <3>2, <3>3, <3>4, <3>5
  <2>10. CASE ~wrote
    <3>1. Wrote(c)
      BY <1>5, <2>1, <2>10, WrittenEffect DEF StageInv
    <3>2. /\ \A i \in completed : started[i] # 0 /\ Ended(events'[started[i]].status)
          /\ \A n \in DOMAIN events' : n \notin DOMAIN events => c.op = "start" /\ events'[n].item = c.item
      BY <1>5, <2>1, <3>1, WroteKeeps
    <3>3. \A j, k \in 1..4 : \A m, n \in DOMAIN events' :
              j < k /\ ShowsStage(m, j)' /\ ShowsStage(n, k)' => Ended(events'[m].status)
      BY <1>5, <2>1, <3>1, WroteInOrder
    <3>4. /\ events' \in Seq(EventRows)
          /\ \A m \in DOMAIN events : m \in DOMAIN events' /\ events'[m].item = events[m].item
      BY <3>1 DEF Wrote
    <3>5. \A m \in DOMAIN events' : \/ started[events'[m].item] = m
                                    \/ c.op = "start" /\ events'[m].item = c.item
      BY <2>8, <3>2, <3>4
    <3>6. \A i \in Items : started[i] # 0 => started[i] \in DOMAIN events' /\ events'[started[i]].item = i
      BY <2>7, <3>4
    <3> QED
      BY <2>6, <3>2, <3>3, <3>4, <3>5, <3>6
  <2> QED
    BY <2>9, <2>10
<1> QED
  BY <1>1, <1>4, <1>5 DEF CallCut

\* The graph has returned or raised, and finalize_all closes what is open.
LEMMA GraphEndsStep ==
    ASSUME StageInv, GraphEnds, turn = "none", UNCHANGED turn PROVE StageInv'
<1>1. /\ agent = "running" /\ at # "body" /\ agent' = "finalizing" /\ node' \in Nodes
      /\ UNCHANGED <<started, completed, events, wrote, orphaned>>
  BY DEF GraphEnds, FinalizeAll, GraphGone, Nodes
<1>2. Closers(script', 1..4)
  <2>1. \E s \in {"completed", "failed"}, url \in {Nothing, "url"} : script' = Finalizing(s, url)
    BY DEF GraphEnds, FinalizeAll
  <2> QED
    BY <2>1, FinalizingEffect
<1>3. script = <<>> /\ wrote = FALSE
  BY <1>1 DEF StageInv, Control, FeedTypes
<1>4. \A m \in DOMAIN events : started[events[m].item] = m \/ events[m].item \in orphaned
  BY <1>3 DEF StageInv, RowsKnown, Starting
<1>5. \A i \in completed : started[i] # 0 /\ Ended(events[started[i]].status)
  BY DEF StageInv, CompletedEnded
<1>6. \A j, k \in 1..4 : \A m, n \in DOMAIN events :
            j < k /\ ShowsStage(m, j) /\ ShowsStage(n, k) => Ended(events[m].status)
  BY DEF StageInv, StagesSoFar
<1>7. events \in Seq(EventRows) /\ orphaned \subseteq StageItems
  BY DEF StageInv, FeedTypes
<1>8. /\ \A i \in Items : started[i] # 0 => started[i] \in DOMAIN events /\ events[started[i]].item = i
      /\ \A i \in orphaned : started[i] = 0
  BY DEF StageInv, RowsKnown
<1>9. \A m, k : ShowsStage(m, k)' <=> ShowsStage(m, k)
  BY <1>1 DEF ShowsStage
<1> QED
  BY <1>1, <1>2, <1>3, <1>4, <1>5, <1>6, <1>7, <1>8, <1>9, FinalStep

-----------------------------------------------------------------------------
\* The calls of the codex run are about items of its own.
LEMMA CallsStep ==
    ASSUME StageInv, NEW cs \in Seq(SinkCalls), Calls(cs), NEW i \in CodexItems,
           \A p \in DOMAIN cs : /\ cs[p].item = i /\ cs[p].op # "delta"
                                /\ cs[p].op = "complete" <=> Ended(cs[p].status)
                                /\ cs[p].op = "start" => p = 1 /\ started[i] = 0
                                /\ cs[p].op # "start" /\ started[i] = 0 => p = 2 /\ cs[1].op = "start"
    PROVE  StageInv'
<1>1. /\ turn = "running" /\ script = <<>> /\ script' = cs
      /\ UNCHANGED <<events, wrote, started, completed, agent, orphaned, turn, node, at>>
  BY DEF Calls, agentVars, graphVars
<1>2. ~wrote /\ agent \in {"idle", "returned"} /\ i \in Items /\ i \notin StageItems /\ i \notin orphaned
  BY <1>1 DEF StageInv, FeedTypes, Control, CodexItems, StageItems
<1>3. FeedTypes'
  BY <1>1, <1>2 DEF StageInv, FeedTypes
<1>4. RowsKnown' /\ CompletedEnded'
  BY <1>1, <1>2 DEF StageInv, RowsKnown, CompletedEnded, Starting
<1>5. ScriptSound'
  <2>1. \A p \in DOMAIN cs : cs[p].op # "start" /\ started[i] = 0 =>
           \E q \in 1..(p - 1) : cs[q].op = "start" /\ cs[q].item = i
    <3> SUFFICES ASSUME NEW p \in DOMAIN cs, cs[p].op # "start", started[i] = 0
                 PROVE  \E q \in 1..(p - 1) : cs[q].op = "start" /\ cs[q].item = i
      OBVIOUS
    <3>1. p = 2 /\ cs[1].op = "start" /\ 1 \in DOMAIN cs
      OBVIOUS
    <3>2. 1 \in 1..(p - 1) /\ cs[1].item = i
      BY <3>1
    <3> QED
      BY <3>1, <3>2
  <2> QED
    BY <1>1, <1>2, <2>1 DEF ScriptSound
<1>6. Control'
  BY <1>1, <1>2 DEF StageInv, Control
<1>7. StagesSoFar' /\ StagesClosing'
  BY <1>1, <1>2 DEF StageInv, StagesSoFar, StagesClosing, ShowsStage
<1> QED
  BY <1>3, <1>4, <1>5, <1>6, <1>7 DEF StageInv

\* The codex run has items of its own: it touches no stage.
LEMMA CodexStepKeeps ==
    ASSUME StageInv, CodexStep PROVE StageInv'
<1>1. CASE BeginTurn \/ TurnEnds
  <2>1. /\ UNCHANGED <<sinkVars, orphaned, agent, node>>
        /\ turn' \in {"running", "ended"} /\ agent \in {"idle", "returned"} /\ script = <<>>
    BY <1>1 DEF BeginTurn, TurnEnds, StageInv, Control, feedVars, graphVars, agentVars
  <2>2. agent' \in {"idle", "running", "finalizing", "persisting", "returned"}
    BY <2>1
  <2> QED
    BY <2>1, <2>2, Between
<1>2. ASSUME NEW i \in CodexItems, NEW c \in SinkCalls
      PROVE <<c>> \in Seq(SinkCalls) /\ DOMAIN <<c>> = {1} /\ <<c>>[1] = c
  BY <1>2
<1>3. ASSUME NEW i \in CodexItems
      PROVE  /\ Start(i, Nothing) \in SinkCalls /\ Start(i, "final") \in SinkCalls
             /\ Text(i) \in SinkCalls /\ Complete(i, "final", "completed") \in SinkCalls
  BY <1>3 DEF CodexItems, Start, Text, Complete, Call, SinkCalls, Payloads, Statuses
<1>4. ASSUME NEW i \in CodexItems, OnItemStarted(i) PROVE StageInv'
  <2> DEFINE cs == <<Start(i, Nothing)>>
  <2>1. cs \in Seq(SinkCalls) /\ DOMAIN cs = {1} /\ cs[1] = Start(i, Nothing)
    BY <1>2, <1>3
  <2>2. cs[1].item = i /\ cs[1].op = "start" /\ ~Ended(cs[1].status)
    BY <2>1 DEF Start, Call, Ended
  <2>3. Calls(cs) /\ started[i] = 0
    BY <1>4 DEF OnItemStarted
  <2> HIDE DEF cs
  <2> QED
    BY <2>1, <2>2, <2>3, CallsStep
<1>5. ASSUME NEW i \in CodexItems, OnMessageDelta(i) PROVE StageInv'
  <2> DEFINE cs == <<Text(i)>>
  <2>1. cs \in Seq(SinkCalls) /\ DOMAIN cs = {1} /\ cs[1] = Text(i)
    BY <1>2, <1>3
  <2>2. cs[1].item = i /\ cs[1].op = "text" /\ ~Ended(cs[1].status)
    BY <2>1 DEF Text, Call, Ended
  <2>3. Calls(cs) /\ started[i] # 0
    BY <1>5 DEF OnMessageDelta, IsOpen
  <2> HIDE DEF cs
  <2> QED
    BY <2>1, <2>2, <2>3, CallsStep
<1>6. ASSUME NEW i \in CodexItems, OnItemCompleted(i) PROVE StageInv'
  <2> DEFINE s == Start(i, "final")
             c == Complete(i, "final", "completed")
  <2>1. s \in SinkCalls /\ c \in SinkCalls
    BY <1>3
  <2>2. /\ s.item = i /\ s.op = "start" /\ ~Ended(s.status)
        /\ c.item = i /\ c.op = "complete" /\ Ended(c.status)
    BY DEF Start, Complete, Call, Ended
  <2>3. Calls((IF started[i] = 0 THEN <<s>> ELSE <<>>) \o <<c>>)
    BY <1>6 DEF OnItemCompleted
  <2> HIDE DEF s, c
  <2>4. CASE started[i] = 0
    <3> DEFINE S == <<s>>
               C == <<c>>
               cs == S \o C
    <3>1. S \in Seq(SinkCalls) /\ C \in Seq(SinkCalls) /\ Len(S) = 1 /\ Len(C) = 1 /\ S[1] = s /\ C[1] = c
      BY <2>1
    <3>2. Calls(cs)
      BY <2>3, <2>4
    <3> HIDE DEF S, C
    <3>3. /\ cs \in Seq(SinkCalls) /\ Len(cs) = Len(S) + Len(C)
          /\ \A p \in 1..(Len(S) + Len(C)) : cs[p] = IF p <= Len(S) THEN S[p] ELSE C[p - Len(S)]
      BY <3>1, ConcatProperties
    <3>4. \A p \in DOMAIN cs : (p = 1 /\ cs[p] = s) \/ (p = 2 /\ cs[p] = c)
      <4> SUFFICES ASSUME NEW p \in DOMAIN cs PROVE (p = 1 /\ cs[p] = s) \/ (p = 2 /\ cs[p] = c)
        OBVIOUS
      <4>1. p \in 1..2 /\ cs[p] = IF p <= 1 THEN S[p] ELSE C[p - 1]
        BY <3>1, <3>3
      <4> QED
        BY <3>1, <4>1
    <3>5. cs[1] = s
      BY <3>1, <3>3
    <3> HIDE DEF cs
    <3> QED
      BY <2>2, <2>4, <3>2, <3>3, <3>4, <3>5, CallsStep
  <2>5. CASE started[i] # 0
    <3>1. <<>> \o <<c>> = <<c>>
      OBVIOUS
    <3>2. <<c>> \in Seq(SinkCalls) /\ DOMAIN <<c>> = {1} /\ <<c>>[1] = c
      BY <1>2, <2>1
    <3>3. Calls(<<c>>)
      BY <2>3, <2>5, <3>1
    <3> QED
      BY <2>2, <2>5, <3>2, <3>3, CallsStep
  <2> QED
    BY <2>4, <2>5
<1> QED
  BY <1>1, <1>4, <1>5, <1>6 DEF CodexStep

-----------------------------------------------------------------------------
(* The invariant, and the two properties of the stages' rows.              *)

\* No row, no call, nothing noted.
LEMMA StageInit == ASSUME Init PROVE StageInv
<1>1. /\ events = <<>> /\ script = <<>> /\ wrote = FALSE /\ started = [i \in Items |-> 0]
      /\ completed = {} /\ orphaned = {} /\ agent = "idle" /\ turn = "none" /\ node = "clarifier_step"
  BY DEF Init, DiscoveryInit, FeedInit, GraphInit
<1>2. node \in Nodes
  BY <1>1 DEF Nodes
<1>3. FeedTypes
  <2>1. started \in [Items -> Nat]
    BY <1>1
  <2>2. events \in Seq(EventRows) /\ script \in Seq(SinkCalls)
    BY <1>1
  <2>3. wrote \in BOOLEAN /\ ~wrote
    BY <1>1
  <2>4. completed \subseteq Items /\ orphaned \subseteq StageItems
    BY <1>1
  <2> QED
    BY <2>1, <2>2, <2>3, <2>4, Zenon DEF FeedTypes
<1>4. RowsKnown /\ CompletedEnded /\ ScriptSound
  BY <1>1 DEF RowsKnown, CompletedEnded, ScriptSound, Starting
<1>5. Control
  BY <1>1, <1>2 DEF Control
<1>6. StagesSoFar /\ StagesClosing
  BY <1>1 DEF StagesSoFar, StagesClosing, ShowsStage
<1> QED
  BY <1>3, <1>4, <1>5, <1>6 DEF StageInv

\* Every step of the discovery agent.
LEMMA DiscoveryKeeps ==
    ASSUME StageInv, turn = "none", DiscoveryStep \/ Interrupt, UNCHANGED turn
    PROVE  StageInv'
<1>1. node \in Nodes /\ (agent = "idle" => node = "clarifier_step")
  BY DEF StageInv, Control
<1>2. ASSUME Run PROVE StageInv'
  <2>1. /\ UNCHANGED <<sinkVars, orphaned, turn>> /\ agent = "idle" /\ agent' = "running" /\ StartGraph
    BY <1>2 DEF Run, feedVars
  <2>2. script = <<>>
    BY <2>1 DEF StageInv, Control
  <2>3. node' \in Nodes /\ Rank(node) <= Rank(node')
    BY <1>1, <2>1, GraphAdvances
  <2> QED
    BY <2>1, <2>2, <2>3, GraphStep
<1>3. CASE EnterNode
  BY <1>3, EnterNodeStep
<1>4. ASSUME RunGraph PROVE StageInv'
  <2>1. /\ UNCHANGED <<sinkVars, orphaned, turn>> /\ agent = "running" /\ agent' = "running"
        /\ script = <<>> /\ (RunNode \/ ModelRaises \/ Resume)
    BY <1>4 DEF RunGraph, feedVars, agentVars
  <2>2. ~StartGraph
    BY <2>1 DEF StartGraph, RunNode, ModelRaises, Resume, Clarify, Suspend, TakeAnswers, Palette,
       ReviewPasses, ReviewRejects, Search, Score, Compile, MoodBoard, Body, AskOrLoop, EmitsIntent,
       EmitsNothing, ConversationRefused, Replied
  <2>3. node' \in Nodes /\ Rank(node) <= Rank(node')
    BY <1>1, <2>1, <2>2, GraphAdvances
  <2> QED
    BY <2>1, <2>3, GraphStep
<1>5. CASE GraphEnds
  BY <1>5, GraphEndsStep
<1>6. ASSUME Finalized PROVE StageInv'
  <2>1. /\ UNCHANGED <<sinkVars, orphaned, node, turn>> /\ script = <<>>
        /\ agent = "finalizing" /\ agent' \in {"persisting", "returned"}
    BY <1>6 DEF Finalized, feedVars, graphVars
  <2> QED
    BY <2>1, Between
<1>7. ASSUME Persist PROVE StageInv'
  <2>1. /\ UNCHANGED <<sinkVars, orphaned, node, turn>> /\ agent = "persisting" /\ agent' = "returned"
    BY <1>7 DEF Persist, feedVars, graphVars
  <2>2. script = <<>>
    BY <2>1 DEF StageInv, Control
  <2> QED
    BY <2>1, <2>2, Between
<1>8. CASE Interrupt
  BY <1>8, InterruptStep
<1> QED
  BY <1>2, <1>3, <1>4, <1>5, <1>6, <1>7, <1>8 DEF DiscoveryStep

\* Every step of the sink and of the page.
LEMMA FeedKeeps ==
    ASSUME StageInv, FeedNext, UNCHANGED <<graphVars, agentVars, turn>> PROVE StageInv'
<1>1. UNCHANGED Around
  BY DEF Around, graphVars, agentVars
<1>2. CASE WriteRow
  BY <1>1, <1>2, WriteStep
<1>3. CASE Publish \/ PublishRaises
  <2>1. wrote /\ Noted(Head(script))
    BY <1>3 DEF Publish, PublishRaises
  <2> QED
    BY <1>1, <2>1, NoteStep
<1>4. CASE PageStep \/ LoadPage \/ DropStream
  <2>1. UNCHANGED sinkVars
    BY <1>4 DEF PageStep, LoadPage, DropStream, ReduceFrame, ReadRows, Subscribe
  <2> QED
    BY <1>1, <2>1, FeedRests
<1> QED
  BY <1>2, <1>3, <1>4 DEF FeedNext, SinkStep

\* Every step.
LEMMA StageStep == ASSUME StageInv, [Next]_vars PROVE StageInv'
<1>1. CASE turn = "none" /\ (DiscoveryStep \/ Interrupt) /\ UNCHANGED turn
  BY <1>1, DiscoveryKeeps
<1>2. CASE FeedNext /\ UNCHANGED <<graphVars, agentVars, turn>>
  BY <1>2, FeedKeeps
<1>3. CASE CodexStep
  BY <1>3, CodexStepKeeps
<1>4. CASE UNCHANGED vars
  <2>1. UNCHANGED <<sinkVars, Around>>
    BY <1>4 DEF vars, feedVars, Around, graphVars, agentVars
  <2> QED
    BY <2>1, FeedRests
<1> QED
  BY <1>1, <1>2, <1>3, <1>4 DEF Next

\* What the rows, the agent's memory of them and the calls it has still to make
\* say of one another holds always: DbEventSink and _DiscoveryProgressHandler.
THEOREM StageInvHolds == Spec => []StageInv
<1>1. Init => StageInv
  BY StageInit
<1>2. StageInv /\ [Next]_vars => StageInv'
  BY StageStep
<1> QED
  BY <1>1, <1>2, PTL DEF Spec

\* RowOf is a row of the item.
LEMMA RowOfShows ==
    ASSUME NEW i, RowsOf(i) # {} PROVE \E m \in DOMAIN events : events[m].item = i /\ RowOf(i) = events[m]
<1> DEFINE m == CHOOSE k \in RowsOf(i) : TRUE
<1>1. m \in RowsOf(i)
  OBVIOUS
<1> QED
  BY <1>1 DEF RowsOf, RowOf

\* The row of a stage is written when those of the stages before it have ended:
\* on_chain_start closes before it opens, and the sink calls keep their order.
THEOREM StagesInOrderHolds == Spec => []StagesInOrder
<1>1. ASSUME StageInv PROVE StagesInOrder
  <2> SUFFICES ASSUME NEW k \in 1..4, RowsOf(Stages[k]) # {},
                      NEW j \in 1..(k - 1), RowsOf(Stages[j]) # {}
               PROVE  Ended(RowOf(Stages[j]).status)
    BY DEF StagesInOrder
  <2>1. PICK m \in DOMAIN events : events[m].item = Stages[j] /\ RowOf(Stages[j]) = events[m]
    BY RowOfShows
  <2>2. PICK n \in DOMAIN events : events[n].item = Stages[k]
    BY RowOfShows
  <2>3. j \in 1..4 /\ j < k
    OBVIOUS
  <2>4. ShowsStage(m, j) /\ ShowsStage(n, k)
    BY <2>1, <2>2 DEF ShowsStage
  <2>5. Ended(events[m].status)
    BY <1>1, <2>3, <2>4 DEF StageInv, StagesSoFar
  <2> QED
    BY <2>1, <2>5
<1> QED
  BY <1>1, StageInvHolds, PTL

\* When the agent has returned no stage is open, but one whose INSERT the
\* interrupt has cut: finalize_all closes what the agent remembers to be open.
THEOREM ClosedOnReturnHolds == Spec => []ClosedOnReturn
<1>1. ASSUME StageInv PROVE ClosedOnReturn
  <2> SUFFICES ASSUME agent = "returned", NEW k \in 1..4, RowsOf(Stages[k]) # {}, Stages[k] \notin orphaned
               PROVE  Ended(RowOf(Stages[k]).status)
    BY DEF ClosedOnReturn
  <2>1. PICK m \in DOMAIN events : events[m].item = Stages[k] /\ RowOf(Stages[k]) = events[m]
    BY RowOfShows
  <2>2. ShowsStage(m, k)
    BY <2>1 DEF ShowsStage
  <2>3. Ended(events[m].status)
    BY <1>1, <2>2 DEF StageInv, StagesClosing
  <2> QED
    BY <2>1, <2>3
<1> QED
  BY <1>1, StageInvHolds, PTL

-----------------------------------------------------------------------------
(* What the page shows once it has read its frames.                        *)

\* The frames about i that are on their way; text does not count.
Says(i) == {k \in DOMAIN feed : feed[k].item = i /\ feed[k].op # "text"}

\* A bubble or a frame says what a row does, but for the text of an open message.
Tells(x, r) ==
    /\ Ended(x.status) <=> Ended(r.status)
    /\ x.payload = r.payload \/ (r.item \in Messages /\ ~Ended(r.status))

\* The page has a bubble for i, or is going to.
Brought(i) == BubblesOf(i) # {} \/ \E k \in Says(i) : feed[k].op # "delta"

\* The last thing that the page is told of i is the row.
UpToDate(i, r) ==
    \/ Says(i) = {} /\ \E k \in BubblesOf(i) : Tells(page[k], r)
    \/ \E k \in Says(i) : (\A l \in Says(i) : l <= k) /\ Tells(feed[k], r)

\* The row of i is ahead of the frame that says so.
Pending(i)  == wrote /\ Head(script).item = i /\ Head(script).op # "text"
HasEnded(i) == \E m \in DOMAIN events : events[m].item = i /\ Ended(events[m].status)

FrameTypes ==
    /\ page \in Seq(EventRows) /\ feed \in Seq(SinkCalls)
    /\ stream # "open" => feed = <<>>
    /\ \A k \in DOMAIN feed : feed[k].op = "complete" <=> Ended(feed[k].status)
    /\ \A k \in DOMAIN feed : feed[k].op = "delta" => feed[k].payload # Nothing

DeltaSays == \A p \in DOMAIN script : script[p].op = "delta" => script[p].payload # Nothing

\* One row and one bubble for an item.
OneRow    == \A m, n \in DOMAIN events : events[m].item = events[n].item => m = n
OneBubble == \A k, l \in DOMAIN page : page[k].item = page[l].item => k = l

\* The row that the first call of the script has written.
RowAt(c) == IF c.op = "start" THEN Len(events) ELSE started[c.item]
CallWritten ==
    wrote /\ Head(script).op # "text" =>
        /\ RowAt(Head(script)) \in DOMAIN events
        /\ events[RowAt(Head(script))].item = Head(script).item
        /\ events[RowAt(Head(script))].status = Head(script).status
        /\ Head(script).op = "start" => events[RowAt(Head(script))].payload = Head(script).payload
        /\ Head(script).op = "delta" => events[RowAt(Head(script))].payload # Nothing

\* What is shown to have ended has.
EndedTold ==
    /\ \A k \in DOMAIN page : Ended(page[k].status) => HasEnded(page[k].item)
    /\ \A k \in DOMAIN feed : feed[k].op = "complete" => HasEnded(feed[k].item)

\* Until the interrupt the agent knows what has ended.
EndedKnown ==
    agent \in {"idle", "running"} =>
        \A m \in DOMAIN events : Ended(events[m].status) =>
            \/ events[m].item \in completed
            \/ wrote /\ Head(script).op = "complete" /\ Head(script).item = events[m].item

\* The page is told of every row that no lost frame is about.
Told ==
    stream # "off" =>
        \A m \in DOMAIN events :
            events[m].item \notin missed \cup orphaned /\ ~Starting(events[m].item) =>
                /\ Brought(events[m].item)
                /\ ~Pending(events[m].item) => UpToDate(events[m].item, events[m])

PageInv ==
    /\ FrameTypes /\ DeltaSays /\ OneRow /\ OneBubble
    /\ CallWritten /\ EndedTold /\ EndedKnown /\ Told

\* A set of places has a first and a last one.
LEMMA FirstAndLast ==
    ASSUME NEW n \in Nat, NEW S \in SUBSET (1..n), S # {}
    PROVE  (\E k \in S : \A l \in S : k <= l) /\ (\E k \in S : \A l \in S : l <= k)
<1>1. ASSUME NEW T \in SUBSET Nat, T # {} PROVE \E x \in T : \A y \in T : x <= y
  <2>1. \E x \in T : \A y \in T : ~(<<y, x>> \in OpToRel(<, Nat))
    BY <1>1, WFMin, NatLessThanWellFounded
  <2>2. PICK x \in T : \A y \in T : ~(<<y, x>> \in OpToRel(<, Nat))
    BY <2>1
  <2>3. ASSUME NEW y \in T PROVE x <= y
    <3>1. ~(y < x)
      BY <2>2, <2>3 DEF OpToRel
    <3> QED
      BY <3>1
  <2> QED
    BY <2>3
<1>2. \E k \in S : \A l \in S : k <= l
  BY <1>1
<1>3. \E k \in S : \A l \in S : l <= k
  <2> DEFINE T == {n - k : k \in S}
  <2>1. \A k \in S : n - k \in Nat
    OBVIOUS
  <2>. T \in SUBSET Nat /\ T # {}
    BY <2>1
  <2>2. PICK x \in T : \A y \in T : x <= y
    BY <1>1
  <2>3. PICK k \in S : x = n - k
    BY <2>2
  <2>4. ASSUME NEW l \in S PROVE l <= k
    <3>1. n - k <= n - l
      BY <2>2, <2>3
    <3> QED
      BY <3>1
  <2> QED
    BY <2>4
<1> QED
  BY <1>2, <1>3

-----------------------------------------------------------------------------
\* A new bubble, or another one in its place.
LEMMA PutEffect ==
    ASSUME page \in Seq(EventRows), OneBubble, NEW f \in SinkCalls, NEW r \in EventRows,
           r.item = f.item, page' = PutBubble(f, r)
    PROVE  /\ page' \in Seq(EventRows)
           /\ \E k \in DOMAIN page' :
                 /\ page'[k] = r
                 /\ \A l \in DOMAIN page' : l # k =>
                       l \in DOMAIN page /\ page'[l] = page[l] /\ page[l].item # f.item
                 /\ \A l \in DOMAIN page : page[l].item # f.item => l \in DOMAIN page' /\ l # k
<1>1. DOMAIN page = 1..Len(page) /\ Len(page) \in Nat
  OBVIOUS
<1>2. CASE BubblesOf(f.item) = {}
  <2>1. page' = Append(page, r)
    BY <1>2 DEF PutBubble
  <2>2. /\ page' \in Seq(EventRows) /\ Len(page') = Len(page) + 1
        /\ page'[Len(page) + 1] = r /\ \A l \in 1..Len(page) : page'[l] = page[l]
    BY <1>1, <2>1, AppendProperties
  <2>3. \A l \in DOMAIN page : page[l].item # f.item
    BY <1>2 DEF BubblesOf
  <2>4. Len(page) + 1 \in DOMAIN page' /\ DOMAIN page' = 1..(Len(page) + 1)
    BY <1>1, <2>2
  <2> QED
    BY <1>1, <2>2, <2>3, <2>4
<1>3. CASE BubblesOf(f.item) # {}
  <2> DEFINE k == CHOOSE k \in BubblesOf(f.item) : \A l \in BubblesOf(f.item) : k <= l
  <2>1. k \in BubblesOf(f.item)
    <3>1. BubblesOf(f.item) \in SUBSET (1..Len(page))
      BY <1>1 DEF BubblesOf
    <3> QED
      BY <1>1, <1>3, <3>1, FirstAndLast
  <2>2. page' = [page EXCEPT ![k] = r]
    BY <1>3 DEF PutBubble
  <2> HIDE DEF k
  <2>3. k \in DOMAIN page /\ page[k].item = f.item
    BY <2>1 DEF BubblesOf
  <2>4. /\ page' \in Seq(EventRows) /\ Len(page') = Len(page)
        /\ \A l \in 1..Len(page) : page'[l] = IF l = k THEN r ELSE page[l]
    BY <1>1, <2>2, <2>3, ExceptSeq
  <2>5. \A l \in DOMAIN page : l # k => page[l].item # f.item
    BY <2>3 DEF OneBubble
  <2> QED
    BY <1>1, <2>3, <2>4, <2>5
<1> QED
  BY <1>2, <1>3

\* What the bubbles of i say stays, but for the text of an open message.
BubblesStay(i) ==
    /\ BubblesOf(i)' = BubblesOf(i)
    /\ \A k \in BubblesOf(i) :
          /\ page'[k].status = page[k].status
          /\ page'[k].payload = page[k].payload \/ (i \in Messages /\ ~Ended(page[k].status))

\* What the reducer does with a frame.
Retold(f) ==
    /\ page' \in Seq(EventRows) /\ OneBubble'
    /\ \A k \in DOMAIN page' : Ended(page'[k].status) =>
          \/ \E l \in DOMAIN page : page[l].item = page'[k].item /\ Ended(page[l].status)
          \/ f.op = "complete" /\ page'[k].item = f.item
    /\ \A i \in Items : i # f.item \/ f.op = "text" => BubblesStay(i)
    /\ f.op \in {"start", "complete"} =>
          \E k : /\ BubblesOf(f.item)' = {k}
                 /\ page'[k].payload = f.payload
                 /\ Ended(page'[k].status) <=> Ended(f.status)
    /\ f.op = "delta" =>
          /\ BubblesOf(f.item)' = BubblesOf(f.item)
          /\ \A k \in BubblesOf(f.item) :
                page'[k].status = page[k].status /\ page'[k].payload = f.payload

\* A frame that starts or completes an item sets its bubble.
LEMMA PutRetold ==
    ASSUME page \in Seq(EventRows), OneBubble, NEW f \in SinkCalls, NEW r \in EventRows,
           f.op \in {"start", "complete"}, r.item = f.item, r.payload = f.payload,
           Ended(r.status) <=> Ended(f.status), f.op = "complete" <=> Ended(f.status),
           page' = PutBubble(f, r)
    PROVE  Retold(f)
<1>1. page' \in Seq(EventRows)
  BY PutEffect
<1>2. PICK k \in DOMAIN page' :
         /\ page'[k] = r
         /\ \A l \in DOMAIN page' : l # k =>
               l \in DOMAIN page /\ page'[l] = page[l] /\ page[l].item # f.item
         /\ \A l \in DOMAIN page : page[l].item # f.item => l \in DOMAIN page' /\ l # k
  BY PutEffect
<1>3. OneBubble'
  BY <1>2 DEF OneBubble
<1>4. ASSUME NEW l \in DOMAIN page', Ended(page'[l].status)
      PROVE  \/ \E n \in DOMAIN page : page[n].item = page'[l].item /\ Ended(page[n].status)
             \/ f.op = "complete" /\ page'[l].item = f.item
  BY <1>2, <1>4
<1>5. ASSUME NEW i \in Items, i # f.item PROVE BubblesStay(i)
  BY <1>2, <1>5 DEF BubblesStay, BubblesOf
<1>6. BubblesOf(f.item)' = {k}
  BY <1>2 DEF BubblesOf
<1> QED
  BY <1>1, <1>2, <1>3, <1>4, <1>5, <1>6 DEF Retold

\* The bubbles have the same items and statuses.
Faces == /\ page' \in Seq(EventRows) /\ DOMAIN page' = DOMAIN page
         /\ \A l \in DOMAIN page : page'[l].item = page[l].item /\ page'[l].status = page[l].status

LEMMA FacesRetold ==
    ASSUME page \in Seq(EventRows), OneBubble, NEW f \in SinkCalls, Faces, f.op \in {"text", "delta"},
           \A l \in DOMAIN page :
              \/ page'[l].payload = page[l].payload
              \/ f.op = "text" /\ page[l].item \in Messages /\ ~Ended(page[l].status)
              \/ f.op = "delta" /\ page[l].item = f.item,
           f.op = "delta" => \A l \in BubblesOf(f.item) : page'[l].payload = f.payload
    PROVE  Retold(f)
<1>1. page' \in Seq(EventRows) /\ OneBubble'
  BY DEF Faces, OneBubble
<1>2. \A i : BubblesOf(i)' = BubblesOf(i)
  BY DEF Faces, BubblesOf
<1>3. ASSUME NEW i \in Items, i # f.item \/ f.op = "text" PROVE BubblesStay(i)
  BY <1>2, <1>3 DEF BubblesStay, BubblesOf, Faces
<1>4. \A k \in BubblesOf(f.item) : page'[k].status = page[k].status
  BY DEF BubblesOf, Faces
<1> QED
  BY <1>1, <1>2, <1>3, <1>4 DEF Retold, Faces

\* A row with another text.
LEMMA WithPayload ==
    ASSUME NEW r \in EventRows, NEW p \in Payloads
    PROVE  /\ [r EXCEPT !.payload = p] \in EventRows
           /\ [r EXCEPT !.payload = p].item = r.item
           /\ [r EXCEPT !.payload = p].status = r.status
           /\ [r EXCEPT !.payload = p].payload = p
BY DEF EventRows

\* useSessionEventHandler: every kind of frame.
LEMMA ReduceRetold ==
    ASSUME FrameTypes, OneBubble, NEW f \in SinkCalls, page' = Reduced(f),
           f.op = "complete" <=> Ended(f.status), f.op = "delta" => f.payload # Nothing
    PROVE  Retold(f)
<1>1. page \in Seq(EventRows) /\ DOMAIN page = 1..Len(page) /\ Len(page) \in Nat
  BY DEF FrameTypes
<1>2. f.item \in Items /\ f.payload \in Payloads /\ f.status \in Statuses
      /\ f.op \in {"start", "text", "delta", "complete"}
  BY DEF SinkCalls
<1>3. \A l \in DOMAIN page : page[l] \in EventRows
  BY <1>1
<1>4. CASE f.op = "start"
  <2>1. Bubble(f) \in EventRows /\ Bubble(f).item = f.item /\ Bubble(f).payload = f.payload
        /\ Bubble(f).status = f.status
    BY <1>2 DEF Bubble, Row, EventRows
  <2>2. page' = PutBubble(f, Bubble(f))
    BY <1>4 DEF Reduced
  <2> QED
    BY <1>1, <1>4, <2>1, <2>2, PutRetold
<1>5. CASE f.op = "complete"
  <2> DEFINE r == Row(f.item, "completed", f.payload)
  <2>1. r \in EventRows /\ r.item = f.item /\ r.payload = f.payload /\ Ended(r.status)
    BY <1>2 DEF Row, EventRows, Ended, Statuses
  <2>2. page' = PutBubble(f, r)
    BY <1>5 DEF Reduced
  <2> HIDE DEF r
  <2> QED
    BY <1>1, <1>5, <2>1, <2>2, PutRetold
<1>6. CASE f.op = "delta" /\ BubblesOf(f.item) # {}
  <2> DEFINE New(l) == IF l \in BubblesOf(f.item) THEN [page[l] EXCEPT !.payload = f.payload] ELSE page[l]
  <2>1. \A old : Merge(old, f.payload) = f.payload
    BY <1>6 DEF Merge
  <2>2. page' = [l \in DOMAIN page |-> New(l)]
    BY <1>6, <2>1 DEF Reduced
  <2>3. ASSUME NEW l \in DOMAIN page
        PROVE  /\ New(l) \in EventRows /\ New(l).item = page[l].item /\ New(l).status = page[l].status
               /\ l \in BubblesOf(f.item) => New(l).payload = f.payload
               /\ l \notin BubblesOf(f.item) => New(l) = page[l]
    BY <1>2, <1>3, <2>3, WithPayload
  <2> HIDE DEF New
  <2>4. Faces /\ \A l \in DOMAIN page : page'[l] = New(l)
    <3>1. page' \in [1..Len(page) -> EventRows]
      BY <1>1, <2>2, <2>3
    <3>2. page' \in Seq(EventRows)
      BY <1>1, <3>1
    <3> QED
      BY <1>1, <2>2, <2>3, <3>2 DEF Faces
  <2>5. \A l \in BubblesOf(f.item) : l \in DOMAIN page /\ page'[l].payload = f.payload
    BY <2>3, <2>4 DEF BubblesOf
  <2>6. \A l \in DOMAIN page : page'[l].payload = page[l].payload \/ page[l].item = f.item
    BY <2>3, <2>4 DEF BubblesOf
  <2> QED
    BY <1>1, <1>6, <2>4, <2>5, <2>6, FacesRetold
<1>7. CASE f.op = "text" /\ OpenMessages # {}
  <2>1. Newest \in OpenMessages
    <3>1. OpenMessages \in SUBSET (1..Len(page))
      BY <1>1 DEF OpenMessages
    <3>2. \E k \in OpenMessages : \A l \in OpenMessages : l <= k
      BY <1>1, <1>7, <3>1, FirstAndLast
    <3> QED
      BY <3>2 DEF Newest
  <2>2. PICK n : n = Newest
    OBVIOUS
  <2>3. n \in DOMAIN page /\ page[n].item \in Messages /\ page[n].status = "started"
    BY <2>1, <2>2 DEF OpenMessages
  <2>4. page' = [page EXCEPT ![n].payload = f.payload]
    BY <1>7, <2>2 DEF Reduced
  <2> DEFINE r == [page[n] EXCEPT !.payload = f.payload]
  <2>5. r \in EventRows /\ r.item = page[n].item /\ r.status = page[n].status
    BY <1>2, <1>3, <2>3, WithPayload
  <2>6. page' = [page EXCEPT ![n] = r]
    BY <2>4
  <2> HIDE DEF r
  <2>7. /\ page' \in Seq(EventRows) /\ Len(page') = Len(page)
        /\ \A l \in 1..Len(page) : page'[l] = IF l = n THEN r ELSE page[l]
    BY <1>1, <2>3, <2>5, <2>6, ExceptSeq
  <2>8. Faces
    BY <1>1, <2>5, <2>7 DEF Faces
  <2>9. \A l \in DOMAIN page : \/ page'[l].payload = page[l].payload
                               \/ page[l].item \in Messages /\ ~Ended(page[l].status)
    BY <1>1, <2>3, <2>7 DEF Ended
  <2> QED
    BY <1>1, <1>7, <2>8, <2>9, FacesRetold
<1>8. CASE (f.op = "text" /\ OpenMessages = {}) \/ (f.op = "delta" /\ BubblesOf(f.item) = {})
  <2>1. page' = page
    BY <1>8 DEF Reduced
  <2>2. Faces /\ \A l \in DOMAIN page : page'[l].payload = page[l].payload
    BY <1>1, <2>1 DEF Faces
  <2> QED
    BY <1>1, <1>8, <2>2, FacesRetold
<1> QED
  BY <1>2, <1>4, <1>5, <1>6, <1>7, <1>8

-----------------------------------------------------------------------------
(* What is on its way.                                                     *)

\* A frame is published: the last of what its item is told.
LEMMA FrameJoins ==
    ASSUME feed \in Seq(SinkCalls), NEW f \in SinkCalls, feed' = Append(feed, f), UNCHANGED page,
           NEW i
    PROVE  /\ feed' \in Seq(SinkCalls)
           /\ \A k \in DOMAIN feed' : (k \in DOMAIN feed /\ feed'[k] = feed[k]) \/ feed'[k] = f
           /\ i # f.item \/ f.op = "text" =>
                 /\ Brought(i) => Brought(i)'
                 /\ \A r : UpToDate(i, r) => UpToDate(i, r)'
           /\ i = f.item /\ f.op # "text" =>
                 /\ Brought(i) \/ f.op # "delta" => Brought(i)'
                 /\ \A r : Tells(f, r) => UpToDate(i, r)'
<1>1. /\ DOMAIN feed = 1..Len(feed) /\ Len(feed) \in Nat
      /\ feed' \in Seq(SinkCalls) /\ DOMAIN feed' = 1..(Len(feed) + 1)
      /\ feed'[Len(feed) + 1] = f /\ \A k \in 1..Len(feed) : feed'[k] = feed[k]
  BY AppendProperties
<1> DEFINE n == Len(feed) + 1
<1>2. /\ n \in DOMAIN feed' /\ feed'[n] = f /\ n \notin DOMAIN feed
      /\ \A k \in DOMAIN feed : k \in DOMAIN feed' /\ feed'[k] = feed[k] /\ k <= n
      /\ \A k \in DOMAIN feed' : k \in DOMAIN feed \/ k = n
      /\ n <= n
  BY <1>1
<1> HIDE DEF n
<1>3. BubblesOf(i)' = BubblesOf(i)
  BY DEF BubblesOf
<1>4. ASSUME i # f.item \/ f.op = "text"
      PROVE  /\ Brought(i) => Brought(i)'
             /\ \A r : UpToDate(i, r) => UpToDate(i, r)'
  <2>1. Says(i)' = Says(i)
    BY <1>2, <1>4 DEF Says
  <2>2. \A k \in Says(i) : feed'[k] = feed[k]
    BY <1>2 DEF Says
  <2> QED
    BY <1>3, <2>1, <2>2 DEF Brought, UpToDate, Tells
<1>5. ASSUME i = f.item, f.op # "text"
      PROVE  /\ Brought(i) \/ f.op # "delta" => Brought(i)'
             /\ \A r : Tells(f, r) => UpToDate(i, r)'
  <2>1. Says(i)' = Says(i) \cup {n}
    BY <1>2, <1>5 DEF Says
  <2>2. \A k \in Says(i) : feed'[k] = feed[k] /\ k <= n
    BY <1>2 DEF Says
  <2> QED
    BY <1>2, <1>3, <2>1, <2>2 DEF Brought, UpToDate, Tells
<1> QED
  BY <1>1, <1>2, <1>4, <1>5

\* A frame is reduced: the page tells what the frame did.
LEMMA FrameRead ==
    ASSUME FrameTypes, feed # <<>>, NEW f, f = Head(feed), feed' = Tail(feed), Retold(f),
           NEW i \in Items
    PROVE  /\ f \in SinkCalls /\ feed' \in Seq(SinkCalls)
           /\ \A k \in DOMAIN feed' : k + 1 \in DOMAIN feed /\ feed'[k] = feed[k + 1]
           /\ Brought(i) => Brought(i)'
           /\ \A r : UpToDate(i, r) /\ r.item = i /\ Brought(i)
                     /\ (\A k \in BubblesOf(i) : Ended(page[k].status) => Ended(r.status))
                     => UpToDate(i, r)'
<1>1. /\ feed \in Seq(SinkCalls) /\ DOMAIN feed = 1..Len(feed) /\ Len(feed) \in Nat /\ Len(feed) >= 1
      /\ f = feed[1] /\ 1 \in DOMAIN feed /\ f \in SinkCalls
  BY DEF FrameTypes
<1>2. /\ feed' \in Seq(SinkCalls) /\ DOMAIN feed' = 1..(Len(feed) - 1)
      /\ \A k \in 1..(Len(feed) - 1) : feed'[k] = feed[k + 1]
  BY <1>1, HeadTailProperties
<1>3. \A k \in DOMAIN feed' : k \in Nat /\ k + 1 \in DOMAIN feed /\ feed'[k] = feed[k + 1]
  BY <1>1, <1>2
<1>4. \A k \in DOMAIN feed : k # 1 => k - 1 \in DOMAIN feed' /\ feed'[k - 1] = feed[k]
  <2> SUFFICES ASSUME NEW k \in DOMAIN feed, k # 1 PROVE k - 1 \in DOMAIN feed' /\ feed'[k - 1] = feed[k]
    OBVIOUS
  <2>1. k - 1 \in 1..(Len(feed) - 1) /\ (k - 1) + 1 = k
    BY <1>1
  <2> QED
    BY <1>2, <2>1
<1>5. \A k \in Says(i)' : k \in Nat /\ k + 1 \in Says(i) /\ feed'[k] = feed[k + 1]
  BY <1>3 DEF Says
<1>6. \A k \in Says(i) : k \in Nat /\ (k # 1 => k - 1 \in Says(i)' /\ feed'[k - 1] = feed[k])
  BY <1>1, <1>4 DEF Says
<1>7. \A k \in BubblesOf(i) : k \in DOMAIN page
  BY DEF BubblesOf
<1>8. ASSUME Brought(i) PROVE Brought(i)'
  <2>1. CASE BubblesOf(i) # {}
    <3>1. BubblesOf(i)' # {}
      <4>1. f.op \in {"start", "text", "delta", "complete"}
        BY <1>1 DEF SinkCalls
      <4> QED
        BY <2>1, <4>1 DEF Retold, BubblesStay
    <3> QED
      BY <3>1 DEF Brought
  <2>2. CASE \E k \in Says(i) : feed[k].op # "delta"
    <3>1. PICK k \in Says(i) : feed[k].op # "delta"
      BY <2>2
    <3>2. CASE k = 1
      <4>1. i = f.item /\ f.op \in {"start", "complete"}
        BY <1>1, <3>1, <3>2 DEF Says, SinkCalls
      <4>2. BubblesOf(i)' # {}
        BY <4>1 DEF Retold
      <4> QED
        BY <4>2 DEF Brought
    <3>3. CASE k # 1
      <4>1. k - 1 \in Says(i)' /\ feed'[k - 1].op # "delta"
        BY <1>6, <3>1, <3>3
      <4> QED
        BY <4>1 DEF Brought
    <3> QED
      BY <3>2, <3>3
  <2> QED
    BY <1>8, <2>1, <2>2 DEF Brought
<1>9. ASSUME NEW r, UpToDate(i, r), r.item = i, Brought(i),
             \A k \in BubblesOf(i) : Ended(page[k].status) => Ended(r.status)
      PROVE  UpToDate(i, r)'
  <2>1. CASE \E k \in Says(i) : k # 1 /\ (\A l \in Says(i) : l <= k) /\ Tells(feed[k], r)
    <3>1. PICK k \in Says(i) : k # 1 /\ (\A l \in Says(i) : l <= k) /\ Tells(feed[k], r)
      BY <2>1
    <3>2. k - 1 \in Says(i)' /\ feed'[k - 1] = feed[k]
      BY <1>6, <3>1
    <3>3. ASSUME NEW l \in Says(i)' PROVE l <= k - 1
      <4>1. l \in Nat /\ k \in Nat /\ l + 1 <= k
        BY <1>5, <1>6, <3>1
      <4> QED
        BY <4>1
    <3>4. Tells(feed'[k - 1], r)
      BY <3>1, <3>2
    <3> QED
      BY <3>2, <3>3, <3>4 DEF UpToDate, Tells
  <2>2. CASE Says(i) = {} /\ \E k \in BubblesOf(i) : Tells(page[k], r)
    <3>1. PICK k \in BubblesOf(i) : Tells(page[k], r)
      BY <2>2
    <3>2. i # f.item \/ f.op = "text"
      BY <1>1, <2>2 DEF Says
    <3>3. BubblesStay(i)
      BY <3>2 DEF Retold
    <3>4. Says(i)' = {}
      BY <1>5, <2>2
    <3>5. k \in BubblesOf(i)' /\ Tells(page'[k], r)
      BY <1>9, <3>1, <3>3 DEF BubblesStay, Tells
    <3> QED
      BY <3>4, <3>5 DEF UpToDate, Tells
  <2>3. CASE 1 \in Says(i) /\ (\A l \in Says(i) : l <= 1) /\ Tells(f, r)
    <3>1. i = f.item /\ f.op \in {"start", "delta", "complete"}
      BY <1>1, <2>3 DEF Says, SinkCalls
    <3>2. Says(i)' = {}
      <4> SUFFICES ASSUME NEW l \in Says(i)' PROVE FALSE
        OBVIOUS
      <4>1. l \in Nat /\ l + 1 <= 1
        BY <1>5, <2>3
      <4>2. l \in 1..(Len(feed) - 1)
        BY <1>2 DEF Says
      <4> QED
        BY <4>1, <4>2
    <3>3. CASE f.op \in {"start", "complete"}
      <4>1. PICK k : /\ BubblesOf(f.item)' = {k} /\ page'[k].payload = f.payload
                     /\ Ended(page'[k].status) <=> Ended(f.status)
        BY <3>3 DEF Retold
      <4>2. k \in BubblesOf(i)' /\ Tells(page'[k], r)
        BY <2>3, <3>1, <4>1 DEF Tells
      <4> QED
        BY <3>2, <4>2 DEF UpToDate, Tells
    <3>4. CASE f.op = "delta"
      <4>1. \A k \in Says(i) : k = 1
        BY <1>5, <1>6, <2>3, <1>1 DEF Says
      <4>2. PICK k \in BubblesOf(i) : TRUE
        BY <1>1, <1>9, <3>4, <4>1 DEF Brought
      <4>3. ~Ended(f.status)
        BY <1>1, <3>4 DEF FrameTypes
      <4>4. ~Ended(r.status) /\ ~Ended(page[k].status)
        BY <1>9, <2>3, <4>3 DEF Tells
      <4>5. k \in BubblesOf(i)' /\ page'[k].status = page[k].status /\ page'[k].payload = f.payload
        BY <3>1, <3>4, <4>2 DEF Retold
      <4>6. Tells(page'[k], r)
        BY <2>3, <4>4, <4>5 DEF Tells
      <4> QED
        BY <3>2, <4>5, <4>6 DEF UpToDate, Tells
    <3> QED
      BY <3>1, <3>3, <3>4
  <2> QED
    BY <1>1, <1>9, <2>1, <2>2, <2>3 DEF UpToDate
<1> QED
  BY <1>1, <1>2, <1>3, <1>8, <1>9

-----------------------------------------------------------------------------
(* Every step.                                                             *)

\* The row that a call writes says what the call does.
LEMMA RowSays ==
    ASSUME FeedTypes, RowsKnown, ScriptSound, DeltaSays, script # <<>>,
           NEW c, c = Head(script), c.op # "text", events' = Written(c)
    PROVE  LET n == IF c.op = "start" THEN Len(events) + 1 ELSE started[c.item] IN
           /\ n \in DOMAIN events' /\ events'[n].item = c.item /\ events'[n].status = c.status
           /\ c.op = "start" => events'[n].payload = c.payload
           /\ c.op = "delta" => events'[n].payload # Nothing
<1>1. c = script[1] /\ c \in SinkCalls /\ 1 \in DOMAIN script /\ DOMAIN events = 1..Len(events)
  BY HeadOfScript
<1>2. events \in Seq(EventRows) /\ Len(events) \in Nat
  BY DEF FeedTypes
<1>3. c.op = "delta" => c.payload # Nothing
  BY <1>1 DEF DeltaSays
<1>4. CASE c.op = "start"
  <2> DEFINE r == Row(c.item, c.status, c.payload)
  <2>1. r.item = c.item /\ r.status = c.status /\ r.payload = c.payload
    BY DEF Row
  <2>2. events' = Append(events, r)
    BY <1>4 DEF Written
  <2> HIDE DEF r
  <2>3. Len(events) + 1 \in DOMAIN events' /\ events'[Len(events) + 1] = r
    BY <1>1, <1>2, <2>2
  <2> QED
    BY <1>4, <2>1, <2>3
<1>5. CASE c.op # "start"
  <2> DEFINE n == started[c.item]
             r == Row(c.item, c.status, Merge(events[n].payload, c.payload))
  <2>1. n # 0
    BY <1>1, <1>5 DEF ScriptSound
  <2>2. n \in DOMAIN events
    BY <1>1, <2>1 DEF RowsKnown, SinkCalls
  <2>3. r.item = c.item /\ r.status = c.status /\ (c.op = "delta" => r.payload # Nothing)
    BY <1>3 DEF Row, Merge
  <2>4. events' = [events EXCEPT ![n] = r]
    BY <1>5 DEF Written
  <2> HIDE DEF r
  <2>5. n \in DOMAIN events' /\ events'[n] = r
    BY <2>2, <2>4
  <2> QED
    BY <1>5, <2>3, <2>5
<1> QED
  BY <1>4, <1>5

\* What a call leaves of the rows: those of other items stay.
RowsStay(c) ==
    /\ \A m \in DOMAIN events' : events'[m].item # c.item \/ c.op = "text" =>
          m \in DOMAIN events /\ events'[m] = events[m]
    /\ c.op # "start" => \A m \in DOMAIN events' : m \in DOMAIN events /\ events'[m].item = events[m].item

\* A row is written: there is one for each item, the others stay, what has
\* ended has, and the agent knows it.
LEMMA RowWritten ==
    ASSUME StageInv, PageInv, script # <<>>, ~wrote, NEW c, c = Head(script), events' = Written(c)
    PROVE  /\ OneRow' /\ RowsStay(c) /\ \A i : HasEnded(i) => HasEnded(i)'
           /\ c.op # "text" => LET n == IF c.op = "start" THEN Len(events') ELSE started[c.item] IN
                 /\ n \in DOMAIN events' /\ events'[n].item = c.item /\ events'[n].status = c.status
                 /\ c.op = "start" => events'[n].payload = c.payload
                 /\ c.op = "delta" => events'[n].payload # Nothing
<1>1. /\ c = script[1] /\ c \in SinkCalls /\ 1 \in DOMAIN script
      /\ DOMAIN events = 1..Len(events) /\ Len(events) \in Nat
  BY HeadOfScript DEF StageInv
<1>2. Wrote(c)
  BY WrittenEffect DEF StageInv
<1>3. DOMAIN events' = 1..Len(events') /\ Len(events') \in Nat
  BY <1>2 DEF Wrote
<1>4. \A n \in DOMAIN events' : n \notin DOMAIN events =>
          n = Len(events) + 1 /\ c.op = "start" /\ events'[n].item = c.item
  BY <1>2, WroteKeeps
<1>5. c.op = "start" => \A m \in DOMAIN events : events[m].item # c.item
  <2> SUFFICES ASSUME c.op = "start", NEW m \in DOMAIN events, events[m].item = c.item PROVE FALSE
    OBVIOUS
  <2>1. started[c.item] = 0 /\ c.item \notin orphaned
    BY <1>1 DEF StageInv, ScriptSound
  <2> QED
    BY <1>1, <2>1 DEF StageInv, RowsKnown, Starting
<1>6. \A m \in DOMAIN events : m \in DOMAIN events' /\ events'[m].item = events[m].item
  BY <1>2 DEF Wrote
<1>7. OneRow'
  BY <1>1, <1>4, <1>5, <1>6 DEF PageInv, OneRow
<1>8. c.op # "start" => started[c.item] \in DOMAIN events /\ events[started[c.item]].item = c.item
  <2> SUFFICES ASSUME c.op # "start" PROVE started[c.item] \in DOMAIN events /\ events[started[c.item]].item = c.item
    OBVIOUS
  <2>1. started[c.item] # 0
    BY <1>1 DEF StageInv, ScriptSound
  <2> QED
    BY <1>1, <2>1 DEF StageInv, RowsKnown, SinkCalls
<1>9. RowsStay(c)
  <2>1. ASSUME NEW m \in DOMAIN events', events'[m].item # c.item \/ c.op = "text"
        PROVE  m \in DOMAIN events /\ events'[m] = events[m]
    <3>1. m \in DOMAIN events
      BY <1>4, <2>1
    <3>2. CASE c.op = "start" \/ c.op = "text"
      BY <1>2, <3>1, <3>2 DEF Wrote
    <3>3. CASE c.op # "start" /\ c.op # "text"
      <4>1. m # started[c.item]
        BY <1>6, <1>8, <2>1, <3>1, <3>3
      <4> QED
        BY <1>2, <3>1, <3>3, <4>1 DEF Wrote
    <3> QED
      BY <3>1, <3>2, <3>3
  <2> QED
    BY <1>4, <1>6, <2>1 DEF RowsStay
<1>10. ASSUME NEW m \in DOMAIN events, Ended(events[m].status) PROVE Ended(events'[m].status)
  <2>1. CASE c.op = "delta" /\ events[m].item = c.item
    <3>1. agent = "running"
      <4>1. agent \notin {"idle", "returned", "finalizing"}
        BY <1>1, <2>1 DEF StageInv, Control
      <4> QED
        BY <1>1, <4>1 DEF StageInv, Control
    <3>2. c.item \in completed
      BY <1>10, <2>1, <3>1 DEF PageInv, EndedKnown
    <3>3. c.item \notin completed
      BY <1>1, <2>1 DEF StageInv, ScriptSound
    <3> QED
      BY <3>2, <3>3
  <2>2. CASE ~(c.op = "delta" /\ events[m].item = c.item)
    BY <1>2, <1>10, <2>2, WroteKeeps
  <2> QED
    BY <2>1, <2>2
<1>11. \A i : HasEnded(i) => HasEnded(i)'
  BY <1>6, <1>10 DEF HasEnded
<1>12. c.op = "start" => Len(events') = Len(events) + 1
  BY <1>2 DEF Wrote
<1>13. ASSUME c.op # "text"
       PROVE  LET n == IF c.op = "start" THEN Len(events') ELSE started[c.item] IN
                 /\ n \in DOMAIN events' /\ events'[n].item = c.item /\ events'[n].status = c.status
                 /\ c.op = "start" => events'[n].payload = c.payload
                 /\ c.op = "delta" => events'[n].payload # Nothing
  BY <1>12, <1>13, RowSays DEF StageInv, PageInv
<1> QED
  BY <1>7, <1>9, <1>11, <1>13

\* The row is written: until its frame is out the page is behind.
LEMMA PageWrite ==
    ASSUME StageInv, PageInv, WriteRow, UNCHANGED Around PROVE PageInv'
<1>1. /\ script # <<>> /\ ~wrote /\ wrote' = TRUE /\ events' = Written(Head(script))
      /\ UNCHANGED <<script, started, completed, stream, page, feed, missed, agent, orphaned>>
  BY DEF WriteRow, Around, pageVars
<1>2. PICK c : c = Head(script)
  OBVIOUS
<1>3. c = script[1] /\ c \in SinkCalls /\ 1 \in DOMAIN script
  BY <1>1, <1>2, HeadOfScript DEF StageInv
<1>4. /\ OneRow' /\ RowsStay(c) /\ \A i : HasEnded(i) => HasEnded(i)'
      /\ c.op # "text" => LET n == IF c.op = "start" THEN Len(events') ELSE started[c.item] IN
            /\ n \in DOMAIN events' /\ events'[n].item = c.item /\ events'[n].status = c.status
            /\ c.op = "start" => events'[n].payload = c.payload
            /\ c.op = "delta" => events'[n].payload # Nothing
  BY <1>1, <1>2, RowWritten
<1>5. FrameTypes' /\ DeltaSays' /\ OneBubble'
  BY <1>1 DEF PageInv, FrameTypes, DeltaSays, OneBubble
<1>6. CallWritten'
  BY <1>1, <1>2, <1>4 DEF CallWritten, RowAt
<1>7. EndedTold'
  BY <1>1, <1>4 DEF PageInv, EndedTold
<1>8. EndedKnown'
  <2> SUFFICES ASSUME agent \in {"idle", "running"}, NEW m \in DOMAIN events', Ended(events'[m].status)
               PROVE  events'[m].item \in completed \/ (c.op = "complete" /\ c.item = events'[m].item)
    BY <1>1, <1>2 DEF EndedKnown
  <2>1. CASE events'[m].item # c.item \/ c.op = "text"
    <3>1. m \in DOMAIN events /\ events'[m] = events[m]
      BY <1>4, <2>1 DEF RowsStay
    <3> QED
      BY <1>1, <3>1 DEF PageInv, EndedKnown
  <2>2. CASE events'[m].item = c.item /\ c.op # "text"
    <3>1. events'[m].status = c.status
      BY <1>4, <2>2 DEF OneRow
    <3> QED
      BY <1>3, <2>2, <3>1 DEF StageInv, ScriptSound
  <2> QED
    BY <2>1, <2>2
<1>9. Told'
  <2> SUFFICES ASSUME stream # "off", NEW m \in DOMAIN events', NEW i, i = events'[m].item,
                      NEW r, r = events'[m], i \notin missed \cup orphaned, ~Starting(i)'
               PROVE  Brought(i)' /\ (~Pending(i)' => UpToDate(i, r)')
    BY <1>1 DEF Told
  <2>1. Says(i)' = Says(i) /\ BubblesOf(i)' = BubblesOf(i)
    BY <1>1 DEF Says, BubblesOf
  <2>2. ~Starting(i) /\ ~Pending(i)
    BY <1>1 DEF Starting, Pending
  <2>3. CASE i # c.item \/ c.op = "text"
    <3>1. m \in DOMAIN events /\ r = events[m]
      BY <1>4, <2>3 DEF RowsStay
    <3>2. Brought(i) /\ UpToDate(i, r)
      BY <2>2, <3>1 DEF PageInv, Told
    <3> QED
      BY <1>1, <2>1, <3>2 DEF Brought, UpToDate, Tells
  <2>4. CASE i = c.item /\ c.op # "text"
    <3>1. c.op # "start"
      BY <1>1, <1>2, <2>4 DEF Starting
    <3>2. m \in DOMAIN events /\ events[m].item = i
      BY <1>4, <3>1 DEF RowsStay
    <3>3. Brought(i)
      BY <2>2, <3>2 DEF PageInv, Told
    <3>4. Pending(i)'
      BY <1>1, <1>2, <2>4 DEF Pending
    <3> QED
      BY <1>1, <2>1, <3>3, <3>4 DEF Brought
  <2> QED
    BY <2>3, <2>4
<1> QED
  BY <1>4, <1>5, <1>6, <1>7, <1>8, <1>9 DEF PageInv

\* The frame of a call says what its row does.
LEMMA FrameSays ==
    ASSUME StageInv, PageInv, wrote, NEW c, c = Head(script), NEW f, f = FrameOf(c)
    PROVE  /\ f \in SinkCalls /\ f.op = c.op /\ f.item = c.item /\ f.status = c.status
           /\ f.op = "complete" <=> Ended(f.status)
           /\ f.op = "delta" => f.payload # Nothing
           /\ f.op # "text" => \A m \in DOMAIN events : events[m].item = f.item => Tells(f, events[m])
           /\ f.op = "complete" => HasEnded(f.item)
<1>1. c = script[1] /\ c \in SinkCalls /\ 1 \in DOMAIN script /\ script # <<>>
  BY HeadOfScript DEF StageInv, FeedTypes
<1>2. c.op = "complete" <=> Ended(c.status)
  BY <1>1 DEF StageInv, ScriptSound
<1>3. CASE c.op = "text"
  BY <1>1, <1>2, <1>3 DEF FrameOf
<1>4. CASE c.op # "text"
  <2> DEFINE n == RowAt(c)
  <2>1. /\ n \in DOMAIN events /\ events[n].item = c.item /\ events[n].status = c.status
        /\ c.op = "start" => events[n].payload = c.payload
        /\ c.op = "delta" => events[n].payload # Nothing
    BY <1>4 DEF PageInv, CallWritten
  <2>2. events[n].payload \in Payloads
    <3>1. events[n] \in EventRows
      BY <2>1 DEF StageInv, FeedTypes
    <3> QED
      BY <3>1 DEF EventRows
  <2>3. f \in SinkCalls /\ f.op = c.op /\ f.item = c.item /\ f.status = c.status /\ f.payload = events[n].payload
    <3>1. CASE c.op = "start"
      BY <1>1, <2>1, <3>1 DEF FrameOf
    <3>2. CASE c.op # "start"
      <4>1. f = [c EXCEPT !.payload = events[n].payload]
        BY <1>4, <3>2 DEF FrameOf, RowAt
      <4> QED
        BY <1>1, <2>2, <4>1 DEF SinkCalls
    <3> QED
      BY <3>1, <3>2
  <2>4. \A m \in DOMAIN events : events[m].item = f.item => m = n
    BY <2>1, <2>3 DEF PageInv, OneRow
  <2>5. Tells(f, events[n])
    BY <2>1, <2>3 DEF Tells
  <2>6. f.op = "complete" => HasEnded(f.item)
    BY <1>2, <2>1, <2>3 DEF HasEnded
  <2> HIDE DEF n
  <2> QED
    BY <1>2, <2>1, <2>3, <2>4, <2>5, <2>6
<1> QED
  BY <1>3, <1>4

\* The call is over, and its frame is out or the page is going to miss it.
LEMMA CallOver ==
    ASSUME StageInv, PageInv, wrote, wrote' = FALSE, NEW c, c = Head(script),
           UNCHANGED <<events, page, stream>>, orphaned \subseteq orphaned',
           missed \subseteq missed' \cup {c.item}, c.item \in missed => c.item \in missed' \/ c.op = "complete",
           \/ UNCHANGED feed /\ c.item \in missed'
           \/ stream = "open" /\ feed' = Append(feed, FrameOf(c))
    PROVE  FrameTypes' /\ OneRow' /\ OneBubble' /\ CallWritten' /\ EndedTold' /\ Told'
<1>1. PICK f : f = FrameOf(c)
  OBVIOUS
<1>2. /\ f \in SinkCalls /\ f.op = c.op /\ f.item = c.item /\ f.status = c.status
      /\ f.op = "complete" <=> Ended(f.status)
      /\ f.op = "delta" => f.payload # Nothing
      /\ f.op # "text" => \A m \in DOMAIN events : events[m].item = f.item => Tells(f, events[m])
      /\ f.op = "complete" => HasEnded(f.item)
  BY <1>1, FrameSays
<1>3. page \in Seq(EventRows) /\ feed \in Seq(SinkCalls)
  BY DEF PageInv, FrameTypes
<1>4. /\ feed' \in Seq(SinkCalls)
      /\ \A k \in DOMAIN feed' : (k \in DOMAIN feed /\ feed'[k] = feed[k]) \/ feed'[k] = f
      /\ stream # "open" => feed' = <<>>
  <2>1. CASE UNCHANGED feed
    BY <1>3, <2>1 DEF PageInv, FrameTypes
  <2>2. CASE stream = "open" /\ feed' = Append(feed, f)
    BY <1>2, <1>3, <2>2, FrameJoins
  <2> QED
    BY <1>1, <2>1, <2>2
<1>5. FrameTypes'
  BY <1>2, <1>3, <1>4 DEF PageInv, FrameTypes
<1>6. OneRow' /\ OneBubble' /\ CallWritten'
  BY DEF PageInv, OneRow, OneBubble, CallWritten
<1>7. EndedTold'
  <2>1. \A i : HasEnded(i)' <=> HasEnded(i)
    BY DEF HasEnded
  <2> QED
    BY <1>2, <1>4, <2>1 DEF PageInv, EndedTold
<1>8. Told'
  <2> SUFFICES ASSUME stream # "off", NEW m \in DOMAIN events, NEW i, i = events[m].item,
                      i \notin missed' \cup orphaned'
               PROVE  Brought(i)' /\ UpToDate(i, events[m])'
    BY DEF Told
  <2>1. CASE i # c.item \/ c.op = "text"
    <3>1. i \notin missed \cup orphaned
      BY <2>1
    <3>2. ~Starting(i) /\ ~Pending(i)
      BY <2>1 DEF Starting, Pending
    <3>3. Brought(i) /\ UpToDate(i, events[m])
      BY <3>1, <3>2 DEF PageInv, Told
    <3>4. CASE UNCHANGED feed
      BY <3>3, <3>4 DEF Brought, UpToDate, Says, BubblesOf, Tells
    <3>5. CASE feed' = Append(feed, f)
      BY <1>2, <1>3, <2>1, <3>3, <3>5, FrameJoins
    <3> QED
      BY <1>1, <3>4, <3>5
  <2>2. CASE i = c.item /\ c.op # "text"
    <3>1. feed' = Append(feed, f)
      BY <1>1, <2>2
    <3>2. Tells(f, events[m])
      BY <1>2, <2>2
    <3>3. Brought(i) \/ f.op # "delta"
      <4> SUFFICES ASSUME f.op = "delta" PROVE Brought(i)
        OBVIOUS
      <4>1. ~Starting(i) /\ i \notin missed \cup orphaned
        BY <1>2, <2>2 DEF Starting
      <4> QED
        BY <4>1 DEF PageInv, Told
    <3> QED
      BY <1>2, <1>3, <2>2, <3>1, <3>2, <3>3, FrameJoins
  <2> QED
    BY <2>1, <2>2
<1> QED
  BY <1>5, <1>6, <1>7, <1>8

\* The agent notes the call.
LEMMA PageNote ==
    ASSUME StageInv, PageInv, Publish \/ PublishRaises, UNCHANGED Around PROVE PageInv'
<1>1. PICK c : c = Head(script)
  OBVIOUS
<1>2. /\ wrote /\ wrote' = FALSE /\ UNCHANGED <<events, page, stream, orphaned, agent>>
      /\ script' = Tail(script)
      /\ completed' = IF c.op = "complete" THEN completed \cup {c.item} ELSE completed
  BY <1>1 DEF Publish, PublishRaises, Noted, Around
<1>3. /\ missed \subseteq missed' \cup {c.item} /\ (c.item \in missed => c.item \in missed' \/ c.op = "complete")
      /\ \/ UNCHANGED feed /\ c.item \in missed'
         \/ stream = "open" /\ feed' = Append(feed, FrameOf(c))
  BY <1>1 DEF Publish, PublishRaises
<1>4. FrameTypes' /\ OneRow' /\ OneBubble' /\ CallWritten' /\ EndedTold' /\ Told'
  BY <1>1, <1>2, <1>3, CallOver
<1>5. DeltaSays'
  <2>1. script \in Seq(SinkCalls) /\ script # <<>>
    BY <1>2 DEF StageInv, FeedTypes
  <2>2. \A p \in DOMAIN script' : p + 1 \in DOMAIN script /\ script'[p] = script[p + 1]
    BY <1>2, <2>1, HeadTailProperties
  <2> QED
    BY <2>2 DEF PageInv, DeltaSays
<1>6. EndedKnown'
  BY <1>1, <1>2 DEF PageInv, EndedKnown
<1> QED
  BY <1>4, <1>5, <1>6 DEF PageInv

\* The agent is no step further with its calls, or has another list of them.
LEMMA PageAside ==
    ASSUME PageInv, UNCHANGED <<events, wrote, completed, orphaned, stream, page, feed, missed>>,
           DeltaSays', agent' \in {"idle", "running"} => agent \in {"idle", "running"},
           UNCHANGED <<script, started>> \/ ~wrote
    PROVE  PageInv'
<1>1. FrameTypes' /\ OneRow' /\ OneBubble'
  BY DEF PageInv, FrameTypes, OneRow, OneBubble
<1>2. CallWritten' /\ EndedKnown'
  BY DEF PageInv, CallWritten, RowAt, EndedKnown
<1>3. EndedTold'
  BY DEF PageInv, EndedTold, HasEnded
<1>4. \A i : Starting(i)' <=> Starting(i)
  BY DEF Starting
<1>5. \A i : Pending(i)' <=> Pending(i)
  BY DEF Pending
<1>6. \A i : Brought(i)' <=> Brought(i)
  BY DEF Brought, Says, BubblesOf
<1>7. \A i, r : UpToDate(i, r)' <=> UpToDate(i, r)
  BY DEF UpToDate, Says, BubblesOf, Tells
<1>8. Told'
  BY <1>4, <1>5, <1>6, <1>7 DEF PageInv, Told
<1> QED
  BY <1>1, <1>2, <1>3, <1>8 DEF PageInv

\* The steps of the page leave the worker alone.
LEMMA PageAlone ==
    ASSUME PageInv, UNCHANGED <<sinkVars, Around>>
    PROVE  /\ DeltaSays' /\ OneRow' /\ CallWritten' /\ EndedKnown'
           /\ \A i : HasEnded(i)' <=> HasEnded(i)
           /\ \A i : Starting(i)' <=> Starting(i)
           /\ \A i : Pending(i)' <=> Pending(i)
           /\ UNCHANGED <<events, orphaned>>
<1>1. UNCHANGED <<events, script, wrote, started, completed, agent, orphaned>>
  BY DEF sinkVars, Around
<1>2. DeltaSays' /\ OneRow' /\ CallWritten' /\ EndedKnown'
  BY <1>1 DEF PageInv, DeltaSays, OneRow, CallWritten, RowAt, EndedKnown
<1>3. \A i : /\ HasEnded(i)' <=> HasEnded(i)
             /\ Starting(i)' <=> Starting(i)
             /\ Pending(i)' <=> Pending(i)
  BY <1>1 DEF HasEnded, Starting, Pending
<1> QED
  BY <1>1, <1>2, <1>3

\* A frame is reduced.
LEMMA PageReduces ==
    ASSUME StageInv, PageInv, ReduceFrame, UNCHANGED Around PROVE PageInv'
<1>1. PICK f : f = Head(feed)
  OBVIOUS
<1>2. /\ feed # <<>> /\ page' = Reduced(f) /\ feed' = Tail(feed)
      /\ UNCHANGED <<sinkVars, Around, stream, missed>>
  BY <1>1 DEF ReduceFrame
<1>3. /\ DeltaSays' /\ OneRow' /\ CallWritten' /\ EndedKnown'
      /\ \A i : HasEnded(i)' <=> HasEnded(i)
      /\ \A i : Starting(i)' <=> Starting(i)
      /\ \A i : Pending(i)' <=> Pending(i)
      /\ UNCHANGED <<events, orphaned>>
  BY <1>2, PageAlone
<1>4. FrameTypes /\ OneBubble /\ EndedTold /\ OneRow /\ Told
  BY DEF PageInv
<1>5. /\ f \in SinkCalls /\ 1 \in DOMAIN feed /\ f = feed[1]
  BY <1>1, <1>2, <1>4 DEF FrameTypes
<1>6. (f.op = "complete" <=> Ended(f.status)) /\ (f.op = "delta" => f.payload # Nothing)
  BY <1>4, <1>5 DEF FrameTypes
<1>7. Retold(f)
  BY <1>2, <1>4, <1>5, <1>6, ReduceRetold
<1>8. /\ feed' \in Seq(SinkCalls)
      /\ \A k \in DOMAIN feed' : k + 1 \in DOMAIN feed /\ feed'[k] = feed[k + 1]
  BY <1>1, <1>2, <1>4, <1>5, <1>7, FrameRead DEF SinkCalls
<1>9. FrameTypes' /\ OneBubble'
  <2>1. stream = "open"
    BY <1>2, <1>4 DEF FrameTypes
  <2> QED
    BY <1>2, <1>4, <1>7, <1>8, <2>1 DEF FrameTypes, Retold
<1>10. EndedTold'
  <2>1. ASSUME NEW k \in DOMAIN page', Ended(page'[k].status) PROVE HasEnded(page'[k].item)
    BY <1>4, <1>5, <1>7, <2>1 DEF Retold, EndedTold
  <2>2. ASSUME NEW k \in DOMAIN feed', feed'[k].op = "complete" PROVE HasEnded(feed'[k].item)
    BY <1>4, <1>8, <2>2 DEF EndedTold
  <2>3. \A i : HasEnded(i) => \E m \in DOMAIN events' : events'[m].item = i /\ Ended(events'[m].status)
    BY <1>3 DEF HasEnded
  <2> QED
    BY <2>1, <2>2, <2>3 DEF EndedTold, HasEnded
<1>11. Told'
  <2> SUFFICES ASSUME stream # "off", NEW m \in DOMAIN events, NEW i, i = events[m].item,
                      NEW r, r = events[m], i \notin missed \cup orphaned, ~Starting(i)
               PROVE  Brought(i)' /\ (~Pending(i) => UpToDate(i, r)')
    BY <1>2, <1>3 DEF Told
  <2>1. i \in Items
    <3>1. events[m] \in EventRows
      BY DEF StageInv, FeedTypes
    <3> QED
      BY <3>1 DEF EventRows
  <2>2. Brought(i) /\ (~Pending(i) => UpToDate(i, r))
    BY <1>4 DEF Told
  <2>3. \A k \in BubblesOf(i) : Ended(page[k].status) => Ended(r.status)
    BY <1>4 DEF BubblesOf, EndedTold, HasEnded, OneRow
  <2> QED
    BY <1>1, <1>2, <1>4, <1>7, <2>1, <2>2, <2>3, FrameRead
<1> QED
  BY <1>3, <1>9, <1>10, <1>11 DEF PageInv

\* The page loads the rows, opens its stream or loses it.
LEMMA PageReloads ==
    ASSUME StageInv, PageInv, ReadRows \/ Subscribe \/ LoadPage \/ DropStream, UNCHANGED Around
    PROVE  PageInv'
<1>1. UNCHANGED <<sinkVars, Around>>
  BY DEF ReadRows, Subscribe, LoadPage, DropStream
<1>2. /\ DeltaSays' /\ OneRow' /\ CallWritten' /\ EndedKnown'
      /\ \A i : HasEnded(i)' <=> HasEnded(i)
      /\ \A i : Starting(i)' <=> Starting(i)
      /\ \A i : Pending(i)' <=> Pending(i)
      /\ UNCHANGED <<events, orphaned>>
  BY <1>1, PageAlone
<1>3. FrameTypes /\ OneBubble /\ EndedTold /\ OneRow /\ Told
  BY DEF PageInv
<1>4. events \in Seq(EventRows)
  BY DEF StageInv, FeedTypes
<1>5. CASE ReadRows
  <2>1. /\ stream = "off" /\ page' = events /\ feed' = <<>> /\ stream' = "gap" /\ feed = <<>>
    BY <1>3, <1>5 DEF ReadRows, FrameTypes
  <2>2. FrameTypes'
    BY <1>4, <2>1 DEF FrameTypes
  <2>3. OneBubble'
    BY <1>3, <2>1 DEF OneBubble, OneRow
  <2>4. EndedTold'
    BY <1>2, <2>1 DEF EndedTold, HasEnded
  <2>5. ASSUME NEW m \in DOMAIN events, NEW i, i = events[m].item, NEW r, r = events[m]
        PROVE  Brought(i)' /\ UpToDate(i, r)'
    <3>1. m \in BubblesOf(i)' /\ page'[m] = r /\ Says(i)' = {}
      BY <2>1, <2>5 DEF BubblesOf, Says
    <3>2. Tells(page'[m], r)
      BY <3>1 DEF Tells
    <3> QED
      BY <3>1, <3>2 DEF Brought, UpToDate, Tells
  <2>6. Told'
    BY <1>2, <2>5 DEF Told
  <2> QED
    BY <1>2, <2>2, <2>3, <2>4, <2>6 DEF PageInv
<1>6. CASE Subscribe
  <2>1. UNCHANGED <<page, feed, missed>> /\ stream = "gap" /\ stream' = "open"
    BY <1>6 DEF Subscribe
  <2>2. FrameTypes' /\ OneBubble'
    BY <1>3, <2>1 DEF FrameTypes, OneBubble
  <2>3. EndedTold'
    BY <1>2, <1>3, <2>1 DEF EndedTold, HasEnded
  <2>4. \A i : /\ Brought(i)' <=> Brought(i)
               /\ \A r : UpToDate(i, r)' <=> UpToDate(i, r)
    BY <2>1 DEF Brought, UpToDate, Says, BubblesOf, Tells
  <2>5. Told'
    BY <1>2, <1>3, <2>1, <2>4 DEF Told
  <2> QED
    BY <1>2, <2>2, <2>3, <2>5 DEF PageInv
<1>7. CASE LoadPage
  <2>1. stream' = "off" /\ page' = <<>> /\ feed' = <<>>
    BY <1>7 DEF LoadPage
  <2>2. FrameTypes' /\ OneBubble' /\ EndedTold' /\ Told'
    BY <2>1 DEF FrameTypes, OneBubble, EndedTold, Told
  <2> QED
    BY <1>2, <2>2 DEF PageInv
<1>8. CASE DropStream
  <2>1. /\ stream = "open" /\ stream' = "gap" /\ feed' = <<>> /\ UNCHANGED page
        /\ missed' = missed \cup {feed[k].item : k \in DOMAIN feed}
    BY <1>8 DEF DropStream
  <2>2. FrameTypes' /\ OneBubble'
    BY <1>3, <2>1 DEF FrameTypes, OneBubble
  <2>3. EndedTold'
    BY <1>2, <1>3, <2>1 DEF EndedTold, HasEnded
  <2>4. ASSUME NEW i, i \notin missed' PROVE Says(i) = {} /\ Says(i)' = {} /\ i \notin missed
    BY <2>1, <2>4 DEF Says
  <2>5. ASSUME NEW i, i \notin missed'
        PROVE  /\ Brought(i) => Brought(i)'
               /\ \A r : UpToDate(i, r) => UpToDate(i, r)'
    BY <2>1, <2>4, <2>5 DEF Brought, UpToDate, BubblesOf, Tells
  <2>6. Told'
    <3> SUFFICES ASSUME NEW m \in DOMAIN events, NEW i, i = events[m].item, NEW r, r = events[m],
                        i \notin missed' \cup orphaned, ~Starting(i)
                 PROVE  Brought(i)' /\ (~Pending(i) => UpToDate(i, r)')
      BY <1>2 DEF Told
    <3>1. Brought(i) /\ (~Pending(i) => UpToDate(i, r))
      BY <1>3, <2>1, <2>4 DEF Told
    <3> QED
      BY <2>5, <3>1
  <2> QED
    BY <1>2, <2>2, <2>3, <2>6 DEF PageInv
<1> QED
  BY <1>5, <1>6, <1>7, <1>8

\* The interrupt cuts the call being made, and the page may miss its frame.
LEMMA PageInterrupted ==
    ASSUME StageInv, PageInv, Interrupt, turn = "none", UNCHANGED turn PROVE PageInv'
<1>1. /\ agent = "running" /\ CallCut /\ wrote' = FALSE /\ agent' = "finalizing"
      /\ script' = Finalizing("failed", Nothing)
      /\ UNCHANGED <<started, completed, stream, page>>
  BY DEF Interrupt, FinalizeAll
<1>2. EndedKnown'
  BY <1>1 DEF EndedKnown
<1>3. DeltaSays'
  <2>1. Closers(script', 1..4)
    BY <1>1, FinalizingEffect
  <2> QED
    BY <2>1 DEF Closers, DeltaSays
<1>4. CASE UNCHANGED <<events, feed, missed, orphaned>> /\ ~wrote
  <2>1. wrote' = wrote
    BY <1>1, <1>4 DEF StageInv, FeedTypes
  <2> QED
    BY <1>1, <1>3, <1>4, <2>1, PageAside
<1>5. ASSUME NEW c, c = Head(script), script # <<>>,
             IF wrote THEN UNCHANGED events ELSE events' = Written(c),
             orphaned' = IF c.op = "start" THEN orphaned \cup {c.item} ELSE orphaned,
             \/ missed' = missed \cup {c.item} /\ UNCHANGED feed
             \/ wrote /\ stream = "open" /\ feed' = Append(feed, FrameOf(c)) /\ UNCHANGED missed
      PROVE  PageInv'
  <2>1. CASE wrote
    <3>1. FrameTypes' /\ OneRow' /\ OneBubble' /\ CallWritten' /\ EndedTold' /\ Told'
      BY <1>1, <1>5, <2>1, CallOver
    <3> QED
      BY <1>2, <1>3, <3>1 DEF PageInv
  <2>2. CASE ~wrote
    <3>1. events' = Written(c) /\ missed' = missed \cup {c.item} /\ UNCHANGED feed
      BY <1>5, <2>2
    <3>2. OneRow' /\ RowsStay(c) /\ \A i : HasEnded(i) => HasEnded(i)'
      BY <1>5, <2>2, <3>1, RowWritten
    <3>3. FrameTypes' /\ OneBubble' /\ CallWritten'
      BY <1>1, <3>1 DEF PageInv, FrameTypes, OneBubble, CallWritten
    <3>4. EndedTold'
      BY <1>1, <3>1, <3>2 DEF PageInv, EndedTold
    <3>5. Told'
      <4> SUFFICES ASSUME stream # "off", NEW m \in DOMAIN events', NEW i, i = events'[m].item,
                          NEW r, r = events'[m], i \notin missed' \cup orphaned'
                   PROVE  Brought(i)' /\ UpToDate(i, r)'
        BY <1>1 DEF Told
      <4>1. i # c.item /\ i \notin missed \cup orphaned
        BY <1>5, <3>1
      <4>2. m \in DOMAIN events /\ events[m] = r
        BY <3>2, <4>1 DEF RowsStay
      <4>3. Brought(i) /\ UpToDate(i, r)
        BY <2>2, <4>1, <4>2 DEF PageInv, Told, Starting, Pending
      <4> QED
        BY <1>1, <3>1, <4>3 DEF Brought, UpToDate, Says, BubblesOf, Tells
    <3> QED
      BY <1>2, <1>3, <3>2, <3>3, <3>4, <3>5 DEF PageInv
  <2> QED
    BY <2>1, <2>2
<1> QED
  <2>1. script = <<>> => ~wrote
    BY DEF StageInv, FeedTypes
  <2> QED
    BY <1>1, <1>4, <1>5, <2>1 DEF CallCut

\* The callback's update of the references says that they are being scored.
LEMMA EnterNodeSays == ASSUME StageInv, EnterNode PROVE DeltaSays'
<1>1. script' = OnChainStart(node) /\ node \in Nodes
  BY DEF EnterNode, StageInv, Control
<1>2. CASE StageOf(node) = 0
  BY <1>1, <1>2 DEF OnChainStart, DeltaSays
<1>3. CASE StageOf(node) # 0
  <2>1. PICK a : a = ClosedByNext(node)
    OBVIOUS
  <2>2. PICK b : b = Opened(node)
    OBVIOUS
  <2>3. script' = a \o b
    BY <1>1, <1>3, <2>1, <2>2 DEF OnChainStart
  <2>4. StageOf(node) \in 1..4 /\ Closers(a, 1..(StageOf(node) - 1))
    BY <1>1, <1>3, <2>1, ClosedByNextEffect
  <2>5. a \in Seq(SinkCalls) /\ Len(a) \in Nat /\ \A p \in 1..Len(a) : a[p].op = "complete"
    BY <2>4 DEF Closers
  <2>6. /\ b \in Seq(SinkCalls) /\ Len(b) \in Nat
        /\ \A p \in 1..Len(b) : b[p].op = "delta" => b[p].payload # Nothing
    <3> DEFINE i == Stages[StageOf(node)]
    <3>1. i \in Items
      BY <2>4, StageFacts
    <3> HIDE DEF i
    <3>2. /\ \A p \in {Nothing, "searching"} : Start(i, p) \in SinkCalls /\ Start(i, p).op # "delta"
          /\ Delta(i, "scoring") \in SinkCalls /\ Delta(i, "scoring").payload # Nothing
      BY <3>1 DEF Start, Delta, Call, SinkCalls, Payloads, Statuses, Nothing
    <3>3. \/ b = <<>> \/ b = <<Delta(i, "scoring")>>
          \/ \E p \in {Nothing, "searching"} : b = <<Start(i, p)>>
      BY <2>2 DEF Opened, i
    <3>4. ASSUME NEW c \in SinkCalls, c.op = "delta" => c.payload # Nothing, b = <<c>>
          PROVE  /\ b \in Seq(SinkCalls) /\ Len(b) \in Nat
                 /\ \A p \in 1..Len(b) : b[p].op = "delta" => b[p].payload # Nothing
      BY <3>4
    <3>5. CASE b = <<>>
      BY <3>5
    <3>6. CASE b = <<Delta(i, "scoring")>>
      BY <3>2, <3>4, <3>6
    <3>7. ASSUME NEW p \in {Nothing, "searching"}, b = <<Start(i, p)>>
          PROVE  /\ b \in Seq(SinkCalls) /\ Len(b) \in Nat
                 /\ \A q \in 1..Len(b) : b[q].op = "delta" => b[q].payload # Nothing
      <4>1. Start(i, p) \in SinkCalls /\ Start(i, p).op # "delta"
        BY <3>2
      <4> QED
        BY <3>4, <3>7, <4>1
    <3> QED
      BY <3>3, <3>5, <3>6, <3>7
  <2>7. /\ DOMAIN script' = 1..(Len(a) + Len(b))
        /\ \A p \in 1..(Len(a) + Len(b)) : script'[p] = IF p <= Len(a) THEN a[p] ELSE b[p - Len(a)]
    BY <2>3, <2>5, <2>6, ConcatProperties
  <2>8. ASSUME NEW p \in DOMAIN script' PROVE script'[p].op = "delta" => script'[p].payload # Nothing
    <3>1. \/ p \in 1..Len(a) /\ script'[p] = a[p]
          \/ p - Len(a) \in 1..Len(b) /\ script'[p] = b[p - Len(a)]
      BY <2>5, <2>6, <2>7
    <3> QED
      BY <2>5, <2>6, <3>1
  <2> QED
    BY <2>8 DEF DeltaSays
<1> QED
  BY <1>2, <1>3

\* The agent and the graph on their way from call to call.
LEMMA PageDiscovers ==
    ASSUME StageInv, PageInv, turn = "none", DiscoveryStep, UNCHANGED turn PROVE PageInv'
<1>1. StageInv'
  BY DiscoveryKeeps
<1>2. ASSUME Run \/ RunGraph \/ Finalized \/ Persist PROVE PageInv'
  <2>1. /\ UNCHANGED <<sinkVars, stream, page, feed, missed, orphaned>>
        /\ agent' \in {"idle", "running"} => agent \in {"idle", "running"}
    BY <1>2 DEF Run, RunGraph, Finalized, Persist, feedVars, pageVars, agentVars
  <2>2. UNCHANGED <<events, wrote, completed, script, started>>
    BY <2>1 DEF sinkVars
  <2>3. DeltaSays'
    BY <2>2 DEF PageInv, DeltaSays
  <2> QED
    BY <2>1, <2>2, <2>3, PageAside
<1>3. ASSUME EnterNode PROVE PageInv'
  <2>1. /\ UNCHANGED <<events, wrote, completed, orphaned, stream, page, feed, missed, agent>>
        /\ agent = "running" /\ at = "enter"
    BY <1>3 DEF EnterNode, pageVars, agentVars
  <2>2. ~wrote
    BY <2>1 DEF StageInv, FeedTypes, Control
  <2> QED
    BY <1>3, <2>1, <2>2, EnterNodeSays, PageAside
<1>4. ASSUME GraphEnds PROVE PageInv'
  <2>1. /\ UNCHANGED <<events, wrote, completed, orphaned, stream, page, feed, missed>>
        /\ agent = "running" /\ at # "body" /\ agent' = "finalizing"
    BY <1>4 DEF GraphEnds, FinalizeAll, pageVars
  <2>2. ~wrote
    BY <2>1 DEF StageInv, FeedTypes, Control
  <2>3. DeltaSays'
    BY <1>1, <2>1 DEF StageInv, Control, DeltaSays
  <2> QED
    BY <2>1, <2>2, <2>3, PageAside
<1> QED
  BY <1>2, <1>3, <1>4 DEF DiscoveryStep

\* The codex run makes no call that updates a stage.
LEMMA PageCodes == ASSUME StageInv, PageInv, CodexStep PROVE PageInv'
<1>1. StageInv'
  BY CodexStepKeeps
<1>2. CASE BeginTurn \/ TurnEnds
  <2>1. /\ UNCHANGED <<sinkVars, stream, page, feed, missed, orphaned, agent>>
    BY <1>2 DEF BeginTurn, TurnEnds, feedVars, pageVars, agentVars
  <2>2. UNCHANGED <<events, wrote, completed, script, started>>
    BY <2>1 DEF sinkVars
  <2>3. DeltaSays'
    BY <2>2 DEF PageInv, DeltaSays
  <2> QED
    BY <2>1, <2>2, <2>3, PageAside
<1>3. ASSUME NEW cs, Calls(cs) PROVE PageInv'
  <2>1. /\ UNCHANGED <<events, wrote, completed, orphaned, stream, page, feed, missed, agent, turn>>
        /\ turn = "running" /\ script = <<>>
    BY <1>3 DEF Calls, pageVars, agentVars
  <2>2. ~wrote /\ agent \in {"idle", "returned"}
    BY <2>1 DEF StageInv, FeedTypes, Control
  <2>3. DeltaSays'
    BY <1>1, <2>1, <2>2 DEF StageInv, Control, DeltaSays
  <2> QED
    BY <2>1, <2>2, <2>3, PageAside
<1> QED
  BY <1>2, <1>3 DEF CodexStep, OnItemStarted, OnMessageDelta, OnItemCompleted

\* No row, no bubble.
LEMMA PageInit == ASSUME Init PROVE PageInv
<1>1. /\ events = <<>> /\ script = <<>> /\ wrote = FALSE /\ stream = "gap" /\ page = <<>> /\ feed = <<>>
  BY DEF Init, DiscoveryInit, FeedInit
<1>2. page \in Seq(EventRows) /\ feed \in Seq(SinkCalls)
  BY <1>1
<1>3. ~wrote
  BY <1>1
<1> QED
  BY <1>1, <1>2, <1>3 DEF PageInv, FrameTypes, DeltaSays, OneRow, OneBubble, CallWritten, EndedTold, EndedKnown, Told

\* Every step.
LEMMA PageKept == ASSUME StageInv, PageInv, [Next]_vars PROVE PageInv'
<1>1. CASE turn = "none" /\ (DiscoveryStep \/ Interrupt) /\ UNCHANGED turn
  BY <1>1, PageDiscovers, PageInterrupted
<1>2. CASE FeedNext /\ UNCHANGED <<graphVars, agentVars, turn>>
  <2>1. UNCHANGED Around
    BY <1>2 DEF Around, graphVars, agentVars
  <2> QED
    BY <1>2, <2>1, PageWrite, PageNote, PageReduces, PageReloads DEF FeedNext, SinkStep, PageStep
<1>3. CASE CodexStep
  BY <1>3, PageCodes
<1>4. CASE UNCHANGED vars
  <2>1. UNCHANGED <<sinkVars, stream, page, feed, missed, orphaned, agent>>
    BY <1>4 DEF vars, feedVars, pageVars, agentVars
  <2>2. UNCHANGED <<events, wrote, completed, script, started>>
    BY <2>1 DEF sinkVars
  <2>3. DeltaSays'
    BY <2>2 DEF PageInv, DeltaSays
  <2> QED
    BY <2>1, <2>2, <2>3, PageAside
<1> QED
  BY <1>1, <1>2, <1>3, <1>4 DEF Next

\* What the page shows, what is on its way to it and what it has missed account
\* for every row, always: DbEventSink, loadProject and useSessionEventHandler.
THEOREM PageInvHolds == Spec => []PageInv
<1>1. Init => PageInv
  BY PageInit
<1>2. StageInv /\ PageInv /\ [Next]_vars => PageInv'
  BY PageKept
<1> QED
  BY <1>1, <1>2, StageInvHolds, PTL DEF Spec

\* A page that has read its frames shows the rows, whatever was lost, reloaded or
\* interrupted, but for items with a frame it has missed and the text of an open message.
THEOREM PageTellsRowsHolds == Spec => []PageTellsRows
<1>1. ASSUME StageInv, PageInv PROVE PageTellsRows
  <2> SUFFICES ASSUME stream = "open", feed = <<>>, script = <<>>,
                      NEW i \in Items \ (missed \cup orphaned), RowsOf(i) # {}
               PROVE  \E k \in BubblesOf(i) :
                         /\ BubblesOf(i) = {k} /\ Cardinality(RowsOf(i)) = 1
                         /\ Ended(page[k].status) <=> Ended(RowOf(i).status)
                         /\ page[k].payload = RowOf(i).payload
                                \/ (i \in Messages /\ ~Ended(RowOf(i).status))
    BY DEF PageTellsRows
  <2>1. PICK m \in DOMAIN events : events[m].item = i /\ RowOf(i) = events[m]
    BY RowOfShows
  <2>2. RowsOf(i) = {m}
    BY <1>1, <2>1 DEF RowsOf, PageInv, OneRow
  <2>3. ~Starting(i) /\ ~Pending(i)
    BY <1>1 DEF StageInv, FeedTypes, Starting, Pending
  <2>4. UpToDate(i, events[m])
    BY <1>1, <2>1, <2>3 DEF PageInv, Told
  <2>5. PICK k \in BubblesOf(i) : Tells(page[k], events[m])
    BY <2>4 DEF UpToDate, Says
  <2>6. BubblesOf(i) = {k}
    BY <1>1, <2>5 DEF BubblesOf, PageInv, OneBubble
  <2>7. Cardinality(RowsOf(i)) = 1
    BY <2>2, FS_Singleton
  <2> QED
    BY <2>1, <2>5, <2>6, <2>7 DEF Tells
<1> QED
  BY <1>1, StageInvHolds, PageInvHolds, PTL

-----------------------------------------------------------------------------
(* The refinement of the board.                                            *)

HasRow(i)    == \E m \in DOMAIN events : events[m].item = i
HasBubble(i) == \E k \in DOMAIN page : page[k].item = i
ShownEnded(i) == \E k \in DOMAIN page : page[k].item = i /\ Ended(page[k].status)

\* What the page shows or is told of is on record.
Recorded ==
    /\ \A k \in DOMAIN page : HasRow(page[k].item)
    /\ \A k \in DOMAIN feed : feed[k].op # "text" => HasRow(feed[k].item)

\* The frame that starts an item is read before any that says that it has ended.
NoLateStart ==
    \A k \in DOMAIN feed : feed[k].op = "start" =>
        /\ ~ShownEnded(feed[k].item)
        /\ \A j \in 1..(k - 1) : feed[j].item = feed[k].item => feed[j].op # "complete"

BoardInv == Recorded /\ NoLateStart

\* What a step may do to rows, bubbles and frames.
LEMMA BoardMoves ==
    ASSUME [Next]_vars
    PROVE  \/ UNCHANGED <<events, page>> /\ (UNCHANGED feed \/ feed' = <<>>)
           \/ /\ UNCHANGED <<events, page>>
              /\ wrote /\ feed' = Append(feed, FrameOf(Head(script)))
           \/ /\ UNCHANGED <<page, feed>>
              /\ ~wrote /\ script # <<>> /\ events' = Written(Head(script))
           \/ ReduceFrame
           \/ ReadRows
           \/ LoadPage
<1>1. CASE FeedNext
  BY <1>1 DEF FeedNext, SinkStep, PageStep, WriteRow, Publish, PublishRaises, Noted,
     Subscribe, DropStream, sinkVars, pageVars
<1>2. CASE DiscoveryStep
  BY <1>2 DEF DiscoveryStep, Run, EnterNode, RunGraph, GraphEnds, Finalized, Persist,
     feedVars, sinkVars, pageVars
<1>3. CASE Interrupt
  BY <1>3 DEF Interrupt, CallCut
<1>4. CASE CodexStep
  BY <1>4 DEF CodexStep, BeginTurn, TurnEnds, OnItemStarted, OnMessageDelta,
     OnItemCompleted, Calls, feedVars, sinkVars, pageVars
<1>5. CASE UNCHANGED vars
  BY <1>5 DEF vars, feedVars, sinkVars, pageVars
<1> QED
  BY <1>1, <1>2, <1>3, <1>4, <1>5 DEF Next

\* The frame that is read.
LEMMA FrameIsRead ==
    ASSUME PageInv, ReduceFrame, NEW f, f = Head(feed)
    PROVE  /\ Retold(f) /\ f \in SinkCalls
           /\ 1 \in DOMAIN feed /\ f = feed[1] /\ UNCHANGED events
           /\ DOMAIN feed' = 1..Len(feed') /\ Len(feed') \in Nat
           /\ \A k \in DOMAIN feed' :
                 k \in Nat /\ k + 1 \in DOMAIN feed /\ feed'[k] = feed[k + 1]
           /\ f.op = "complete" <=> Ended(f.status)
<1>1. FrameTypes /\ OneBubble
  BY DEF PageInv
<1>2. feed # <<>> /\ page' = Reduced(f) /\ feed' = Tail(feed) /\ UNCHANGED events
  BY DEF ReduceFrame, sinkVars
<1>3. f \in SinkCalls /\ 1 \in DOMAIN feed /\ f = feed[1]
  BY <1>1, <1>2 DEF FrameTypes
<1>4. (f.op = "complete" <=> Ended(f.status)) /\ (f.op = "delta" => f.payload # Nothing)
  BY <1>1, <1>3 DEF FrameTypes
<1>5. /\ DOMAIN feed' = 1..Len(feed') /\ Len(feed') \in Nat
      /\ \A k \in DOMAIN feed' :
            k \in Nat /\ k + 1 \in DOMAIN feed /\ feed'[k] = feed[k + 1]
  <2>1. feed \in Seq(SinkCalls)
    BY <1>1 DEF FrameTypes
  <2> QED
    BY <1>2, <2>1, HeadTailProperties
<1> QED
  BY <1>1, <1>2, <1>3, <1>4, <1>5, ReduceRetold

\* How its bubbles change, item by item.
LEMMA BubblesMove ==
    ASSUME PageInv, ReduceFrame, NEW f, f = Head(feed), NEW i \in Items
    PROVE  /\ i # f.item \/ f.op \in {"text", "delta"} =>
                 (HasBubble(i)' <=> HasBubble(i)) /\ (ShownEnded(i)' <=> ShownEnded(i))
           /\ i = f.item /\ f.op \in {"start", "complete"} =>
                 HasBubble(i)' /\ (ShownEnded(i)' <=> f.op = "complete")
<1>1. Retold(f) /\ f \in SinkCalls /\ (f.op = "complete" <=> Ended(f.status))
  BY FrameIsRead
<1>2. CASE i # f.item \/ f.op = "text"
  <2>1. BubblesStay(i)
    BY <1>1, <1>2 DEF Retold
  <2> QED
    BY <1>1, <1>2, <2>1 DEF BubblesStay, BubblesOf, HasBubble, ShownEnded, SinkCalls
<1>3. CASE i = f.item /\ f.op = "delta"
  <2>1. BubblesOf(i)' = BubblesOf(i) /\ \A k \in BubblesOf(i) : page'[k].status = page[k].status
    BY <1>1, <1>3 DEF Retold
  <2> QED
    BY <1>3, <2>1 DEF BubblesOf, HasBubble, ShownEnded
<1>4. CASE i = f.item /\ f.op \in {"start", "complete"}
  <2>1. PICK k : BubblesOf(i)' = {k} /\ (Ended(page'[k].status) <=> Ended(f.status))
    BY <1>1, <1>4 DEF Retold
  <2> QED
    BY <1>1, <1>4, <2>1 DEF BubblesOf, HasBubble, ShownEnded
<1> QED
  BY <1>1, <1>2, <1>3, <1>4 DEF SinkCalls

\* A row that is written is a new one, or that of an item which has one.
LEMMA RowsMove ==
    ASSUME StageInv, PageInv, script # <<>>, ~wrote, NEW c, c = Head(script),
           events' = Written(c)
    PROVE  /\ \A i : i # c.item => (HasRow(i)' <=> HasRow(i)) /\ (HasEnded(i)' <=> HasEnded(i))
           /\ \A i : (HasRow(i) => HasRow(i)') /\ (HasEnded(i) => HasEnded(i)')
           /\ c.op = "start" => ~HasRow(c.item) /\ ~HasEnded(c.item)'
           /\ c.op # "start" => HasRow(c.item)
<1>1. /\ c = script[1] /\ c \in SinkCalls /\ 1 \in DOMAIN script
      /\ DOMAIN events = 1..Len(events) /\ Len(events) \in Nat
  BY HeadOfScript DEF StageInv
<1>2. /\ OneRow' /\ RowsStay(c) /\ \A i : HasEnded(i) => HasEnded(i)'
      /\ c.op # "text" => LET n == IF c.op = "start" THEN Len(events') ELSE started[c.item] IN
            /\ n \in DOMAIN events' /\ events'[n].item = c.item /\ events'[n].status = c.status
            /\ c.op = "start" => events'[n].payload = c.payload
            /\ c.op = "delta" => events'[n].payload # Nothing
  BY RowWritten
<1>3. Wrote(c)
  BY WrittenEffect DEF StageInv
<1>4. \A m \in DOMAIN events : m \in DOMAIN events' /\ events'[m].item = events[m].item
  BY <1>3 DEF Wrote
<1>5. \A i : HasRow(i) => HasRow(i)'
  BY <1>4 DEF HasRow
<1>6. ASSUME NEW i, i # c.item
      PROVE  (HasRow(i)' <=> HasRow(i)) /\ (HasEnded(i)' <=> HasEnded(i))
  <2>1. \A m \in DOMAIN events' : events'[m].item = i => m \in DOMAIN events /\ events'[m] = events[m]
    BY <1>2, <1>6 DEF RowsStay
  <2> QED
    BY <1>2, <1>5, <2>1 DEF HasRow, HasEnded
<1>7. ASSUME c.op = "start" PROVE ~HasRow(c.item) /\ ~HasEnded(c.item)'
  <2>1. started[c.item] = 0 /\ c.item \notin orphaned /\ ~Ended(c.status)
    BY <1>1, <1>7 DEF StageInv, ScriptSound
  <2>2. ~HasRow(c.item)
    BY <1>1, <2>1 DEF StageInv, RowsKnown, Starting, HasRow
  <2>3. ~HasEnded(c.item)'
    BY <1>2, <1>7, <2>1 DEF OneRow, HasEnded
  <2> QED
    BY <2>2, <2>3
<1>8. ASSUME c.op # "start" PROVE HasRow(c.item)
  <2>1. started[c.item] # 0 /\ c.item \in Items
    BY <1>1, <1>8 DEF StageInv, ScriptSound, SinkCalls
  <2> QED
    BY <2>1 DEF StageInv, RowsKnown, HasRow
<1> QED
  BY <1>2, <1>5, <1>6, <1>7, <1>8

\* The frame that joins the others is about a row, and one that starts an item
\* finds it neither shown to have ended nor about to be.
LEMMA FrameOnRecord ==
    ASSUME StageInv, PageInv, wrote, NEW c, c = Head(script)
    PROVE  /\ c.op # "text" => HasRow(c.item)
           /\ c.op = "start" => ~HasEnded(c.item)
<1>1. c = script[1] /\ c \in SinkCalls /\ 1 \in DOMAIN script
  <2>1. script # <<>>
    BY DEF StageInv, FeedTypes
  <2> QED
    BY <2>1, HeadOfScript DEF StageInv
<1>2. c.op # "text" => /\ RowAt(c) \in DOMAIN events /\ events[RowAt(c)].item = c.item
                       /\ events[RowAt(c)].status = c.status
  BY DEF PageInv, CallWritten
<1>3. c.op = "start" => ~Ended(c.status)
  BY <1>1 DEF StageInv, ScriptSound
<1> QED
  BY <1>2, <1>3 DEF PageInv, OneRow, HasRow, HasEnded

LEMMA BoardKept ==
    ASSUME StageInv, PageInv, BoardInv, [Next]_vars PROVE BoardInv'
<1> USE DEF BoardInv
<1>0. FrameTypes /\ EndedTold
  BY DEF PageInv
<1>1. CASE UNCHANGED <<events, page>> /\ (UNCHANGED feed \/ feed' = <<>>)
  BY <1>1 DEF Recorded, NoLateStart, HasRow, ShownEnded
<1>2. CASE /\ UNCHANGED <<events, page>> /\ wrote
           /\ feed' = Append(feed, FrameOf(Head(script)))
  <2>1. PICK c : c = Head(script)
    OBVIOUS
  <2>2. PICK f : f = FrameOf(c)
    OBVIOUS
  <2>3. f.op = c.op /\ f.item = c.item
    BY <1>2, <2>1, <2>2, FrameSays
  <2>4. (f.op # "text" => HasRow(f.item)) /\ (f.op = "start" => ~HasEnded(f.item))
    BY <1>2, <2>1, <2>3, FrameOnRecord
  <2>5. \A i : (HasRow(i)' <=> HasRow(i)) /\ (ShownEnded(i)' <=> ShownEnded(i))
    BY <1>2 DEF HasRow, ShownEnded
  <2>6. /\ DOMAIN feed = 1..Len(feed) /\ Len(feed) \in Nat
        /\ DOMAIN feed' = 1..(Len(feed) + 1) /\ feed'[Len(feed) + 1] = f
        /\ \A k \in DOMAIN feed : feed'[k] = feed[k]
    BY <1>0, <1>2, <2>1, <2>2, AppendProperties DEF FrameTypes
  <2>7. Recorded'
    BY <1>2, <2>4, <2>5, <2>6 DEF Recorded
  <2>8. NoLateStart'
    <3>1. ASSUME NEW k \in DOMAIN feed', feed'[k].op = "start", k \in DOMAIN feed
          PROVE  /\ \A i : i = feed'[k].item => ~ShownEnded(i)'
                 /\ \A j \in 1..(k - 1) : feed'[j].item = feed'[k].item => feed'[j].op # "complete"
      BY <2>5, <2>6, <3>1 DEF NoLateStart
    <3>2. ASSUME NEW k \in DOMAIN feed', feed'[k].op = "start", k \notin DOMAIN feed
          PROVE  /\ \A i : i = feed'[k].item => ~ShownEnded(i)'
                 /\ \A j \in 1..(k - 1) : feed'[j].item = feed'[k].item => feed'[j].op # "complete"
      <4>1. k = Len(feed) + 1 /\ feed'[k] = f
        BY <2>6, <3>2
      <4>2. ~HasEnded(f.item)
        BY <2>4, <3>2, <4>1
      <4>3. ~ShownEnded(f.item)
        BY <1>0, <4>2 DEF EndedTold, ShownEnded
      <4>4. \A j \in DOMAIN feed : feed[j].item = f.item => feed[j].op # "complete"
        BY <1>0, <4>2 DEF EndedTold
      <4> QED
        BY <2>5, <2>6, <4>1, <4>3, <4>4
    <3> QED
      BY <3>1, <3>2 DEF NoLateStart
  <2> QED
    BY <2>7, <2>8
<1>3. CASE /\ UNCHANGED <<page, feed>>
           /\ ~wrote /\ script # <<>> /\ events' = Written(Head(script))
  <2>1. \A i : HasRow(i) => HasRow(i)'
    BY <1>3, RowsMove
  <2> QED
    BY <1>3, <2>1 DEF Recorded, NoLateStart, ShownEnded
<1>4. CASE ReduceFrame
  <2>1. PICK f : f = Head(feed)
    OBVIOUS
  <2>2. /\ Retold(f) /\ f \in SinkCalls
        /\ 1 \in DOMAIN feed /\ f = feed[1] /\ UNCHANGED events
        /\ DOMAIN feed' = 1..Len(feed') /\ Len(feed') \in Nat
        /\ \A k \in DOMAIN feed' :
              k \in Nat /\ k + 1 \in DOMAIN feed /\ feed'[k] = feed[k + 1]
    BY <1>4, <2>1, FrameIsRead
  <2>3. \A i : HasRow(i)' <=> HasRow(i)
    BY <2>2 DEF HasRow
  <2>4. \A i \in Items :
           /\ i # f.item \/ f.op \in {"text", "delta"} =>
                 (HasBubble(i)' <=> HasBubble(i)) /\ (ShownEnded(i)' <=> ShownEnded(i))
           /\ i = f.item /\ f.op \in {"start", "complete"} =>
                 HasBubble(i)' /\ (ShownEnded(i)' <=> f.op = "complete")
    BY <1>4, <2>1, BubblesMove
  <2>5. f.op \in {"start", "text", "delta", "complete"}
    BY <2>2 DEF SinkCalls
  <2>6. ASSUME NEW k \in DOMAIN page' PROVE HasRow(page'[k].item)
    <3>1. PICK i \in Items : i = page'[k].item
      <4>1. page' \in Seq(EventRows)
        BY <2>2 DEF Retold
      <4>2. page'[k] \in EventRows
        BY <4>1
      <4> QED
        BY <4>2 DEF EventRows
    <3>2. HasBubble(i)'
      BY <3>1 DEF HasBubble
    <3>3. HasBubble(i) \/ (i = f.item /\ f.op # "text")
      BY <2>4, <2>5, <3>2
    <3> QED
      BY <2>2, <3>1, <3>3 DEF Recorded, HasBubble
  <2>7. ASSUME NEW k \in DOMAIN feed', feed'[k].op = "start"
        PROVE  /\ \A i : i = feed'[k].item => ~ShownEnded(i)'
               /\ \A j \in 1..(k - 1) : feed'[j].item = feed'[k].item => feed'[j].op # "complete"
    <3>1. k \in Nat /\ k + 1 \in DOMAIN feed /\ feed'[k] = feed[k + 1] /\ feed[k + 1].op = "start"
      BY <2>2, <2>7
    <3>2. /\ ~ShownEnded(feed[k + 1].item)
          /\ \A j \in 1..k : feed[j].item = feed[k + 1].item => feed[j].op # "complete"
      BY <3>1 DEF NoLateStart
    <3>3. k >= 1 /\ \A j \in 1..(k - 1) : j \in DOMAIN feed'
      BY <2>2, <2>7
    <3>4. feed[k + 1].item \in Items
      <4>1. feed[k + 1] \in SinkCalls
        BY <1>0, <3>1 DEF FrameTypes
      <4> QED
        BY <4>1 DEF SinkCalls
    <3>5. feed[k + 1].item = f.item => f.op # "complete"
      BY <2>2, <3>1, <3>2, <3>3
    <3>6. \A i : i = feed'[k].item => ~ShownEnded(i)'
      BY <2>4, <2>5, <3>1, <3>2, <3>4, <3>5
    <3>7. ASSUME NEW j \in 1..(k - 1), feed'[j].item = feed'[k].item PROVE feed'[j].op # "complete"
      <4>1. j + 1 \in 1..k /\ feed'[j] = feed[j + 1]
        BY <2>2, <3>1, <3>3
      <4> QED
        BY <3>1, <3>2, <3>7, <4>1
    <3> QED
      BY <3>6, <3>7
  <2> QED
    BY <2>2, <2>3, <2>6, <2>7 DEF Recorded, NoLateStart
<1>5. CASE ReadRows
  <2>1. page' = events /\ events' = events /\ feed' = <<>>
    BY <1>0, <1>5 DEF ReadRows, FrameTypes, sinkVars
  <2> QED
    BY <2>1 DEF Recorded, NoLateStart, HasRow
<1>6. CASE LoadPage
  BY <1>6 DEF LoadPage, Recorded, NoLateStart
<1> QED
  BY <1>1, <1>2, <1>3, <1>4, <1>5, <1>6, BoardMoves

\* How far rows and bubbles are, in the terms of the lemmas.
LEMMA FarMeans ==
    \A i : /\ HowFar(events, i) = IF HasEnded(i) THEN 2 ELSE IF HasRow(i) THEN 1 ELSE 0
           /\ HowFar(page, i) = IF ShownEnded(i) THEN 2 ELSE IF HasBubble(i) THEN 1 ELSE 0
           /\ HasEnded(i) => HasRow(i)
           /\ ShownEnded(i) => HasBubble(i)
BY DEF HowFar, HasEnded, HasRow, ShownEnded, HasBubble

LEMMA FarMeansNext ==
    \A i : /\ HowFar(events, i)' = IF HasEnded(i)' THEN 2 ELSE IF HasRow(i)' THEN 1 ELSE 0
           /\ HowFar(page, i)' = IF ShownEnded(i)' THEN 2 ELSE IF HasBubble(i)' THEN 1 ELSE 0
           /\ HasEnded(i)' => HasRow(i)'
           /\ ShownEnded(i)' => HasBubble(i)'
BY DEF HowFar, HasEnded, HasRow, ShownEnded, HasBubble

\* The rows and the bubbles by item.
RowsFar  == [i \in Items |-> HowFar(events, i)]
ShownFar == [i \in Items |-> HowFar(page, i)]

\* Every step is one of the board or none.
LEMMA BoardStep ==
    ASSUME StageInv, PageInv, BoardInv, BoardInv', PageInv', [Next]_vars
    PROVE  [Board!Next]_<<RowsFar, ShownFar>>
<1>1. CASE UNCHANGED <<events, page>>
  BY <1>1 DEF RowsFar, ShownFar, HowFar
<1>2. CASE /\ UNCHANGED <<page, feed>>
           /\ ~wrote /\ script # <<>> /\ events' = Written(Head(script))
  <2>1. PICK c \in SinkCalls : c = Head(script)
    BY <1>2, HeadOfScript DEF StageInv
  <2>2. /\ \A i : i # c.item => (HasRow(i)' <=> HasRow(i)) /\ (HasEnded(i)' <=> HasEnded(i))
        /\ \A i : (HasRow(i) => HasRow(i)') /\ (HasEnded(i) => HasEnded(i)')
        /\ c.op = "start" => ~HasRow(c.item) /\ ~HasEnded(c.item)'
        /\ c.op # "start" => HasRow(c.item)
    BY <1>2, <2>1, RowsMove
  <2>3. PICK i \in Items : i = c.item
    BY <2>1 DEF SinkCalls
  <2>4. \A j \in Items : j # i => HowFar(events, j)' = HowFar(events, j)
    BY <2>2, <2>3, FarMeans, FarMeansNext
  <2>5. /\ HowFar(events, i) \in 0..2
        /\ \/ HowFar(events, i)' = HowFar(events, i)
           \/ HowFar(events, i) < 2 /\ HowFar(events, i)' = HowFar(events, i) + 1
    BY <2>2, <2>3, FarMeans, FarMeansNext
  <2>6. UNCHANGED ShownFar
    BY <1>2 DEF ShownFar, HowFar
  <2>7. CASE HowFar(events, i)' = HowFar(events, i)
    BY <2>4, <2>6, <2>7 DEF RowsFar
  <2>8. CASE HowFar(events, i) < 2 /\ HowFar(events, i)' = HowFar(events, i) + 1
    <3>1. RowsFar[i] < 2 /\ RowsFar' = [RowsFar EXCEPT ![i] = @ + 1]
      BY <2>4, <2>8 DEF RowsFar
    <3>2. Board!Write(i)
      BY <2>6, <3>1 DEF Board!Write, RowsFar, ShownFar
    <3> QED
      BY <3>2 DEF Board!Next
  <2> QED
    BY <2>5, <2>7, <2>8
<1>3. CASE ReduceFrame
  <2>1. PICK f \in SinkCalls : f = Head(feed)
    BY <1>3, FrameIsRead
  <2>2. f = feed[1] /\ 1 \in DOMAIN feed /\ UNCHANGED events
    BY <1>3, <2>1, FrameIsRead
  <2>3. PICK i \in Items : i = f.item
    BY <2>1 DEF SinkCalls
  <2>4. \A j \in Items :
           /\ j # f.item \/ f.op \in {"text", "delta"} =>
                 (HasBubble(j)' <=> HasBubble(j)) /\ (ShownEnded(j)' <=> ShownEnded(j))
           /\ j = f.item /\ f.op \in {"start", "complete"} =>
                 HasBubble(j)' /\ (ShownEnded(j)' <=> f.op = "complete")
    BY <1>3, <2>1, BubblesMove
  <2>5. \A j \in Items : j # i => HowFar(page, j)' = HowFar(page, j)
    BY <2>3, <2>4, FarMeans, FarMeansNext
  <2>6. HowFar(page, i)' >= HowFar(page, i)
    <3>1. f.op = "start" => ~ShownEnded(i)
      BY <2>2, <2>3 DEF BoardInv, NoLateStart
    <3> QED
      BY <2>1, <2>3, <2>4, <3>1, FarMeans, FarMeansNext DEF SinkCalls
  <2>7. HowFar(page, i)' <= HowFar(events, i)'
    <3>1. (HasBubble(i)' => HasRow(i)') /\ (ShownEnded(i)' => HasEnded(i)')
      BY DEF BoardInv, Recorded, PageInv, EndedTold, HasBubble, ShownEnded, HasRow
    <3> QED
      BY <3>1, FarMeansNext
  <2>8. HowFar(events, i)' = HowFar(events, i) /\ UNCHANGED RowsFar
    BY <2>2 DEF HowFar, RowsFar
  <2>9. PICK far \in ShownFar[i]..RowsFar[i] : far = HowFar(page, i)'
    BY <2>6, <2>7, <2>8, FarMeans, FarMeansNext DEF ShownFar, RowsFar
  <2>10. ShownFar' = [ShownFar EXCEPT ![i] = far]
    BY <2>5, <2>9 DEF ShownFar
  <2>11. Board!Show(i)
    BY <2>8, <2>9, <2>10 DEF Board!Show, RowsFar, ShownFar
  <2> QED
    BY <2>11 DEF Board!Next
<1>4. CASE ReadRows
  <2>1. page' = events /\ events' = events
    BY <1>4 DEF ReadRows, sinkVars
  <2>2. Board!Load
    BY <2>1 DEF Board!Load, HowFar
  <2> QED
    BY <2>2 DEF Board!Next
<1>5. CASE LoadPage
  <2>1. page' = <<>> /\ events' = events
    BY <1>5 DEF LoadPage, sinkVars
  <2>2. Board!Leave
    BY <2>1 DEF Board!Leave, HowFar
  <2> QED
    BY <2>2 DEF Board!Next
<1> QED
  BY <1>1, <1>2, <1>3, <1>4, <1>5, BoardMoves

\* Whatever is lost, late, interrupted or loaded anew, an item begins once and ends
\* once, no bubble is ahead of its row, and the page takes nothing back of what it
\* has shown but by loading: DbEventSink and useSessionEventHandler.
THEOREM PageKeepsBoardHolds == Spec => PageKeepsBoard
<1>1. Init => Board!Init /\ BoardInv
  BY DEF Init, DiscoveryInit, FeedInit, Board!Init, HowFar, BoardInv, Recorded, NoLateStart
<1>2. StageInv /\ PageInv /\ BoardInv /\ [Next]_vars => BoardInv'
  BY BoardKept
<1>3. StageInv /\ PageInv /\ BoardInv /\ BoardInv' /\ PageInv' /\ [Next]_vars
      => [Board!Next]_Board!board
  BY BoardStep DEF Board!board, RowsFar, ShownFar
<1> QED
  BY <1>1, <1>2, <1>3, StageInvHolds, PageInvHolds, PTL
     DEF Spec, PageKeepsBoard, Board!Spec

-----------------------------------------------------------------------------
(* The rounds of questions.                                                *)

\* A round has begun whose answers the graph has not taken.
Asking == IF node = "clarifier_ask" THEN 1 ELSE 0

\* A message tells the clarifier something else than to emit.
Allowed == IF told # "nothing" THEN 1 ELSE 0

RoundsInv ==
    /\ round \in Nat /\ rejections \in Nat /\ emptyEmits \in Nat
    /\ ~defied => round + Asking + Allowed <= MaxRounds + rejections + emptyEmits

-----------------------------------------------------------------------------
\* The first invocation starts at the clarifier, with all counters at zero.
LEMMA FreshGraph ==
    ASSUME node = "clarifier_step", told = "nothing",
           round = 0, rejections = 0, emptyEmits = 0
    PROVE  RoundsInv
BY IntentAssumption DEF RoundsInv, Asking, Allowed

\* A step that asks nothing, says nothing and counts nothing.
LEMMA OtherNode ==
    ASSUME RoundsInv, node' # "clarifier_ask" \/ node' = node,
           UNCHANGED <<counters, told, defied>>
    PROVE  RoundsInv'
BY IntentAssumption DEF RoundsInv, Asking, Allowed, counters

\* A model that has not defied its instructions had not before, and did not just now.
LEMMA NotDefied ==
    ASSUME NEW r, NEW extra, Replied(r, extra), ~defied'
    PROVE  ~defied /\ ~(Heard = "emit" /\ r = "ask")
<1>1. defied' = (defied \/ (Heard = "emit" /\ r = "ask"))
  BY DEF Replied
<1> QED
  BY <1>1, Zenon

\* The clarifier's reply: a question uses up what allowed it, or room below the
\* cap, or defies the model's instructions; an empty emit pays for one more.
LEMMA ClarifyKeeps == ASSUME RoundsInv, Clarify PROVE RoundsInv'
<1> USE IntentAssumption DEF RoundsInv, Asking, Allowed
<1>1. ASSUME NEW r \in Replies, NEW extra \in {0, 1}, AskOrLoop(r, extra)
      PROVE  RoundsInv'
  <2>1. /\ node = "clarifier_step" /\ told' = "nothing" /\ UNCHANGED counters
        /\ Replied(r, extra)
    BY <1>1 DEF AskOrLoop, Replied, Body, counters
  <2>2. ~defied' => ~defied /\ ~(Heard = "emit" /\ r = "ask")
    BY <2>1, NotDefied
  <2>3. CASE r # "ask"
    <3>1. node' = CASE r = "ask" -> "clarifier_ask" [] r = "palette" -> "palette_step"
                    [] OTHER -> "clarifier_step"
      BY <1>1, Zenon DEF AskOrLoop, GoTo
    <3>2. node' # "clarifier_ask"
      BY <2>3, <3>1
    <3> QED
      BY <2>1, <2>2, <3>2 DEF counters
  <2>4. CASE r = "ask" /\ told # "nothing"
    BY <2>1, <2>2, <2>4 DEF counters
  <2>5. CASE r = "ask" /\ told = "nothing"
    <3>1. ~defied' => round + 1 <= MaxRounds
      BY <2>2, <2>5 DEF Heard
    <3> QED
      BY <2>1, <2>2, <2>5, <3>1 DEF counters
  <2> QED
    BY <2>3, <2>4, <2>5
<1>2. ASSUME NEW r \in Replies, NEW extra \in {0, 1}, EmitsIntent(r, extra)
      PROVE  RoundsInv'
  <2>1. /\ node' = "review_step" /\ told' = "nothing" /\ UNCHANGED counters
        /\ Replied(r, extra)
    BY <1>2 DEF EmitsIntent, Replied, GoTo, counters
  <2>2. ~defied' => ~defied
    BY <2>1, NotDefied
  <2> QED
    BY <2>1, <2>2 DEF counters
<1>3. ASSUME NEW extra \in {0, 1}, EmitsNothing(extra) PROVE RoundsInv'
  <2>1. /\ node = "clarifier_step" /\ node' = "clarifier_step" /\ told' = "fill"
        /\ emptyEmits' = emptyEmits + 1 /\ UNCHANGED <<round, rejections>>
        /\ Replied(EmptyEmit, extra)
    BY <1>3 DEF EmitsNothing, Replied, Body, GoTo, Raise
  <2>2. ~defied' => ~defied
    BY <2>1, NotDefied
  <2> QED
    BY <2>1, <2>2
<1>4. CASE ConversationRefused
  BY <1>4, OtherNode DEF ConversationRefused, Raise, dialogue
<1> QED
  BY <1>1, <1>2, <1>3, <1>4 DEF Clarify

\* Every step of the graph; answers end a round, a rejection pays for one more.
LEMMA GraphKeeps ==
    ASSUME RoundsInv, StartGraph \/ RunNode \/ ModelRaises \/ Resume
    PROVE  RoundsInv'
<1>1. CASE StartGraph
  BY <1>1, OtherNode DEF StartGraph, GoTo, dialogue
<1>2. CASE Clarify
  BY <1>2, ClarifyKeeps
<1>3. CASE Suspend
  BY <1>3, OtherNode DEF Suspend, dialogue
<1>4. CASE TakeAnswers
  <2>1. /\ node = "clarifier_ask" /\ node' = "clarifier_step" /\ round' = round + 1
        /\ UNCHANGED <<rejections, emptyEmits, told, defied>>
    BY <1>4 DEF TakeAnswers, Body, GoTo
  <2> QED
    BY <2>1, IntentAssumption DEF RoundsInv, Asking, Allowed
<1>5. CASE Palette
  BY <1>5, OtherNode DEF Palette, GoTo
<1>6. CASE ReviewPasses
  BY <1>6, OtherNode DEF ReviewPasses, GoTo, dialogue
<1>7. CASE ReviewRejects
  <2>1. /\ node = "review_step" /\ node' # "clarifier_ask"
        /\ rejections' = rejections + 1
        /\ UNCHANGED <<round, emptyEmits, defied>>
    BY <1>7 DEF ReviewRejects, Body, GoTo
  <2> QED
    BY <2>1, IntentAssumption DEF RoundsInv, Asking, Allowed
<1>8. CASE Search \/ Score \/ Compile \/ MoodBoard
  BY <1>8, OtherNode DEF Search, Score, Compile, MoodBoard, GoTo, dialogue
<1>9. CASE ModelRaises \/ Resume
  BY <1>9, OtherNode DEF ModelRaises, Resume, Raise, dialogue
<1> QED
  BY <1>1, <1>2, <1>3, <1>4, <1>5, <1>6, <1>7, <1>8, <1>9 DEF RunNode

-----------------------------------------------------------------------------
\* The agent around the graph runs it, drops it, or leaves it alone.
LEMMA RoundsStep == RoundsInv /\ [Next]_vars => RoundsInv'
<1> SUFFICES ASSUME RoundsInv, [Next]_vars PROVE RoundsInv'
  OBVIOUS
<1>1. ASSUME GraphGone PROVE RoundsInv'
  BY <1>1, IntentAssumption DEF GraphGone, RoundsInv, Asking, Allowed
<1>2. ASSUME UNCHANGED graphVars PROVE RoundsInv'
  BY <1>2, OtherNode DEF graphVars, dialogue
<1>3. CASE Run
  BY <1>3, GraphKeeps DEF Run
<1>4. CASE EnterNode
  BY <1>4, OtherNode DEF EnterNode, dialogue
<1>5. CASE RunGraph
  BY <1>5, GraphKeeps DEF RunGraph
<1>6. CASE GraphEnds \/ Interrupt
  BY <1>6, <1>1 DEF GraphEnds, Interrupt
<1>7. CASE Finalized \/ Persist
  BY <1>7, <1>2 DEF Finalized, Persist
<1>8. CASE FeedNext /\ UNCHANGED <<graphVars, agentVars, turn>>
  BY <1>8, <1>2
<1>9. CASE CodexStep
  BY <1>9, <1>2
     DEF CodexStep, BeginTurn, TurnEnds, OnItemStarted, OnMessageDelta,
         OnItemCompleted, Calls
<1>10. CASE UNCHANGED vars
  BY <1>10, <1>2 DEF vars
<1> QED
  BY <1>3, <1>4, <1>5, <1>6, <1>7, <1>8, <1>9, <1>10 DEF Next, DiscoveryStep

\* The inductive invariant of the rounds.
THEOREM RoundsInvHolds == Spec => []RoundsInv
<1>1. Init => RoundsInv
  BY FreshGraph DEF Init, DiscoveryInit, GraphInit
<1> QED
  BY <1>1, RoundsStep, PTL DEF Spec

\* clarifier.py and review.py: past max_rounds a round is asked only because the
\* reviewer rejected an intent or the clarifier emitted an empty one, and at most
\* one for each, whatever the models reply and however often a tool call fails.
THEOREM RoundsAccountedForHolds == Spec => []RoundsAccountedFor
<1>1. RoundsInv => RoundsAccountedFor
  BY IntentAssumption DEF RoundsInv, RoundsAccountedFor, Asking, Allowed
<1> QED
  BY <1>1, RoundsInvHolds, PTL

-----------------------------------------------------------------------------
(* The counters of the status bar.                                         *)

\* What a flusher has taken and not yet written or dropped.
InHand(f) == IF flush[f] \in {"lock", "update"} THEN delta[f] ELSE 0

\* Every bump is in one place at most.
NothingTwice == count + buffer + dropped + InHand("task") + InHand("final") <= bumped

StatsInv == StatsTypeOK /\ NothingTwice

-----------------------------------------------------------------------------
\* The counters are natural numbers and the flushers stand where the code has an
\* await (StatsTypeOK).
THEOREM StatsTypeCorrect == StatsSpec => []StatsTypeOK
<1>1. StatsInit => StatsTypeOK
  BY DEF StatsInit, StatsTypeOK, Flushers, FlushState
<1>2. StatsTypeOK /\ [StatsNext]_statsVars => StatsTypeOK'
  <2> SUFFICES ASSUME StatsTypeOK, [StatsNext]_statsVars PROVE StatsTypeOK'
    OBVIOUS
  <2> USE DEF StatsTypeOK, Flushers, FlushState
  <2>1. CASE Bump
    BY <2>1 DEF Bump
  <2>2. CASE Wake
    BY <2>2 DEF Wake, At
  <2>3. CASE LockElsewhere
    BY <2>3 DEF LockElsewhere
  <2>4. CASE Finalize
    BY <2>4 DEF Finalize
  <2>5. ASSUME NEW f \in Flushers, TakeDelta(f) PROVE StatsTypeOK'
    BY <2>5 DEF TakeDelta, At
  <2>6. ASSUME NEW f \in Flushers, Lock(f) PROVE StatsTypeOK'
    BY <2>6 DEF Lock, At
  <2>7. ASSUME NEW f \in Flushers, Update(f) PROVE StatsTypeOK'
    BY <2>7 DEF Update, At
  <2>8. ASSUME NEW f \in Flushers, PublishStats(f) PROVE StatsTypeOK'
    BY <2>8 DEF PublishStats, At
  <2>9. ASSUME NEW f \in Flushers, UpdateRaises(f) PROVE StatsTypeOK'
    BY <2>9 DEF UpdateRaises, At
  <2>10. CASE UNCHANGED statsVars
    BY <2>10 DEF statsVars
  <2> QED
    BY <2>1, <2>2, <2>3, <2>4, <2>5, <2>6, <2>7, <2>8, <2>9, <2>10 DEF StatsNext, FlushStep
<1> QED
  BY <1>1, <1>2, PTL DEF StatsSpec

\* However the flushers interleave with the bumps, and wherever the cancellation
\* finds the flush task, every bump is in one place at most.
THEOREM StatsInvHolds == StatsSpec => []StatsInv
<1>1. StatsInit => NothingTwice
  BY DEF StatsInit, NothingTwice, InHand, Flushers
<1>2. StatsTypeOK /\ StatsTypeOK' /\ NothingTwice /\ [StatsNext]_statsVars => NothingTwice'
  <2> SUFFICES ASSUME StatsTypeOK, StatsTypeOK', NothingTwice, [StatsNext]_statsVars PROVE NothingTwice'
    OBVIOUS
  <2> USE DEF NothingTwice, InHand, StatsTypeOK, Flushers, FlushState
  <2>1. CASE Bump
    BY <2>1 DEF Bump, FlushDone
  <2>2. CASE Wake
    BY <2>2 DEF Wake, At
  <2>3. CASE LockElsewhere
    BY <2>3 DEF LockElsewhere
  <2>4. CASE Finalize
    BY <2>4 DEF Finalize, RunIsOver
  <2>5. ASSUME NEW f \in Flushers, TakeDelta(f) PROVE NothingTwice'
    BY <2>5 DEF TakeDelta, At
  <2>6. ASSUME NEW f \in Flushers, Lock(f) PROVE NothingTwice'
    BY <2>6 DEF Lock, At
  <2>7. ASSUME NEW f \in Flushers, Update(f) PROVE NothingTwice'
    BY <2>7 DEF Update, At
  <2>8. ASSUME NEW f \in Flushers, PublishStats(f) PROVE NothingTwice'
    BY <2>8 DEF PublishStats, At
  <2>9. ASSUME NEW f \in Flushers, UpdateRaises(f) PROVE NothingTwice'
    BY <2>9 DEF UpdateRaises, At
  <2>10. CASE UNCHANGED statsVars
    BY <2>10 DEF statsVars
  <2> QED
    BY <2>1, <2>2, <2>3, <2>4, <2>5, <2>6, <2>7, <2>8, <2>9, <2>10 DEF StatsNext, FlushStep
<1> QED
  BY <1>1, <1>2, StatsTypeCorrect, PTL DEF StatsSpec, StatsInv

\* No bump is counted twice (NeverOvercounts).
THEOREM NeverOvercountsHolds == StatsSpec => []NeverOvercounts
<1>1. StatsInv => NeverOvercounts
  BY DEF StatsInv, NothingTwice, StatsTypeOK, InHand, NeverOvercounts, Flushers, FlushState
<1> QED
  BY <1>1, StatsInvHolds, PTL

\* The status bar never counts backwards and never runs ahead of the row
\* (BarFollowsRow).
THEOREM BarFollowsRowHolds == StatsSpec => BarFollowsRow
<1> DEFINE Behind == shown <= count
<1>1. StatsInit => Behind
  BY DEF StatsInit
<1>2. StatsTypeOK /\ Behind /\ [StatsNext]_statsVars =>
         Behind' /\ shown' >= shown /\ shown' <= count'
  <2> SUFFICES ASSUME StatsTypeOK, Behind, [StatsNext]_statsVars
               PROVE  shown' >= shown /\ shown' <= count'
    BY DEF StatsTypeOK
  <2> USE DEF StatsTypeOK, Flushers
  <2>1. CASE Bump \/ Wake \/ LockElsewhere \/ UNCHANGED statsVars
    BY <2>1 DEF Bump, Wake, LockElsewhere, statsVars
  <2>2. CASE Finalize
    BY <2>2 DEF Finalize
  <2>3. ASSUME NEW f \in Flushers, TakeDelta(f) \/ Lock(f) \/ UpdateRaises(f)
        PROVE  shown' >= shown /\ shown' <= count'
    BY <2>3 DEF TakeDelta, Lock, UpdateRaises
  <2>4. ASSUME NEW f \in Flushers, Update(f) PROVE shown' >= shown /\ shown' <= count'
    BY <2>4 DEF Update
  <2>5. ASSUME NEW f \in Flushers, PublishStats(f) PROVE shown' >= shown /\ shown' <= count'
    BY <2>5 DEF PublishStats
  <2> QED
    BY <2>1, <2>2, <2>3, <2>4, <2>5 DEF StatsNext, FlushStep
<1> QED
  BY <1>1, <1>2, StatsTypeCorrect, PTL DEF StatsSpec, BarFollowsRow
================================================================================
