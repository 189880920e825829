-------------------------- MODULE CodexTurn_proofs --------------------------
(***************************************************************************)
(* Proofs about CodexTurn, for any number of turns, interrupts, questions, *)
(* items and lost connections.                                             *)
(*                                                                         *)
(* OwnOutcomeBarTimeouts is not inductive: whether the notification that   *)
(* ends a turn is its own is decided when the turn is started on a queue,  *)
(* a wire and a list of requests that outlive the turn before it.  OwnInv  *)
(* says what these hold while no timeout has killed a turn: at most one    *)
(* notification of a completion, of the current turn, on its whole way     *)
(* from the request that starts the turn, and none between two turns.      *)
(***************************************************************************)
EXTENDS CodexTurn, TLAPS

Statuses == {"completed", "interrupted", "failed"}
Items == [kind : {"item"}, turn : Turns]
Completions == [kind : {"completed"}, turn : Turns, status : Statuses]
Frames == Items \cup Completions \cup [kind : {"ask"}]
          \cup [kind : {"response"}, to : {"driver", "control"}, turn : Turns]
Calls == [kind : {"start", "interrupt"}, by : {"driver", "control"}, turn : Turns]

\* TypeOK, and what the wire and the requests may hold.
Typed ==
    /\ TypeOK
    /\ wire \in Seq(Frames)
    /\ requests \in Seq(Calls)
    /\ turn = 0 => driver = "idle"
    /\ used \in [DOMAIN Bound -> Nat]

\* Sequences of frames or requests by the kinds they hold.
Lacks(s, k) == \A i \in 1..Len(s) : s[i].kind # k
AtMostOne(s, k) == \A i, j \in 1..Len(s) : s[i].kind = k /\ s[j].kind = k => i = j
Only(s, k, t) == \A i \in 1..Len(s) : s[i].kind = k => s[i].turn = t

\* No completion is on its way, none can be sent and no turn is about to start.
NoCompletion == Lacks(queue, "completed") /\ Lacks(wire, "completed")
NoStart == Lacks(requests, "start")

\* One completion at most, and it is the current turn's.
OneCompletion ==
    /\ AtMostOne(queue, "completed") /\ AtMostOne(wire, "completed")
    /\ Lacks(queue, "completed") \/ Lacks(wire, "completed")
    /\ Only(queue, "completed", turn) /\ Only(wire, "completed", turn)

\* A turn that runs is the current one and has not completed.
RunsFirst == running # 0 => running = turn /\ NoCompletion /\ NoStart

\* A turn that is to be started is the current one, and nothing of it exists.
StartsFirst ==
    /\ AtMostOne(requests, "start") /\ Only(requests, "start", turn)
    /\ ~NoStart => running = 0 /\ NoCompletion

\* Between two turns on a connection that lives, nothing of the first is left.
NothingLeft == driver = "idle" /\ alive => NoCompletion /\ NoStart /\ running = 0

\* A connection that is lost takes the turn with it.
LostIsOver == ~alive => running = 0 /\ requests = <<>>

OwnInv ==
    used["timeout"] = 0 =>
        /\ OneCompletion /\ RunsFirst /\ StartsFirst /\ NothingLeft /\ LostIsOver
        /\ driver # "abort"
        /\ OwnOutcome

-----------------------------------------------------------------------------
(* Sequences *)

LEMMA TailKinds ==
    ASSUME NEW S, NEW s \in Seq(S), s # <<>>, NEW k, NEW t
    PROVE  /\ Tail(s) \in Seq(S) /\ Head(s) \in S
           /\ Lacks(s, k) => Lacks(Tail(s), k)
           /\ AtMostOne(s, k) => AtMostOne(Tail(s), k)
           /\ AtMostOne(s, k) /\ Head(s).kind = k => Lacks(Tail(s), k)
           /\ Only(s, k, t) => Only(Tail(s), k, t)
           /\ Lacks(s, k) => Head(s).kind # k
           /\ Only(s, k, t) /\ Head(s).kind = k => Head(s).turn = t
<1>1. /\ Tail(s) \in Seq(S) /\ Head(s) \in S /\ Len(s) \in Nat \ {0}
      /\ Len(Tail(s)) = Len(s) - 1
      /\ Head(s) = s[1]
      /\ \A i \in 1..Len(s) - 1 : Tail(s)[i] = s[i + 1]
  OBVIOUS
<1>2. \A i \in 1..Len(Tail(s)) : i + 1 \in 1..Len(s) /\ Tail(s)[i] = s[i + 1] /\ i + 1 # 1
  BY <1>1
<1>3. 1 \in 1..Len(s)
  BY <1>1
<1>4. Lacks(s, k) => Lacks(Tail(s), k)
  BY <1>2 DEF Lacks
<1>5. AtMostOne(s, k) => AtMostOne(Tail(s), k)
  <2> SUFFICES ASSUME AtMostOne(s, k), NEW i \in 1..Len(Tail(s)), NEW j \in 1..Len(Tail(s)),
                      Tail(s)[i].kind = k, Tail(s)[j].kind = k
               PROVE  i = j
    BY DEF AtMostOne
  <2>1. i + 1 = j + 1
    BY <1>2 DEF AtMostOne
  <2> QED
    BY <2>1
<1>6. AtMostOne(s, k) /\ Head(s).kind = k => Lacks(Tail(s), k)
  BY <1>1, <1>2, <1>3 DEF AtMostOne, Lacks
<1>7. Only(s, k, t) => Only(Tail(s), k, t)
  BY <1>2 DEF Only
<1> QED
  BY <1>1, <1>3, <1>4, <1>5, <1>6, <1>7 DEF Lacks, Only

LEMMA AppendKinds ==
    ASSUME NEW S, NEW s \in Seq(S), NEW e \in S, NEW k, NEW t
    PROVE  /\ Append(s, e) \in Seq(S)
           /\ Lacks(s, k) /\ e.kind # k => Lacks(Append(s, e), k)
           /\ AtMostOne(s, k) /\ e.kind # k => AtMostOne(Append(s, e), k)
           /\ Lacks(s, k) => AtMostOne(Append(s, e), k)
           /\ Only(s, k, t) /\ (e.kind = k => e.turn = t) => Only(Append(s, e), k, t)
<1>1. /\ Append(s, e) \in Seq(S) /\ Len(s) \in Nat /\ Len(Append(s, e)) = Len(s) + 1
      /\ \A i \in 1..Len(s) : Append(s, e)[i] = s[i]
      /\ Append(s, e)[Len(s) + 1] = e
  OBVIOUS
<1>2. \A i \in 1..Len(Append(s, e)) :
         (i \in 1..Len(s) /\ Append(s, e)[i] = s[i]) \/ (i = Len(s) + 1 /\ Append(s, e)[i] = e)
  BY <1>1
<1>3. Lacks(s, k) /\ e.kind # k => Lacks(Append(s, e), k)
  BY <1>2 DEF Lacks
<1>4. AtMostOne(s, k) /\ e.kind # k => AtMostOne(Append(s, e), k)
  BY <1>2 DEF AtMostOne
<1>5. Lacks(s, k) => AtMostOne(Append(s, e), k)
  BY <1>2 DEF Lacks, AtMostOne
<1>6. Only(s, k, t) /\ (e.kind = k => e.turn = t) => Only(Append(s, e), k, t)
  BY <1>2 DEF Only
<1> QED
  BY <1>1, <1>3, <1>4, <1>5, <1>6

LEMMA SeqTypes ==
    ASSUME NEW S, NEW s \in Seq(S), NEW e \in S
    PROVE  /\ Append(s, e) \in Seq(S) /\ <<e>> \in Seq(S) /\ <<>> \in Seq(S)
           /\ s # <<>> => Tail(s) \in Seq(S) /\ Head(s) \in S
OBVIOUS

LEMMA EmptyKinds ==
    ASSUME NEW k, NEW t PROVE Lacks(<<>>, k) /\ AtMostOne(<<>>, k) /\ Only(<<>>, k, t)
BY DEF Lacks, AtMostOne, Only

LEMMA LacksAll ==
    ASSUME NEW S, NEW s \in Seq(S), NEW k, NEW t, Lacks(s, k)
    PROVE  AtMostOne(s, k) /\ Only(s, k, t)
BY DEF Lacks, AtMostOne, Only

-----------------------------------------------------------------------------
(* Types *)

LEMMA FrameTypes ==
    /\ \A t \in Turns : Item(t) \in Frames
    /\ \A t \in Turns, status \in Statuses : Completed(t, status) \in Frames
    /\ [kind |-> "ask"] \in Frames
    /\ \A r \in Calls : Response(r) \in Frames
    /\ \A kind \in {"start", "interrupt"}, by \in {"driver", "control"}, t \in Turns :
          Request(kind, by, t) \in Calls
    /\ \A f \in Frames : f.kind \in {"item", "completed"} => f \in Items \cup Completions
BY DEF Item, Items, Completed, Completions, Response, Request, Frames, Calls, Statuses

LEMMA Bounds == DOMAIN Bound = {"timeout", "interrupt", "ask", "item", "loss"}
                /\ \A b \in DOMAIN Bound : Bound[b] \in Nat
BY CodexAssumption DEF Bound

LEMMA UseTypes ==
    ASSUME used \in [DOMAIN Bound -> Nat], \A b \in DOMAIN Bound : used[b] \in 0..Bound[b],
           NEW c \in DOMAIN Bound, Use(c)
    PROVE  /\ used' \in [DOMAIN Bound -> Nat]
           /\ \A b \in DOMAIN Bound : used'[b] \in 0..Bound[b]
           /\ used'[c] # 0
           /\ \A b \in DOMAIN Bound : b # c => used'[b] = used[b]
BY Bounds DEF Use

LEMMA Concat ==
    ASSUME NEW S, NEW s \in Seq(S), NEW a \in S, NEW b \in S
    PROVE  /\ s \o <<a>> \o <<>> = Append(s, a)
           /\ s \o <<a>> \o <<b>> = Append(Append(s, a), b)
OBVIOUS

LEMMA EndTurnTypes ==
    ASSUME TypeOK, NEW status \in Statuses, NEW by \in 0..MaxTurns, EndTurn(status, by)
    PROVE  /\ driver' = "idle" /\ turn' = turn
           /\ outcome' \in [Turns -> {"none", "completed", "interrupted", "failed"}]
           /\ endedBy' \in [Turns -> 0..MaxTurns]
BY DEF EndTurn, TypeOK, Statuses

\* What the server answers to the request at the head of its list.
LEMMA ServerAnswers ==
    ASSUME Typed, ServerReads
    PROVE  /\ requests # <<>> /\ alive
           /\ requests' = Tail(requests)
           /\ LET r == Head(requests) IN
              /\ r \in Calls /\ Response(r) \in Frames
              /\ blocked' = FALSE
              /\ \/ /\ r.kind = "start" /\ running' = r.turn
                    /\ wire' = Append(wire, Response(r))
                 \/ /\ r.kind # "start" /\ running' = 0 /\ running = 0
                    /\ wire' = Append(wire, Response(r))
                 \/ /\ r.kind # "start" /\ running' = 0 /\ running \in Turns
                    /\ wire' = Append(Append(wire, Response(r)), Completed(running, "interrupted"))
<1>1. requests # <<>> /\ Head(requests) \in Calls
  BY DEF ServerReads, Typed
<1>2. Response(Head(requests)) \in Frames
  BY <1>1, FrameTypes
<1>3. wire \in Seq(Frames) /\ (running # 0 => running \in Turns)
  BY DEF Typed, TypeOK, Turns
<1>4. running # 0 => Completed(running, "interrupted") \in Frames
  BY <1>3, FrameTypes DEF Statuses
<1>5. CASE Head(requests).kind = "start"
  BY <1>1, <1>2, <1>5 DEF ServerReads
<1>6. CASE Head(requests).kind # "start" /\ running = 0
  <2>1. wire' = wire \o <<Response(Head(requests))>> \o <<>>
    BY <1>6 DEF ServerReads
  <2>2. wire' = Append(wire, Response(Head(requests)))
    BY <2>1, <1>2, <1>3, Concat
  <2> QED
    BY <1>1, <1>2, <1>6, <2>2 DEF ServerReads
<1>7. CASE Head(requests).kind # "start" /\ running # 0
  <2>1. wire' = wire \o <<Response(Head(requests))>> \o <<Completed(running, "interrupted")>>
    BY <1>7 DEF ServerReads
  <2>2. wire' = Append(Append(wire, Response(Head(requests))), Completed(running, "interrupted"))
    BY <2>1, <1>2, <1>3, <1>4, <1>7, Concat
  <2> QED
    BY <1>1, <1>2, <1>3, <1>7, <2>2 DEF ServerReads
<1> QED
  BY <1>5, <1>6, <1>7

LEMMA TypedStep == Typed /\ [Next]_vars => Typed'
<1> SUFFICES ASSUME Typed, [Next]_vars PROVE Typed'
  OBVIOUS
<1> USE DEF Typed, TypeOK
<1>a. queue \in Seq(Items \cup Completions)
  BY DEF Items, Completions, Statuses
<1>b. MaxTurns \in Nat /\ 0 \in 0..MaxTurns /\ "failed" \in Statuses /\ Statuses \subseteq {"none", "completed", "interrupted", "failed"}
  BY CodexAssumption DEF Statuses
<1>c. queue \in Seq([kind : {"item"}, turn : Turns] \cup
                     [kind : {"completed"}, turn : Turns,
                      status : {"completed", "interrupted", "failed"}])
  OBVIOUS
<1>d. FailPending =>
        /\ driver' \in {"idle", "start", "consume", "abort"} /\ turn' = turn
        /\ turn = 0 => driver' = "idle"
        /\ outcome' \in [Turns -> {"none", "completed", "interrupted", "failed"}]
        /\ endedBy' \in [Turns -> 0..MaxTurns]
        /\ control' = "idle" /\ reader' = "over"
  BY <1>b, EndTurnTypes DEF FailPending
<1>1. CASE StartTurn
  <2>1. turn + 1 \in Turns /\ turn' = turn + 1
    BY <1>1, CodexAssumption DEF StartTurn, Turns
  <2>2. Request("start", "driver", turn + 1) \in Calls
    BY <2>1, FrameTypes
  <2>3. requests' \in Seq(Calls)
    <3>1. requests \in Seq(Calls)
      OBVIOUS
    <3>2. /\ Append(requests, Request("start", "driver", turn + 1)) \in Seq(Calls)
          /\ <<Request("start", "driver", turn + 1)>> \in Seq(Calls)
      BY <2>2, <3>1, SeqTypes
    <3> QED
      BY <1>1, <3>2 DEF StartTurn
  <2>4. /\ queue' = queue \/ queue' = <<>>
        /\ wire' = wire \/ wire' = <<>>
        /\ reader' \in {"reading", "asking", "over"} /\ alive' \in BOOLEAN
    BY <1>1 DEF StartTurn
  <2>5. wire' \in Seq(Frames)
    <3>1. <<>> \in Seq(Frames) /\ wire \in Seq(Frames)
      OBVIOUS
    <3> QED
      BY <2>4, <3>1
  <2>6. queue' \in Seq([kind : {"item"}, turn : Turns] \cup
                     [kind : {"completed"}, turn : Turns,
                      status : {"completed", "interrupted", "failed"}])
    <3>1. <<>> \in Seq([kind : {"item"}, turn : Turns] \cup
                     [kind : {"completed"}, turn : Turns,
                      status : {"completed", "interrupted", "failed"}])
      OBVIOUS
    <3> QED
      BY <2>4, <1>c, <3>1
  <2>7. turn' \in 0..MaxTurns /\ turn' # 0 /\ driver' = "start" /\ control' = "idle"
    BY <1>1, <1>b, <2>1 DEF StartTurn, Turns
  <2> QED
    BY <1>1, <2>3, <2>4, <2>5, <2>6, <2>7 DEF StartTurn, serverVars
<1>2. CASE Consume
  <2>1. Tail(queue) \in Seq(Items \cup Completions) /\ Head(queue) \in Items \cup Completions
    BY <1>2, <1>a DEF Consume
  <2>2. queue' \in Seq(Items \cup Completions)
    BY <1>2, <2>1 DEF Consume
  <2>3. Head(queue).kind = "completed" => Head(queue).status \in Statuses /\ Head(queue).turn \in Turns
    BY <2>1 DEF Items, Completions
  <2> QED
    BY <1>2, <2>2, <2>3 DEF Consume, EndTurn, serverVars, Statuses, Turns, Items, Completions
<1>3. CASE DetectLoss
  BY <1>3, <1>b, EndTurnTypes DEF DetectLoss, serverVars
<1>4. CASE TimeOut
  <2>1. turn \in Turns
    BY <1>4, CodexAssumption DEF TimeOut, Turns
  <2>2. Request("interrupt", "driver", turn) \in Calls
    BY <2>1, FrameTypes
  <2>3. requests' \in Seq(Calls)
    <3>1. requests \in Seq(Calls)
      OBVIOUS
    <3>2. Append(requests, Request("interrupt", "driver", turn)) \in Seq(Calls)
      BY <2>2, <3>1, SeqTypes
    <3> QED
      BY <1>4, <3>1, <3>2 DEF TimeOut
  <2>4. /\ used' \in [DOMAIN Bound -> Nat]
        /\ \A b \in DOMAIN Bound : used'[b] \in 0..Bound[b]
    BY <1>4, UseTypes, Bounds DEF TimeOut
  <2>5. /\ driver' \in {"idle", "abort"} /\ turn' = turn
        /\ outcome' \in [Turns -> {"none", "completed", "interrupted", "failed"}]
        /\ endedBy' \in [Turns -> 0..MaxTurns]
    BY <1>4, <1>b, EndTurnTypes DEF TimeOut
  <2>6. turn # 0
    BY <2>1 DEF Turns
  <2> QED
    BY <1>4, <2>3, <2>4, <2>5, <2>6 DEF TimeOut, serverVars
<1>5. CASE ReadResponse
  <2>1. wire' \in Seq(Frames)
    BY <1>5, SeqTypes DEF ReadResponse
  <2>2. /\ driver' \in {"idle", "start", "consume", "abort"} /\ turn' = turn
        /\ turn = 0 => driver' = "idle"
        /\ outcome' \in [Turns -> {"none", "completed", "interrupted", "failed"}]
        /\ endedBy' \in [Turns -> 0..MaxTurns]
        /\ control' \in {"idle", "waiting"}
    BY <1>5, <1>b, EndTurnTypes DEF ReadResponse
  <2> QED
    BY <1>5, <2>1, <2>2 DEF ReadResponse, serverVars
<1>6. CASE ReadNotification
  <2>1. wire' \in Seq(Frames) /\ Head(wire) \in Frames
    BY <1>6, TailKinds DEF ReadNotification
  <2>2. Head(wire) \in Items \cup Completions
    BY <1>6, <2>1, FrameTypes DEF ReadNotification
  <2>3. queue' \in Seq(Items \cup Completions)
    BY <1>6, <1>a, <2>2, AppendKinds DEF ReadNotification
  <2> QED
    BY <1>6, <2>1, <2>3 DEF ReadNotification, clientVars, serverVars, Items, Completions, Statuses
<1>7. CASE ReadAsk
  <2>1. wire' \in Seq(Frames)
    BY <1>7, TailKinds DEF ReadAsk
  <2> QED
    BY <1>7, <2>1 DEF ReadAsk, clientVars, serverVars
<1>8. CASE AnswerAsk
  <2>1. FailPending \/ (UNCHANGED clientVars /\ reader' = "reading")
    BY <1>8 DEF AnswerAsk
  <2> QED
    BY <1>8, <1>d, <2>1 DEF AnswerAsk, clientVars
<1>9. CASE ReaderExits
  BY <1>9, <1>d DEF ReaderExits, serverVars
<1>10. CASE Interrupt
  <2>1. turn \in Turns
    BY <1>10, CodexAssumption DEF Interrupt, Turns
  <2>2. Request("interrupt", "control", turn) \in Calls
    BY <2>1, FrameTypes
  <2>3. requests' \in Seq(Calls)
    BY <1>10, <2>2, SeqTypes DEF Interrupt
  <2>4. /\ used' \in [DOMAIN Bound -> Nat]
        /\ \A b \in DOMAIN Bound : used'[b] \in 0..Bound[b]
    BY <1>10, UseTypes, Bounds DEF Interrupt
  <2> QED
    BY <1>10, <2>3, <2>4 DEF Interrupt, serverVars
<1>11. CASE ServerReads
  <2>1. requests' \in Seq(Calls)
    BY <1>11, ServerAnswers, SeqTypes
  <2>2. /\ wire' \in Seq(Frames)
        /\ running' \in 0..MaxTurns
        /\ blocked' = FALSE
    <3>1. Head(requests).turn \in Turns /\ Response(Head(requests)) \in Frames
      BY <1>11, ServerAnswers DEF Calls
    <3>2. running \in Turns => Completed(running, "interrupted") \in Frames
      BY FrameTypes DEF Statuses
    <3>3. Append(wire, Response(Head(requests))) \in Seq(Frames)
      BY <3>1, AppendKinds
    <3>4. running \in Turns =>
             Append(Append(wire, Response(Head(requests))), Completed(running, "interrupted")) \in Seq(Frames)
      BY <3>2, <3>3, AppendKinds
    <3> QED
      <4>1. 0 \in 0..MaxTurns /\ \A t \in Turns : t \in 0..MaxTurns
        BY <1>b DEF Turns
      <4>2. /\ blocked' = FALSE
            /\ \/ /\ running' = Head(requests).turn
                  /\ wire' = Append(wire, Response(Head(requests)))
               \/ /\ running' = 0
                  /\ wire' = Append(wire, Response(Head(requests)))
               \/ /\ running' = 0 /\ running \in Turns
                  /\ wire' = Append(Append(wire, Response(Head(requests))), Completed(running, "interrupted"))
        BY <1>11, ServerAnswers
      <4> HIDE DEF Typed, TypeOK
      <4> QED
        BY <3>1, <3>3, <3>4, <4>1, <4>2
  <2> QED
    BY <1>11, <2>1, <2>2 DEF ServerReads, clientVars
<1>12. CASE ServerItem
  <2>1. Item(running) \in Frames
    BY <1>12, FrameTypes, CodexAssumption DEF ServerItem, Turns
  <2>2. wire' \in Seq(Frames)
    BY <1>12, <2>1, AppendKinds DEF ServerItem
  <2>3. /\ used' \in [DOMAIN Bound -> Nat]
        /\ \A b \in DOMAIN Bound : used'[b] \in 0..Bound[b]
    BY <1>12, UseTypes, Bounds DEF ServerItem
  <2> QED
    BY <1>12, <2>2, <2>3 DEF ServerItem, clientVars, serverVars
<1>13. CASE ServerAsks
  <2>1. wire' \in Seq(Frames)
    BY <1>13, FrameTypes, AppendKinds DEF ServerAsks
  <2>2. /\ used' \in [DOMAIN Bound -> Nat]
        /\ \A b \in DOMAIN Bound : used'[b] \in 0..Bound[b]
    BY <1>13, UseTypes, Bounds DEF ServerAsks
  <2> QED
    BY <1>13, <2>1, <2>2 DEF ServerAsks, clientVars
<1>14. CASE ServerCompletes
  <2>1. \A status \in {"completed", "failed"} : Completed(running, status) \in Frames
    BY <1>14, FrameTypes, CodexAssumption DEF ServerCompletes, Turns, Statuses
  <2>2. wire' \in Seq(Frames)
    BY <1>14, <2>1, AppendKinds DEF ServerCompletes
  <2> QED
    BY <1>14, <2>2, CodexAssumption DEF ServerCompletes, clientVars
<1>15. CASE LoseConnection
  <2>1. /\ used' \in [DOMAIN Bound -> Nat]
        /\ \A b \in DOMAIN Bound : used'[b] \in 0..Bound[b]
    BY <1>15, UseTypes, Bounds DEF LoseConnection
  <2> QED
    <3>1. <<>> \in Seq(Calls)
      OBVIOUS
    <3> QED
      BY <1>15, <1>b, <2>1, <3>1 DEF LoseConnection, clientVars
<1>16. CASE UNCHANGED vars
  BY <1>16 DEF vars, clientVars, serverVars
<1> QED
  BY <1>1, <1>2, <1>3, <1>4, <1>5, <1>6, <1>7, <1>8, <1>9, <1>10, <1>11, <1>12, <1>13, <1>14,
     <1>15, <1>16 DEF Next, DriverStep, ReaderStep, ServerStep

\* The tasks of the client stand where the code awaits, the queue holds notifications
\* of turns that were started, and no bound is exceeded (TypeOK, with the frames that
\* are under way).
THEOREM TypeCorrect == Spec => []Typed
<1>1. Init => Typed
  <2> SUFFICES ASSUME Init PROVE Typed
    OBVIOUS
  <2>1. MaxTurns \in Nat /\ \A b \in DOMAIN Bound : 0 \in 0..Bound[b]
    BY Bounds, CodexAssumption
  <2>2. /\ wire \in Seq(Frames) /\ requests \in Seq(Calls)
        /\ queue \in Seq([kind : {"item"}, turn : Turns] \cup
                     [kind : {"completed"}, turn : Turns,
                      status : {"completed", "interrupted", "failed"}])
    BY DEF Init
  <2>3. used \in [DOMAIN Bound -> Nat] /\ \A b \in DOMAIN Bound : used[b] \in 0..Bound[b]
    BY <2>1 DEF Init
  <2>4. /\ 0 \in 0..MaxTurns
        /\ outcome \in [Turns -> {"none", "completed", "interrupted", "failed"}]
        /\ endedBy \in [Turns -> 0..MaxTurns]
    BY <2>1 DEF Init
  <2> QED
    BY <2>2, <2>3, <2>4 DEF Init, Typed, TypeOK
<1> QED
  BY <1>1, TypedStep, PTL DEF Spec

-----------------------------------------------------------------------------
(* The outcomes *)

\* s2 has of the kind k what s has, or less.
Keeps(s, s2, k) ==
    /\ Lacks(s, k) => Lacks(s2, k)
    /\ AtMostOne(s, k) => AtMostOne(s2, k)
    /\ \A t \in 0..MaxTurns : Only(s, k, t) => Only(s2, k, t)

LEMMA KeepsWhat ==
    ASSUME NEW S, NEW s \in Seq(S), NEW k
    PROVE  /\ Keeps(s, s, k) /\ Keeps(s, <<>>, k)
           /\ s # <<>> => Keeps(s, Tail(s), k)
           /\ \A e \in S : e.kind # k => Keeps(s, Append(s, e), k)
<1>1. Keeps(s, s, k)
  BY DEF Keeps
<1>2. Keeps(s, <<>>, k)
  BY EmptyKinds DEF Keeps
<1>3. ASSUME s # <<>> PROVE Keeps(s, Tail(s), k)
  BY <1>3, TailKinds DEF Keeps
<1>4. ASSUME NEW e \in S, e.kind # k PROVE Keeps(s, Append(s, e), k)
  BY <1>4, AppendKinds DEF Keeps
<1> QED
  BY <1>1, <1>2, <1>3, <1>4

Flow == OneCompletion /\ RunsFirst /\ StartsFirst /\ NothingLeft

\* A step that sends no completion, starts nothing and ends no turn on a connection
\* that lives.
LEMMA QuietStep ==
    ASSUME Typed, Flow,
           Keeps(queue, queue', "completed"), Keeps(wire, wire', "completed"),
           Keeps(requests, requests', "start"),
           turn' = turn, running' = running \/ running' = 0,
           driver' = "idle" /\ alive' => driver = "idle" /\ alive
    PROVE  Flow'
<1>0. turn \in 0..MaxTurns
  BY DEF Typed, TypeOK
<1>1. /\ NoCompletion => NoCompletion'
      /\ NoStart => NoStart'
  BY DEF Keeps, NoCompletion, NoStart
<1>2. OneCompletion'
  BY <1>0 DEF Flow, OneCompletion, Keeps
<1>3. RunsFirst'
  BY <1>1 DEF Flow, RunsFirst
<1>4. StartsFirst'
  BY <1>0, <1>1 DEF Flow, StartsFirst, Keeps
<1>5. NothingLeft'
  BY <1>1 DEF Flow, NothingLeft
<1> QED
  BY <1>2, <1>3, <1>4, <1>5 DEF Flow

\* The running turn is the only one whose completion can be sent, and it is sent once.
LEMMA CompletionSent ==
    ASSUME Typed, Flow, running # 0, NEW w \in Seq(Frames), Lacks(w, "completed"),
           NEW status \in Statuses, wire' = Append(w, Completed(running, status)),
           queue' = queue, Keeps(requests, requests', "start"),
           turn' = turn, running' = 0, driver' = driver, alive' = alive
    PROVE  Flow'
<1>1. running = turn /\ NoCompletion /\ NoStart
  BY DEF Flow, RunsFirst
<1>2. turn \in Turns /\ Completed(running, status) \in Frames
  BY <1>1, CodexAssumption, FrameTypes DEF Typed, TypeOK, Turns
<1>3. queue \in Seq(Items \cup Completions)
  BY DEF Typed, TypeOK, Items, Completions, Statuses
<1>4. AtMostOne(queue', "completed") /\ Only(queue', "completed", turn') /\ Lacks(queue', "completed")
  BY <1>1, <1>3, LacksAll DEF NoCompletion
<1>5. Only(w, "completed", turn)
  BY LacksAll
<1>6. AtMostOne(wire', "completed") /\ Only(wire', "completed", turn')
  BY <1>1, <1>2, <1>5, AppendKinds DEF Completed
<1>7. NoStart'
  BY <1>1 DEF NoStart, Keeps
<1>8. AtMostOne(requests', "start") /\ Only(requests', "start", turn')
  BY <1>7 DEF NoStart, Lacks, AtMostOne, Only
<1> QED
  BY <1>4, <1>6, <1>7, <1>8 DEF Flow, OneCompletion, RunsFirst, StartsFirst, NothingLeft

\* A run that ends without a notification leaves every other outcome as it is.
LEMMA EndedByNone ==
    ASSUME Typed, OwnOutcome, EndTurn("failed", 0) PROVE OwnOutcome'
BY DEF Typed, TypeOK, OwnOutcome, EndTurn

LEMMA FlowStep ==
    ASSUME Typed, Flow, LostIsOver, driver # "abort", OwnOutcome, used["timeout"] = 0,
           [Next]_vars, used'["timeout"] = 0
    PROVE  Flow' /\ LostIsOver' /\ driver' # "abort" /\ OwnOutcome'
<1>a. /\ queue \in Seq(Items \cup Completions)
      /\ wire \in Seq(Frames) /\ requests \in Seq(Calls)
      /\ MaxTurns \in Nat /\ turn \in 0..MaxTurns /\ running \in 0..MaxTurns
      /\ endedBy \in [Turns -> 0..MaxTurns]
      /\ alive \in BOOLEAN
  BY CodexAssumption DEF Typed, TypeOK, Items, Completions, Statuses
<1>b. /\ Keeps(queue, queue, "completed") /\ Keeps(wire, wire, "completed")
      /\ Keeps(requests, requests, "start") /\ Keeps(requests, <<>>, "start")
      /\ wire # <<>> => Keeps(wire, Tail(wire), "completed")
      /\ requests # <<>> => Keeps(requests, Tail(requests), "start")
      /\ queue # <<>> => Keeps(queue, Tail(queue), "completed")
  BY <1>a, KeepsWhat
<1>c. FailPending => /\ OwnOutcome' /\ turn' = turn
                     /\ driver' = driver \/ driver' = "idle"
  BY EndedByNone DEF FailPending, EndTurn, OwnOutcome
<1>1. CASE StartTurn
  <2> DEFINE r == Request("start", "driver", turn + 1)
  <2>1. turn + 1 \in Turns /\ turn' = turn + 1 /\ driver' = "start" /\ driver = "idle"
        /\ running' = running /\ endedBy' = endedBy
    BY <1>1, <1>a DEF StartTurn, Turns, serverVars
  <2>2. r \in Calls /\ r.kind = "start" /\ r.turn = turn'
    BY <2>1, FrameTypes DEF Request
  <2>3. CASE alive
    <3>1. NoCompletion /\ NoStart /\ running = 0
      BY <2>1, <2>3 DEF Flow, NothingLeft
    <3>2. queue' = queue /\ wire' = wire /\ alive' = alive /\ requests' = Append(requests, r)
      BY <1>1, <2>3 DEF StartTurn
    <3>3. AtMostOne(queue, "completed") /\ Only(queue, "completed", turn')
          /\ AtMostOne(wire, "completed") /\ Only(wire, "completed", turn')
      BY <1>a, <3>1, LacksAll DEF NoCompletion
    <3>4. Only(requests, "start", turn')
      BY <1>a, <3>1, LacksAll DEF NoStart
    <3>5. AtMostOne(requests', "start") /\ Only(requests', "start", turn')
      BY <1>a, <2>2, <3>1, <3>2, <3>4, AppendKinds DEF NoStart
    <3>6. NoCompletion' /\ running' = 0
      BY <2>1, <3>1, <3>2 DEF NoCompletion
    <3> QED
      BY <2>1, <2>3, <3>2, <3>3, <3>5, <3>6
      DEF Flow, OneCompletion, RunsFirst, StartsFirst, NothingLeft, LostIsOver, OwnOutcome, NoCompletion
  <2>4. CASE ~alive
    <3>1. running = 0
      BY <2>4 DEF LostIsOver
    <3>2. queue' = <<>> /\ wire' = <<>> /\ alive' = TRUE /\ requests' = <<r>>
      BY <1>1, <2>4 DEF StartTurn
    <3>3. AtMostOne(queue', "completed") /\ Only(queue', "completed", turn')
          /\ AtMostOne(wire', "completed") /\ Only(wire', "completed", turn') /\ NoCompletion'
      BY <3>2, EmptyKinds DEF NoCompletion
    <3>4. AtMostOne(requests', "start") /\ Only(requests', "start", turn')
      BY <2>2, <3>2 DEF AtMostOne, Only
    <3> QED
      BY <2>1, <3>1, <3>2, <3>3, <3>4
      DEF Flow, OneCompletion, RunsFirst, StartsFirst, NothingLeft, LostIsOver, OwnOutcome, NoCompletion
  <2> QED
    BY <1>a, <2>3, <2>4
<1>2. CASE Consume
  <2>1. queue # <<>> /\ queue' = Tail(queue) /\ Head(queue) \in Items \cup Completions
        /\ wire' = wire /\ requests' = requests /\ running' = running /\ alive' = alive
        /\ turn' = turn /\ driver = "consume" /\ driver' # "abort"
    BY <1>2, <1>a, SeqTypes DEF Consume, serverVars, EndTurn
  <2>2. LostIsOver'
    BY <2>1 DEF LostIsOver
  <2>3. CASE Head(queue).kind = "completed"
    <3>1. Lacks(queue', "completed") /\ Head(queue).turn = turn /\ ~Lacks(queue, "completed")
      BY <1>a, <2>1, <2>3, TailKinds DEF Flow, OneCompletion
    <3>2. NoCompletion' /\ NoStart /\ running = 0
      BY <2>1, <3>1 DEF Flow, OneCompletion, NoCompletion, RunsFirst, StartsFirst
    <3>3. OneCompletion' /\ RunsFirst' /\ StartsFirst' /\ NothingLeft'
      <4>1. OneCompletion'
        BY <1>b, <1>a, <2>1, <3>2 DEF Flow, OneCompletion, Keeps, NoCompletion
      <4> QED
        BY <2>1, <3>2, <4>1 DEF Flow, RunsFirst, StartsFirst, NothingLeft, NoStart
    <3>4. OwnOutcome'
      <4>1. endedBy' = [endedBy EXCEPT ![turn] = turn]
        BY <1>2, <2>3, <3>1 DEF Consume, EndTurn
      <4> QED
        BY <4>1, <1>a DEF OwnOutcome
    <3> QED
      BY <2>1, <2>2, <3>3, <3>4 DEF Flow
  <2>4. CASE Head(queue).kind # "completed"
    <3>1. driver' = driver /\ endedBy' = endedBy
      BY <1>2, <2>4 DEF Consume
    <3>2. Flow'
      BY <1>b, <2>1, <3>1, QuietStep
    <3> QED
      BY <2>1, <2>2, <3>1, <3>2 DEF OwnOutcome
  <2> QED
    BY <2>3, <2>4
<1>3. CASE DetectLoss
  <2>1. /\ queue' = queue /\ wire' = wire /\ requests' = requests /\ turn' = turn
        /\ running' = running /\ alive' = alive /\ ~alive /\ driver' = "idle"
    BY <1>3 DEF DetectLoss, EndTurn, serverVars
  <2>2. Flow'
    BY <1>b, <2>1, QuietStep
  <2>3. OwnOutcome'
    BY <1>3, EndedByNone DEF DetectLoss
  <2> QED
    BY <2>1, <2>2, <2>3 DEF LostIsOver
<1>4. CASE TimeOut
  BY <1>4, UseTypes, Bounds DEF TimeOut, Typed, TypeOK
<1>5. CASE ReadResponse
  <2>1. /\ wire # <<>> /\ wire' = Tail(wire) /\ queue' = queue /\ requests' = requests
        /\ turn' = turn /\ running' = running /\ alive' = alive /\ endedBy' = endedBy
        /\ driver' = driver \/ driver' = "consume"
    BY <1>5 DEF ReadResponse, serverVars
  <2>2. Flow'
    BY <1>b, <2>1, QuietStep
  <2> QED
    BY <2>1, <2>2 DEF LostIsOver, OwnOutcome
<1>6. CASE ReadNotification
  <2>1. /\ wire # <<>> /\ wire' = Tail(wire) /\ queue' = Append(queue, Head(wire))
        /\ requests' = requests /\ turn' = turn /\ driver' = driver /\ endedBy' = endedBy
        /\ running' = running /\ alive' = alive
        /\ Head(wire).kind \in {"item", "completed"}
    BY <1>6 DEF ReadNotification, clientVars, serverVars
  <2>2. Head(wire) \in Items \cup Completions
    BY <1>a, <2>1, SeqTypes, FrameTypes
  <2>3. CASE Head(wire).kind = "completed"
    <3>1. /\ ~Lacks(wire, "completed") /\ Lacks(wire', "completed") /\ Head(wire).turn = turn
          /\ AtMostOne(wire', "completed") /\ Only(wire', "completed", turn)
      BY <1>a, <2>1, <2>3, TailKinds DEF Flow, OneCompletion
    <3>2. Lacks(queue, "completed") /\ Only(queue, "completed", turn) /\ ~NoCompletion
      BY <3>1 DEF Flow, OneCompletion, NoCompletion
    <3>3. AtMostOne(queue', "completed") /\ Only(queue', "completed", turn)
      BY <1>a, <2>1, <2>2, <3>1, <3>2, AppendKinds
    <3>4. running = 0 /\ NoStart /\ ~(driver = "idle" /\ alive)
      BY <3>2 DEF Flow, RunsFirst, StartsFirst, NothingLeft
    <3> QED
      BY <2>1, <3>1, <3>3, <3>4
      DEF Flow, OneCompletion, RunsFirst, StartsFirst, NothingLeft, LostIsOver, OwnOutcome, NoStart
  <2>4. CASE Head(wire).kind # "completed"
    <3>1. Keeps(queue, queue', "completed")
      BY <1>a, <2>1, <2>2, <2>4, KeepsWhat
    <3>2. Flow'
      BY <1>b, <2>1, <3>1, QuietStep
    <3> QED
      BY <2>1, <3>2 DEF LostIsOver, OwnOutcome
  <2> QED
    BY <2>3, <2>4
<1>7. CASE ReadAsk
  <2>1. /\ wire # <<>> /\ wire' = Tail(wire) /\ queue' = queue /\ requests' = requests
        /\ turn' = turn /\ running' = running /\ alive' = alive /\ endedBy' = endedBy
        /\ driver' = driver
    BY <1>7 DEF ReadAsk, serverVars, clientVars
  <2>2. Flow'
    BY <1>b, <2>1, QuietStep
  <2> QED
    BY <2>1, <2>2 DEF LostIsOver, OwnOutcome
<1>8. CASE AnswerAsk
  <2>1. /\ wire' = wire /\ queue' = queue /\ requests' = requests
        /\ running' = running /\ alive' = alive
        /\ (UNCHANGED clientVars) \/ (~alive /\ FailPending)
    BY <1>8, <1>a DEF AnswerAsk
  <2>2. /\ turn' = turn /\ driver' # "abort" /\ OwnOutcome'
        /\ driver' = "idle" /\ alive' => driver = "idle" /\ alive
    BY <1>c, <2>1 DEF clientVars, OwnOutcome
  <2>3. Flow'
    BY <1>b, <2>1, <2>2, QuietStep
  <2> QED
    BY <2>1, <2>2, <2>3 DEF LostIsOver
<1>9. CASE ReaderExits
  <2>1. /\ wire' = wire /\ queue' = queue /\ requests' = requests
        /\ running' = running /\ alive' = alive /\ ~alive /\ FailPending
    BY <1>9 DEF ReaderExits, serverVars
  <2>2. Flow'
    BY <1>b, <1>c, <2>1, QuietStep
  <2> QED
    BY <1>c, <2>1, <2>2 DEF LostIsOver
<1>10. CASE Interrupt
  <2>1. /\ turn \in Turns
        /\ wire' = wire /\ queue' = queue /\ turn' = turn /\ driver' = driver
        /\ running' = running /\ alive' = alive /\ alive /\ endedBy' = endedBy
        /\ requests' = Append(requests, Request("interrupt", "control", turn))
    BY <1>10, <1>a DEF Interrupt, serverVars, Turns, Typed
  <2>2. Request("interrupt", "control", turn) \in Calls
        /\ Request("interrupt", "control", turn).kind # "start"
    BY <2>1, FrameTypes DEF Request
  <2>3. Keeps(requests, requests', "start")
    BY <1>a, <2>1, <2>2, KeepsWhat
  <2>4. Flow'
    BY <1>b, <2>1, <2>3, QuietStep
  <2> QED
    BY <2>1, <2>4 DEF LostIsOver, OwnOutcome
<1>11. CASE ServerReads
  <2> DEFINE r == Head(requests)
  <2>1. /\ requests # <<>> /\ alive /\ requests' = Tail(requests)
        /\ queue' = queue /\ turn' = turn /\ driver' = driver /\ endedBy' = endedBy
        /\ alive' = alive
    BY <1>11, ServerAnswers DEF ServerReads, clientVars
  <2>2. r \in Calls /\ Response(r) \in Frames /\ Response(r).kind # "completed"
    BY <1>11, ServerAnswers DEF Response
  <2>3. Keeps(wire, Append(wire, Response(r)), "completed")
        /\ Append(wire, Response(r)) \in Seq(Frames)
    BY <1>a, <2>2, KeepsWhat, SeqTypes
  <2>4. CASE r.kind = "start" /\ running' = r.turn /\ wire' = Append(wire, Response(r))
    <3>1. ~NoStart /\ r.turn = turn /\ Lacks(requests', "start")
          /\ AtMostOne(requests', "start") /\ Only(requests', "start", turn)
      BY <1>a, <2>1, <2>4, TailKinds DEF Flow, StartsFirst, NoStart
    <3>2. NoCompletion /\ ~(driver = "idle" /\ alive)
      BY <3>1 DEF Flow, StartsFirst, NothingLeft
    <3>3. OneCompletion' /\ NoCompletion'
      BY <1>a, <2>1, <2>3, <2>4, <3>2 DEF Flow, OneCompletion, Keeps, NoCompletion
    <3> QED
      BY <2>1, <2>4, <3>1, <3>2, <3>3
      DEF Flow, RunsFirst, StartsFirst, NothingLeft, LostIsOver, OwnOutcome, NoStart
  <2>5. CASE r.kind # "start" /\ running' = 0 /\ running = 0 /\ wire' = Append(wire, Response(r))
    <3>1. Flow'
      BY <1>b, <2>1, <2>3, <2>5, QuietStep
    <3> QED
      BY <2>1, <3>1 DEF LostIsOver, OwnOutcome
  <2>6. CASE r.kind # "start" /\ running' = 0 /\ running \in Turns
             /\ wire' = Append(Append(wire, Response(r)), Completed(running, "interrupted"))
    <3>1. running # 0 /\ "interrupted" \in Statuses
      BY <2>6 DEF Turns, Statuses
    <3>2. Lacks(Append(wire, Response(r)), "completed")
      BY <2>3, <3>1 DEF Flow, RunsFirst, NoCompletion, Keeps
    <3>3. Flow'
      BY <1>b, <2>1, <2>3, <2>6, <3>1, <3>2, CompletionSent
    <3> QED
      BY <2>1, <3>3 DEF LostIsOver, OwnOutcome
  <2> QED
    BY <1>11, <2>4, <2>5, <2>6, ServerAnswers
<1>12. CASE ServerItem
  <2>1. /\ running \in Turns /\ wire' = Append(wire, Item(running))
        /\ queue' = queue /\ requests' = requests /\ turn' = turn /\ driver' = driver
        /\ running' = running /\ alive' = alive /\ endedBy' = endedBy
    BY <1>12, <1>a DEF ServerItem, clientVars, serverVars, Turns
  <2>2. Item(running) \in Frames /\ Item(running).kind # "completed"
    BY <2>1, FrameTypes DEF Item
  <2>3. Keeps(wire, wire', "completed")
    BY <1>a, <2>1, <2>2, KeepsWhat
  <2>4. Flow'
    BY <1>b, <2>1, <2>3, QuietStep
  <2> QED
    BY <2>1, <2>4 DEF LostIsOver, OwnOutcome
<1>13. CASE ServerAsks
  <2>1. /\ wire' = Append(wire, [kind |-> "ask"])
        /\ queue' = queue /\ requests' = requests /\ turn' = turn /\ driver' = driver
        /\ running' = running /\ alive' = alive /\ endedBy' = endedBy
    BY <1>13 DEF ServerAsks, clientVars
  <2>2. Keeps(wire, wire', "completed")
    BY <1>a, <2>1, FrameTypes, KeepsWhat
  <2>3. Flow'
    BY <1>b, <2>1, <2>2, QuietStep
  <2> QED
    BY <2>1, <2>3 DEF LostIsOver, OwnOutcome
<1>14. CASE ServerCompletes
  <2>1. /\ queue' = queue /\ requests' = requests /\ turn' = turn /\ driver' = driver
        /\ running # 0 /\ running' = 0 /\ alive' = alive /\ endedBy' = endedBy
    BY <1>14 DEF ServerCompletes, clientVars
  <2>2. PICK status \in Statuses : wire' = Append(wire, Completed(running, status))
    BY <1>14 DEF ServerCompletes, Statuses
  <2>3. Lacks(wire, "completed")
    BY <2>1 DEF Flow, RunsFirst, NoCompletion
  <2>4. Flow'
    BY <1>a, <1>b, <2>1, <2>2, <2>3, CompletionSent
  <2> QED
    BY <2>1, <2>4 DEF LostIsOver, OwnOutcome
<1>15. CASE LoseConnection
  <2>1. /\ queue' = queue /\ wire' = wire /\ requests' = <<>> /\ turn' = turn
        /\ driver' = driver /\ endedBy' = endedBy /\ running' = 0 /\ ~alive'
    BY <1>15 DEF LoseConnection, clientVars
  <2>2. Flow'
    BY <1>b, <2>1, QuietStep
  <2> QED
    BY <2>1, <2>2 DEF LostIsOver, OwnOutcome
<1>16. CASE UNCHANGED vars
  <2>1. /\ queue' = queue /\ wire' = wire /\ requests' = requests /\ turn' = turn
        /\ driver' = driver /\ endedBy' = endedBy /\ running' = running /\ alive' = alive
    BY <1>16 DEF vars, clientVars, serverVars
  <2>2. Flow'
    BY <1>b, <2>1, QuietStep
  <2> QED
    BY <2>1, <2>2 DEF LostIsOver, OwnOutcome
<1> QED
  BY <1>1, <1>2, <1>3, <1>4, <1>5, <1>6, <1>7, <1>8, <1>9, <1>10, <1>11, <1>12, <1>13, <1>14,
     <1>15, <1>16 DEF Next, DriverStep, ReaderStep, ServerStep

\* A timeout that has come stays counted.
LEMMA TimeoutsStay ==
    ASSUME Typed, [Next]_vars, used'["timeout"] = 0 PROVE used["timeout"] = 0
<1>1. "timeout" \in DOMAIN Bound /\ used \in [DOMAIN Bound -> Nat]
      /\ \A b \in DOMAIN Bound : used[b] \in 0..Bound[b]
  BY Bounds DEF Typed, TypeOK
<1>2. ASSUME NEW b \in DOMAIN Bound, Use(b) PROVE used["timeout"] = 0
  BY <1>1, <1>2, UseTypes
<1>3. (\E b \in DOMAIN Bound : Use(b)) \/ used' = used
  BY Bounds DEF Next, DriverStep, ReaderStep, ServerStep, StartTurn, Consume, DetectLoss, TimeOut,
     ReadResponse, ReadNotification, ReadAsk, AnswerAsk, ReaderExits, Interrupt, ServerReads,
     ServerItem, ServerAsks, ServerCompletes, LoseConnection, vars
<1> QED
  BY <1>2, <1>3

\* However interrupts, questions, items and lost connections interleave with the
\* turns, what is on its way on the connection belongs to the current turn, as long
\* as no timeout has killed one.
THEOREM OwnInvHolds == Spec => []OwnInv
<1>1. Init => OwnInv
  <2> SUFFICES ASSUME Init PROVE OwnInv
    OBVIOUS
  <2>1. NoCompletion /\ NoStart
    BY EmptyKinds DEF Init, NoCompletion, NoStart
  <2>2. /\ AtMostOne(queue, "completed") /\ AtMostOne(wire, "completed") /\ AtMostOne(requests, "start")
        /\ Only(queue, "completed", turn) /\ Only(wire, "completed", turn) /\ Only(requests, "start", turn)
    BY EmptyKinds DEF Init
  <2>3. OwnOutcome
    BY DEF Init, OwnOutcome
  <2> QED
    BY <2>1, <2>2, <2>3
    DEF Init, OwnInv, OneCompletion, RunsFirst, StartsFirst, NothingLeft, LostIsOver, NoCompletion
<1>2. Typed /\ OwnInv /\ [Next]_vars => OwnInv'
  <2> SUFFICES ASSUME Typed, OwnInv, [Next]_vars, used'["timeout"] = 0
               PROVE  Flow' /\ LostIsOver' /\ driver' # "abort" /\ OwnOutcome'
    BY DEF OwnInv, Flow
  <2>1. used["timeout"] = 0
    BY TimeoutsStay
  <2>2. Flow /\ LostIsOver /\ driver # "abort" /\ OwnOutcome
    BY <2>1 DEF OwnInv, Flow
  <2> QED
    BY <2>1, <2>2, FlowStep
<1> QED
  BY <1>1, <1>2, TypeCorrect, PTL DEF Spec

\* As long as no timeout has killed a turn of the workspace, every run gets the
\* outcome of its own turn, for any number of turns that are interrupted, ask the
\* user or lose their connection.
THEOREM OwnOutcomeHolds == Spec => []OwnOutcomeBarTimeouts
<1>1. OwnInv => OwnOutcomeBarTimeouts
  BY DEF OwnInv, OwnOutcomeBarTimeouts
<1> QED
  BY <1>1, OwnInvHolds, PTL

=============================================================================
