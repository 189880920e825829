------------------------------ MODULE CodexTurn ------------------------------
(***************************************************************************)
(* The turns of one workspace on its Codex app-server connection:          *)
(* agent-core codex_app_server.py, driven by the worker's agents/codex.py. *)
(*                                                                         *)
(* Three tasks share a JSON-RPC client: the read loop, which dispatches    *)
(* every frame and runs the handler of a server request inline; run_turn,  *)
(* which starts a turn and drains the notification queue; and the control  *)
(* consumer, which may send turn/interrupt at any time.  The connection    *)
(* and its queue outlive a turn: _get_or_open_session gives the next run   *)
(* the same client as long as the WebSocket is open.  The app-server is    *)
(* external, as the client uses it.                                        *)
(***************************************************************************)
EXTENDS Naturals, Sequences

CONSTANTS
    MaxTurns,       \* bound: runs of the workspace, all on one thread
    MaxTimeouts,    \* bound: turns killed by one of the two timeouts
    MaxInterrupts,  \* bound: turn/interrupt requests of the control consumer
    MaxAsks,        \* bound: requestUserInput calls
    MaxItems,       \* bound: item notifications
    MaxLosses       \* bound: connections lost

ASSUME CodexAssumption ==
    {MaxTurns, MaxTimeouts, MaxInterrupts, MaxAsks, MaxItems, MaxLosses} \subseteq Nat

Turns == 1..MaxTurns

VARIABLES
    turn,      \* the run in progress, or the last
    driver,    \* where run_turn stands
    outcome,   \* the status each run got by on_turn_completed
    endedBy,   \* the turn whose notification ended it, 0 for no notification
    queue,     \* _notifications
    reader,    \* the read loop: reading, in a handler, or over
    control,   \* handle_control: idle, or waiting for its response
    alive,     \* is_alive()
    wire,      \* frames of the app-server not yet read
    requests,  \* requests the app-server has not yet read
    running,   \* app-server: the turn it runs, 0 for none
    blocked,   \* app-server: it waits for the user's answers
    used       \* how much of each bound is used

clientVars == <<turn, driver, outcome, endedBy, control>>
serverVars == <<running, blocked>>
vars == <<clientVars, queue, reader, alive, wire, requests, serverVars, used>>

Bound == [timeout |-> MaxTimeouts, interrupt |-> MaxInterrupts, ask |-> MaxAsks,
          item |-> MaxItems, loss |-> MaxLosses]
Use(b) == used[b] < Bound[b] /\ used' = [used EXCEPT ![b] = @ + 1]

Request(kind, by, t) == [kind |-> kind, by |-> by, turn |-> t]
Response(request)    == [kind |-> "response", to |-> request.by, turn |-> request.turn]
Item(t)              == [kind |-> "item", turn |-> t]
Completed(t, status) == [kind |-> "completed", turn |-> t, status |-> status]

EndTurn(status, by) ==
    /\ driver' = "idle"
    /\ outcome' = [outcome EXCEPT ![turn] = status]
    /\ endedBy' = [endedBy EXCEPT ![turn] = by]
    /\ UNCHANGED turn

-----------------------------------------------------------------------------
Init ==
    /\ turn = 0 /\ driver = "idle"
    /\ outcome = [t \in Turns |-> "none"]
    /\ endedBy = [t \in Turns |-> 0]
    /\ queue = <<>> /\ reader = "reading" /\ control = "idle" /\ alive = TRUE
    /\ wire = <<>> /\ requests = <<>> /\ running = 0 /\ blocked = FALSE
    /\ used = [b \in DOMAIN Bound |-> 0]

-----------------------------------------------------------------------------
(* run_turn *)

\* Mutant: a new connection gets the notification queue of the old one.
StartTurnOldQueue ==
    /\ driver = "idle" /\ turn < MaxTurns
    /\ turn' = turn + 1
    /\ driver' = "start"
    /\ IF alive
       THEN /\ requests' = Append(requests, Request("start", "driver", turn + 1))
            /\ UNCHANGED <<reader, alive, wire>>
       ELSE /\ requests' = <<Request("start", "driver", turn + 1)>>
            /\ wire' = <<>> /\ reader' = "reading" /\ alive' = TRUE
    /\ control' = "idle"
    /\ UNCHANGED <<queue, outcome, endedBy, serverVars, used>>

\* _get_or_open_session: a dead client is dropped, a live one is used as it is.
\* Then the turn/start request.  Each run has a control consumer of its own.
StartTurn ==
    /\ driver = "idle" /\ turn < MaxTurns
    /\ turn' = turn + 1
    /\ driver' = "start"
    /\ IF alive
       THEN /\ requests' = Append(requests, Request("start", "driver", turn + 1))
            /\ UNCHANGED <<queue, reader, alive, wire>>
       ELSE /\ requests' = <<Request("start", "driver", turn + 1)>>
            /\ queue' = <<>> /\ wire' = <<>> /\ reader' = "reading" /\ alive' = TRUE
    /\ control' = "idle"
    /\ UNCHANGED <<outcome, endedBy, serverVars, used>>

\* _consume_turn takes the next notification of the thread.
Consume ==
    /\ driver = "consume" /\ queue # <<>>
    /\ queue' = Tail(queue)
    /\ IF Head(queue).kind = "completed"
       THEN EndTurn(Head(queue).status, Head(queue).turn)
       ELSE UNCHANGED <<turn, driver, outcome, endedBy>>
    /\ UNCHANGED <<control, reader, alive, wire, requests, serverVars, used>>

\* TurnInactivityError or TurnTimeoutError: run_turn sends turn/interrupt and waits
\* for its response; on a dead WebSocket the send raises, which is suppressed.
TimeOut ==
    /\ driver = "consume" /\ Use("timeout")
    /\ IF alive
       THEN /\ driver' = "abort"
            /\ requests' = Append(requests, Request("interrupt", "driver", turn))
            /\ UNCHANGED <<turn, outcome, endedBy>>
       ELSE EndTurn("failed", 0) /\ UNCHANGED requests
    /\ UNCHANGED <<control, queue, reader, alive, wire, serverVars>>

\* ConnectionLostError: silence and a dead WebSocket.
DetectLoss ==
    /\ driver = "consume" /\ queue = <<>> /\ ~alive
    /\ EndTurn("failed", 0)
    /\ UNCHANGED <<control, queue, reader, alive, wire, requests, serverVars, used>>

-----------------------------------------------------------------------------
(* _read_loop *)

\* A response resolves the future of its request, if anyone still waits for it.
ReadResponse ==
    /\ reader = "reading" /\ wire # <<>> /\ Head(wire).kind = "response"
    /\ wire' = Tail(wire)
    /\ \/ /\ Head(wire).to = "control"
          /\ control' = IF Head(wire).turn = turn THEN "idle" ELSE control
          /\ UNCHANGED <<turn, driver, outcome, endedBy>>
       \/ /\ Head(wire).to = "driver" /\ driver = "start"
          /\ driver' = "consume"
          /\ UNCHANGED <<turn, outcome, endedBy, control>>
       \/ /\ Head(wire).to = "driver" /\ driver = "abort"
          /\ EndTurn("failed", 0)
          /\ UNCHANGED control
    /\ UNCHANGED <<queue, reader, alive, requests, serverVars, used>>

ReadNotification ==
    /\ reader = "reading" /\ wire # <<>>
    /\ Head(wire).kind \in {"item", "completed"}
    /\ wire' = Tail(wire)
    /\ queue' = Append(queue, Head(wire))
    /\ UNCHANGED <<clientVars, reader, alive, requests, serverVars, used>>

\* item/tool/requestUserInput: the loop awaits the handler.
ReadAsk ==
    /\ reader = "reading" /\ wire # <<>> /\ Head(wire).kind = "ask"
    /\ wire' = Tail(wire)
    /\ reader' = "asking"
    /\ UNCHANGED <<clientVars, queue, alive, requests, serverVars, used>>

\* Mutant: the loop ends without a word to those who wait.
FailNothing ==
    /\ reader' = "over"
    /\ UNCHANGED clientVars

\* The loop is over: every pending future gets an exception.  A turn whose start
\* fails is reported failed, and its client dropped by the next StartTurn.
FailPending ==
    /\ reader' = "over"
    /\ control' = "idle"
    /\ IF driver \in {"start", "abort"} THEN EndTurn("failed", 0)
       ELSE UNCHANGED <<turn, driver, outcome, endedBy>>

\* The handler returns (answers, timeout or interrupt); the reply is written.
AnswerAsk ==
    /\ reader = "asking"
    /\ IF alive
       THEN reader' = "reading" /\ blocked' = FALSE /\ UNCHANGED clientVars
       ELSE FailPending /\ UNCHANGED blocked
    /\ UNCHANGED <<queue, alive, wire, requests, running, used>>

ReaderExits ==
    /\ reader = "reading" /\ wire = <<>> /\ ~alive
    /\ FailPending
    /\ UNCHANGED <<queue, alive, wire, requests, serverVars, used>>

-----------------------------------------------------------------------------
(* CodexAgent.handle_control, while the run has its session *)

Interrupt ==
    /\ control = "idle" /\ driver # "idle" /\ alive
    /\ Use("interrupt")
    /\ control' = "waiting"
    /\ requests' = Append(requests, Request("interrupt", "control", turn))
    /\ UNCHANGED <<turn, driver, outcome, endedBy, queue, reader, alive, wire,
                   serverVars>>

-----------------------------------------------------------------------------
(* The app-server and the network *)

\* A turn/interrupt without a turn is answered with an error, which the client
\* suppresses like the result.
ServerReads ==
    /\ alive /\ requests # <<>>
    /\ requests' = Tail(requests)
    /\ IF Head(requests).kind = "start"
       THEN /\ running' = Head(requests).turn /\ blocked' = FALSE
            /\ wire' = Append(wire, Response(Head(requests)))
       ELSE /\ running' = 0 /\ blocked' = FALSE
            /\ wire' = wire \o <<Response(Head(requests))>>
                            \o (IF running = 0 THEN <<>>
                                ELSE <<Completed(running, "interrupted")>>)
    /\ UNCHANGED <<clientVars, queue, reader, alive, used>>

ServerItem ==
    /\ alive /\ running # 0 /\ ~blocked /\ Use("item")
    /\ wire' = Append(wire, Item(running))
    /\ UNCHANGED <<clientVars, queue, reader, alive, requests, serverVars>>

ServerAsks ==
    /\ alive /\ running # 0 /\ ~blocked /\ Use("ask")
    /\ blocked' = TRUE
    /\ wire' = Append(wire, [kind |-> "ask"])
    /\ UNCHANGED <<clientVars, queue, reader, alive, requests, running>>

ServerCompletes ==
    /\ alive /\ running # 0 /\ ~blocked
    /\ \E status \in {"completed", "failed"} :
          wire' = Append(wire, Completed(running, status))
    /\ running' = 0
    /\ UNCHANGED <<clientVars, queue, reader, alive, requests, blocked, used>>

\* What the client has received it can still read; the turn is gone.
LoseConnection ==
    /\ alive /\ Use("loss")
    /\ alive' = FALSE
    /\ requests' = <<>>
    /\ running' = 0 /\ blocked' = FALSE
    /\ UNCHANGED <<clientVars, queue, reader, wire>>

-----------------------------------------------------------------------------
DriverStep == Consume \/ DetectLoss
ReaderStep == ReadResponse \/ ReadNotification \/ ReadAsk \/ AnswerAsk \/ ReaderExits
ServerStep == ServerItem \/ ServerAsks \/ ServerCompletes \/ LoseConnection

Next == \/ StartTurn \/ DriverStep \/ TimeOut \/ ReaderStep \/ Interrupt
        \/ ServerReads \/ ServerStep

Spec == Init /\ [][Next]_vars

\* The event loop runs its tasks, handlers end (wait_for_answers has a timeout),
\* the two timeouts of a turn come, and a live app-server answers requests.  It
\* need not make progress with a turn.
FairSpec ==
    /\ Spec
    /\ WF_vars(DriverStep) /\ WF_vars(ReaderStep) /\ WF_vars(ServerReads)
    /\ WF_vars(TimeOut)

-----------------------------------------------------------------------------
TypeOK ==
    /\ turn \in 0..MaxTurns
    /\ driver \in {"idle", "start", "consume", "abort"}
    /\ outcome \in [Turns -> {"none", "completed", "interrupted", "failed"}]
    /\ endedBy \in [Turns -> 0..MaxTurns]
    /\ queue \in Seq([kind : {"item"}, turn : Turns] \cup
                     [kind : {"completed"}, turn : Turns,
                      status : {"completed", "interrupted", "failed"}])
    /\ reader \in {"reading", "asking", "over"}
    /\ control \in {"idle", "waiting"}
    /\ alive \in BOOLEAN /\ blocked \in BOOLEAN
    /\ running \in 0..MaxTurns
    /\ \A b \in DOMAIN Bound : used[b] \in 0..Bound[b]

\* A run is ended by its own turn, by a timeout or by the loss of its connection,
\* never by a notification that another turn has left in the queue ("Drain Codex
\* notifications for this turn").
OwnOutcome == \A t \in Turns : endedBy[t] \in {0, t}

\* The timeouts are the only way to that: as long as none has killed a turn, every
\* run gets its own outcome, whatever was interrupted, asked or lost before it.
OwnOutcomeBarTimeouts == used["timeout"] = 0 => OwnOutcome

\* A run ends, although Codex may stop making progress, the user may not answer,
\* the control consumer may interrupt and the connection may break meanwhile.
EveryTurnEnds == driver # "idle" ~> driver = "idle"

\* The control consumer never waits for its response for ever: a later steer or
\* interrupt of the session finds it again.
ControlReturns == control = "waiting" ~> control = "idle"

=============================================================================
