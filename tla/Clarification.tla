---------------------------- MODULE Clarification ----------------------------
(***************************************************************************)
(* A clarification round: the worker asks the user a batch of questions and *)
(* waits for the answers (worker clarification.py, wait_for_answers), the  *)
(* API stores and forwards them (routes/clarify.py), the browser shows the *)
(* card (routes/sessions.py, stream_session_events, and the reducer        *)
(* applySessionEvent).  One session, whose agents ask one request after    *)
(* another.  The row of the request outlives everything else; the three    *)
(* pub/sub channels (events, clarification, control) keep nothing: who has *)
(* not subscribed when a message is published never sees it.               *)
(***************************************************************************)
EXTENDS Naturals, Sequences

CONSTANTS
    MaxRequests,  \* bound: requests the agents ask
    Answers,      \* what a user may answer
    Submits,      \* bound: POST /clarify/response calls
    MaxControls,  \* bound: interrupt and steer calls
    MaxLoads      \* bound: page loads of the browser

ASSUME ClarificationAssumption ==
    /\ MaxRequests \in Nat /\ MaxControls \in Nat /\ MaxLoads \in Nat
    /\ Answers \cap {"none", "timeout", "interrupt", "steer"} = {}

Requests == 1..MaxRequests
NoAnswer == "no answer"

VARIABLES
    row,       \* clarifications.status by request_id
    stored,    \* clarifications.answers_jsonb
    asked,     \* the request_id of the wait in progress, or of the last
    waiter,    \* where wait_for_answers stands
    inbox,     \* what its subscription to the two channels has received
    result,    \* how the wait for each request ended
    submit,    \* the POST /clarify/response calls
    interrupted,
    controls,
    stream,    \* the browser's EventSource: off, read snapshot, open
    snapshot,  \* the pending request the route read, 0 for none
    feed,      \* frames sent to the browser and not yet reduced
    card,      \* clarificationRequest: the request on screen, 0 for none
    loads

workerVars  == <<asked, waiter, inbox, result>>
dbVars      == <<row, stored>>
controlVars == <<interrupted, controls>>
browserVars == <<stream, snapshot, feed, card, loads>>
vars == <<dbVars, workerVars, submit, controlVars, browserVars>>

Frame(kind, r) == [kind |-> kind, request |-> r]

\* PUBLISH on the session events channel.
ToBrowser(frame) ==
    /\ feed' = IF stream = "open" THEN Append(feed, frame) ELSE feed
    /\ UNCHANGED <<stream, snapshot, card, loads>>

\* PUBLISH on the clarification or the control channel.
ToWaiter(message) ==
    /\ inbox' = IF waiter = "listen" THEN Append(inbox, message) ELSE inbox
    /\ UNCHANGED <<asked, waiter, result>>

\* ORDER BY created_at DESC LIMIT 1 over the pending rows.
Pending       == {r \in Requests : row[r] = "pending"}
LatestPending == IF Pending = {} THEN 0
                 ELSE CHOOSE r \in Pending : \A q \in Pending : q <= r

-----------------------------------------------------------------------------
Init ==
    /\ row = [r \in Requests |-> "none"]
    /\ stored = [r \in Requests |-> NoAnswer]
    /\ asked = 0 /\ waiter = "idle" /\ inbox = <<>>
    /\ result = [r \in Requests |-> "none"]
    /\ submit = [u \in Submits |-> [at |-> "idle", request |-> 0,
                                    answer |-> NoAnswer, page |-> 0]]
    /\ interrupted = FALSE /\ controls = 0
    /\ stream = "off" /\ snapshot = 0 /\ feed = <<>> /\ card = 0 /\ loads = 0

-----------------------------------------------------------------------------
(* wait_for_answers *)

Ask ==
    /\ waiter = "idle" /\ ~interrupted /\ asked < MaxRequests
    /\ asked' = asked + 1
    /\ row' = [row EXCEPT ![asked + 1] = "pending"]
    /\ waiter' = "publish"
    /\ UNCHANGED <<stored, inbox, result, submit, controlVars, browserVars>>

PublishRequest ==
    /\ waiter = "publish"
    /\ ToBrowser(Frame("requested", asked))
    /\ waiter' = "subscribe"
    /\ UNCHANGED <<dbVars, asked, inbox, result, submit, controlVars>>

\* SUBSCRIBE comes after the request is out.
Listen ==
    /\ waiter = "subscribe"
    /\ waiter' = "listen"
    /\ inbox' = <<>>
    /\ UNCHANGED <<dbVars, asked, result, submit, controlVars, browserVars>>

EndWait(how) ==
    /\ result' = [result EXCEPT ![asked] = how]
    /\ waiter' = "idle"
    /\ inbox' = <<>>
    /\ UNCHANGED asked

\* Any message of the control channel ends the wait with {}.
ReceiveControl ==
    /\ waiter = "listen" /\ inbox # <<>>
    /\ Head(inbox).kind # "answer"
    /\ EndWait(Head(inbox).kind)
    /\ UNCHANGED <<dbVars, submit, controlVars, browserVars>>

\* Mutants: any answer ends the wait; an answer to another request is not taken
\* off the subscription.
ReceiveAnyAnswer ==
    /\ waiter = "listen" /\ inbox # <<>>
    /\ Head(inbox).kind = "answer"
    /\ EndWait(Head(inbox).answer) /\ ToBrowser(Frame("answered", asked))
    /\ UNCHANGED <<dbVars, submit, controlVars>>

ReceiveOwnAnswer ==
    /\ waiter = "listen" /\ inbox # <<>>
    /\ Head(inbox).kind = "answer" /\ Head(inbox).request = asked
    /\ EndWait(Head(inbox).answer) /\ ToBrowser(Frame("answered", asked))
    /\ UNCHANGED <<dbVars, submit, controlVars>>

\* Answers to the request of this wait end it; others are skipped.
ReceiveAnswer ==
    /\ waiter = "listen" /\ inbox # <<>>
    /\ Head(inbox).kind = "answer"
    /\ IF Head(inbox).request = asked
       THEN EndWait(Head(inbox).answer) /\ ToBrowser(Frame("answered", asked))
       ELSE inbox' = Tail(inbox) /\ UNCHANGED <<asked, waiter, result, browserVars>>
    /\ UNCHANGED <<dbVars, submit, controlVars>>

\* timeout_seconds are over; the row stays as it is.
TimeOut ==
    /\ waiter = "listen"
    /\ EndWait("timeout")
    /\ UNCHANGED <<dbVars, submit, controlVars, browserVars>>

-----------------------------------------------------------------------------
(* submit_clarification, for the card on the screen *)

SubmitTo(u, to) == submit' = [submit EXCEPT ![u].at = to]

StoreAnswer(u) ==
    /\ submit[u].at = "idle" /\ card # 0
    /\ \E a \in Answers :
          /\ submit' = [submit EXCEPT ![u] =
                           [at |-> "publish", request |-> card, answer |-> a,
                            page |-> loads]]
          /\ stored' = [stored EXCEPT ![card] = a]
    /\ row' = [row EXCEPT ![card] = "answered"]
    /\ UNCHANGED <<workerVars, controlVars, browserVars>>

PublishAnswer(u) ==
    /\ submit[u].at = "publish"
    /\ ToWaiter([kind |-> "answer", request |-> submit[u].request,
                 answer |-> submit[u].answer])
    /\ SubmitTo(u, "ack")
    /\ UNCHANGED <<dbVars, controlVars, browserVars>>

PublishAck(u) ==
    /\ submit[u].at = "ack"
    /\ ToBrowser(Frame("answered", submit[u].request))
    /\ SubmitTo(u, "reply")
    /\ UNCHANGED <<dbVars, workerVars, controlVars>>

\* handleClarificationSubmit clears the card when its POST returns, unless the
\* page has been loaded again meanwhile.
ReceiveReply(u) ==
    /\ submit[u].at = "reply"
    /\ submit' = [submit EXCEPT ![u].at = "done", ![u].page = 0]
    /\ card' = IF submit[u].page = loads THEN 0 ELSE card
    /\ UNCHANGED <<dbVars, workerVars, controlVars, stream, snapshot, feed, loads>>

-----------------------------------------------------------------------------
(* interrupt_session and steer_session: their PUBLISH on the control channel *)

Control(kind) ==
    /\ controls < MaxControls /\ ~interrupted
    /\ controls' = controls + 1
    /\ interrupted' = (kind = "interrupt")
    /\ ToWaiter([kind |-> kind])
    /\ UNCHANGED <<dbVars, submit, browserVars>>

-----------------------------------------------------------------------------
(* The browser and stream_session_events *)

\* loadProject: GET /clarify/pending decides the card; the old stream is closed.
LoadPage ==
    /\ loads < MaxLoads
    /\ loads' = loads + 1
    /\ card' = LatestPending
    /\ stream' = "off" /\ snapshot' = 0 /\ feed' = <<>>
    /\ UNCHANGED <<dbVars, workerVars, submit, controlVars>>

ReadSnapshot ==
    /\ stream = "off"
    /\ stream' = "snapshot"
    /\ snapshot' = LatestPending
    /\ UNCHANGED <<dbVars, workerVars, submit, controlVars, feed, card, loads>>

\* SUBSCRIBE, then the snapshot as the first frame.
OpenStream ==
    /\ stream = "snapshot"
    /\ stream' = "open"
    /\ feed' = IF snapshot = 0 THEN <<>> ELSE <<Frame("requested", snapshot)>>
    /\ snapshot' = 0
    /\ UNCHANGED <<dbVars, workerVars, submit, controlVars, card, loads>>

\* applySessionEvent; an answered frame clears the card, whatever it shows.
ReduceFrame ==
    /\ feed # <<>>
    /\ feed' = Tail(feed)
    /\ card' = IF Head(feed).kind = "requested" THEN Head(feed).request ELSE 0
    /\ UNCHANGED <<dbVars, workerVars, submit, controlVars, stream, snapshot, loads>>

-----------------------------------------------------------------------------
WorkerStep == Ask \/ PublishRequest \/ Listen \/ ReceiveControl \/ ReceiveAnswer
SubmitStep(u) == PublishAnswer(u) \/ PublishAck(u) \/ ReceiveReply(u)
BrowserStep == ReadSnapshot \/ OpenStream \/ ReduceFrame

Next ==
    \/ WorkerStep \/ TimeOut
    \/ \E u \in Submits : StoreAnswer(u) \/ SubmitStep(u)
    \/ \E kind \in {"interrupt", "steer"} : Control(kind)
    \/ BrowserStep \/ LoadPage

Spec == Init /\ [][Next]_vars

\* The worker's loop and a request in progress go on; a timeout need not come.
FairSpec ==
    /\ Spec
    /\ WF_vars(WorkerStep) /\ WF_vars(BrowserStep)
    /\ \A u \in Submits : WF_vars(SubmitStep(u))

-----------------------------------------------------------------------------
TypeOK ==
    /\ row \in [Requests -> {"none", "pending", "answered"}]
    /\ stored \in [Requests -> Answers \cup {NoAnswer}]
    /\ asked \in 0..MaxRequests
    /\ waiter \in {"idle", "publish", "subscribe", "listen"}
    /\ inbox \in Seq([kind : {"answer"}, request : Requests, answer : Answers]
                        \cup [kind : {"interrupt", "steer"}])
    /\ result \in [Requests -> {"none", "timeout", "interrupt", "steer"} \cup Answers]
    /\ submit \in [Submits -> [at : {"idle", "publish", "ack", "reply", "done"},
                               request : 0..MaxRequests,
                               answer : Answers \cup {NoAnswer},
                               page : 0..MaxLoads]]
    /\ interrupted \in BOOLEAN /\ controls \in 0..MaxControls
    /\ stream \in {"off", "snapshot", "open"} /\ snapshot \in 0..MaxRequests
    /\ feed \in Seq([kind : {"requested", "answered"}, request : Requests])
    /\ card \in 0..MaxRequests /\ loads \in 0..MaxLoads

\* A wait that returns answers returns those a user gave to its own request, and
\* the row says so by then: an answer to an earlier request that arrives late
\* is never taken for an answer to the one being asked.
OwnAnswer ==
    \A r \in Requests : result[r] \in Answers =>
        /\ row[r] = "answered"
        /\ \E u \in Submits : submit[u].request = r /\ submit[u].answer = result[r]

\* More than that, the waits of a session keep the contract of AnswerLedger: however
\* loads, lost messages, late and repeated submits interleave, no wait begins before
\* the last one has ended, and none ends twice or with what nobody has given to it.
Ledger == INSTANCE AnswerLedger
          WITH given <- [r \in Requests |->
                            {submit[u].answer : u \in {v \in Submits : submit[v].request = r}}],
               outcome <- result

WaitsKeepLedger == Ledger!Spec

\* An answer that reaches the worker while it waits ends the wait without the
\* timeout, also behind answers to other requests.
HasOwnAnswer ==
    \E i \in 1..Len(inbox) : inbox[i].kind = "answer" /\ inbox[i].request = asked

AnswerUnblocks == (waiter = "listen" /\ HasOwnAnswer) ~> waiter # "listen"

Forwarded(r) == \E u \in Submits :
                   submit[u].request = r /\ submit[u].at \in {"ack", "reply", "done"}

\* A wait never times out on a request whose answer the API has accepted and
\* forwarded ("Worker polls for answers (fallback if missed pubsub)").
NoAnswerMissed ==
    [][\A r \in Requests :
        result[r] = "none" /\ result'[r] = "timeout" /\ inbox = <<>> => ~Forwarded(r)]_vars

\* A wait comes back empty only after a timeout or an interrupt ("Returns ... {}
\* on timeout or interrupt").
EmptyOnlyOnTimeoutOrInterrupt == \A r \in Requests : result[r] # "steer"

\* A browser with an open stream that has reduced all its frames shows the
\* request the worker waits for (the snapshot is there "to close the
\* fire-and-forget pubsub race").
OpenStreamShowsRequest ==
    (/\ stream = "open" /\ feed = <<>>
     /\ waiter = "listen" /\ row[asked] = "pending") => card = asked

\* A card that a page load recovers belongs to a wait in progress ("Frontend
\* calls this on page load to recover any in-flight clarification").
RecoveredIsInFlight ==
    [][loads' # loads /\ card' # card /\ card' # 0 =>
          waiter # "idle" /\ card' = asked]_vars

=============================================================================
