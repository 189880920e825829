----------------------- MODULE Clarification_proofs -----------------------
(***************************************************************************)
(* Proofs about Clarification, for any numbers of requests, submits,       *)
(* controls and page loads and any set of answers.                         *)
(*                                                                         *)
(* That a wait takes only answers of its own request is plain where it     *)
(* takes one; what needs an invariant is that the row is answered by then  *)
(* and stays so.  A later request writes pending into a row of its own     *)
(* only because every card, frame, snapshot and submit speaks of requests  *)
(* that have been asked.                                                   *)
(***************************************************************************)
EXTENDS Clarification, WellFoundedInduction, TLAPS

Submitted == {u \in Submits : submit[u].at # "idle"}

\* Everything the browser knows of has been asked.
Known ==
    /\ waiter # "idle" => asked \in Requests
    /\ \A r \in Requests : r > asked => row[r] = "none"
    /\ snapshot <= asked /\ card <= asked
    /\ \A i \in 1..Len(feed) : feed[i].request <= asked

\* What was submitted was asked, is stored and stays answered.
Stored ==
    \A u \in Submitted :
        /\ submit[u].request \in Requests /\ submit[u].answer \in Answers
        /\ submit[u].request <= asked /\ row[submit[u].request] = "answered"

Given(r, a) == \E u \in Submitted : submit[u].request = r /\ submit[u].answer = a

\* Answers in flight and answers taken were given by a user.
InboxGiven ==
    \A i \in 1..Len(inbox) :
        inbox[i].kind = "answer" => Given(inbox[i].request, inbox[i].answer)

ResultGiven == \A r \in Requests : result[r] \in Answers => Given(r, result[r])

ClarificationInv == TypeOK /\ Known /\ Stored /\ InboxGiven /\ ResultGiven

-----------------------------------------------------------------------------
\* What taking the first element of a queue and adding one leave in it.
LEMMA QueueFacts ==
    ASSUME NEW S, NEW q \in Seq(S)
    PROVE  /\ q # <<>> => /\ Head(q) \in S /\ Tail(q) \in Seq(S) /\ Len(q) \in Nat
                          /\ Len(q) >= 1 /\ Head(q) = q[1]
                          /\ Len(Tail(q)) = Len(q) - 1
                          /\ \A i \in 1..Len(Tail(q)) : Tail(q)[i] = q[i + 1] /\ i + 1 \in 1..Len(q)
           /\ \A e \in S : /\ Append(q, e) \in Seq(S)
                           /\ Len(Append(q, e)) = Len(q) + 1
                           /\ Append(q, e)[Len(q) + 1] = e
                           /\ \A i \in 1..Len(q) : Append(q, e)[i] = q[i]
OBVIOUS

\* The frames on their way to the browser name requests.
LEMMA FeedNames ==
    ASSUME TypeOK
    PROVE  \A i \in 1..Len(feed) : feed[i].request \in Requests
<1> DEFINE Frames == [kind : {"requested", "answered"}, request : Requests]
<1>1. feed \in Seq(Frames)
  BY DEF TypeOK
<1>2. \A f \in Frames : f.request \in Requests
  OBVIOUS
<1> HIDE DEF Frames
<1>3. \A i \in 1..Len(feed) : feed[i] \in Frames
  BY <1>1
<1> QED
  BY <1>2, <1>3

\* A set of requests that is not empty has a latest one.
LEMMA LatestExists ==
    ASSUME NEW S \in SUBSET Requests, S # {}
    PROVE  \E r \in S : \A q \in S : q <= r
<1> DEFINE T == {MaxRequests - r : r \in S}
<1>1. T \subseteq Nat /\ T # {}
  <2>1. \A r \in S : MaxRequests - r \in Nat
    BY ClarificationAssumption DEF Requests
  <2>2. PICK r \in S : TRUE
    OBVIOUS
  <2>3. MaxRequests - r \in T
    BY <2>2
  <2> QED
    BY <2>1, <2>3
<1>2. PICK x \in T : \A y \in T : ~(<<y, x>> \in OpToRel(<, Nat))
  BY <1>1, NatLessThanWellFounded, WFMin
<1>3. \A y \in T : ~(y < x)
  BY <1>1, <1>2 DEF OpToRel
<1>4. PICK r \in S : x = MaxRequests - r
  BY <1>2
<1>5. ASSUME NEW q \in S PROVE q <= r
  <2>1. ~(MaxRequests - q < x)
    BY <1>3
  <2> QED
    BY <2>1, <1>4, ClarificationAssumption DEF Requests
<1> QED
  BY <1>5

\* The latest pending request, which a page load and a snapshot read, has been asked.
LEMMA PendingIsKnown ==
    ASSUME TypeOK, Known
    PROVE  LatestPending \in 0..MaxRequests /\ LatestPending <= asked
<1>1. CASE Pending = {}
  BY <1>1, ClarificationAssumption DEF LatestPending, TypeOK
<1>2. CASE Pending # {}
  <2>1. \E r \in Pending : \A q \in Pending : q <= r
    BY <1>2, LatestExists DEF Pending
  <2>2. LatestPending \in Pending
    BY <1>2, <2>1 DEF LatestPending
  <2> QED
    BY <2>2, ClarificationAssumption DEF Pending, Known, TypeOK, Requests
<1> QED
  BY <1>1, <1>2

\* A message to the waiter joins its inbox if it listens, and changes nothing else.
LEMMA ToWaiterType ==
    ASSUME TypeOK, NEW m, ToWaiter(m),
           m \in [kind : {"answer"}, request : Requests, answer : Answers]
                    \cup [kind : {"interrupt", "steer"}]
    PROVE  /\ inbox' \in Seq([kind : {"answer"}, request : Requests, answer : Answers]
                                \cup [kind : {"interrupt", "steer"}])
           /\ \A i \in 1..Len(inbox') : \/ /\ i \in 1..Len(inbox)
                                           /\ inbox'[i] = inbox[i]
                                        \/ inbox'[i] = m
           /\ UNCHANGED <<asked, waiter, result>>
<1>1. CASE waiter = "listen"
  <2>1. inbox' = Append(inbox, m)
    BY <1>1 DEF ToWaiter
  <2> QED
    BY <2>1, QueueFacts DEF TypeOK, ToWaiter
<1>2. CASE waiter # "listen"
  BY <1>2 DEF TypeOK, ToWaiter
<1> QED
  BY <1>1, <1>2

\* A frame about a request that was asked keeps the feed as it should be.
LEMMA ToBrowserType ==
    ASSUME TypeOK, Known, NEW kind \in {"requested", "answered"}, NEW r \in Requests,
           r <= asked, ToBrowser(Frame(kind, r))
    PROVE  /\ feed' \in Seq([kind : {"requested", "answered"}, request : Requests])
           /\ \A i \in 1..Len(feed') : feed'[i].request <= asked
           /\ UNCHANGED <<stream, snapshot, card, loads>>
<1> DEFINE f == Frame(kind, r)
<1>1. f \in [kind : {"requested", "answered"}, request : Requests] /\ f.request = r
  BY DEF Frame
<1> HIDE DEF f
<1>2. CASE stream = "open"
  <2>1. feed' = Append(feed, f)
    BY <1>2 DEF ToBrowser, f
  <2>2. \A i \in 1..Len(feed') : feed'[i] = f \/ (i \in 1..Len(feed) /\ feed'[i] = feed[i])
    BY <2>1, <1>1, QueueFacts DEF TypeOK
  <2>3. feed' \in Seq([kind : {"requested", "answered"}, request : Requests])
    BY <2>1, <1>1, QueueFacts DEF TypeOK
  <2>4. \A i \in 1..Len(feed') : feed'[i].request <= asked
    BY <2>2, <1>1 DEF Known
  <2> QED
    BY <2>3, <2>4 DEF ToBrowser
<1>3. CASE stream # "open"
  BY <1>3 DEF TypeOK, Known, ToBrowser
<1> QED
  BY <1>2, <1>3

-----------------------------------------------------------------------------
\* One lemma per step.  A step that neither submits nor takes an answer leaves
\* the last three parts alone.
LEMMA SubmitsApart ==
    ASSUME ClarificationInv, UNCHANGED <<submit, inbox, result>>, asked' >= asked,
           TypeOK', \A r \in Requests : row[r] = "answered" => row'[r] = "answered"
    PROVE  Stored' /\ InboxGiven' /\ ResultGiven'
<1>1. Submitted' = Submitted /\ \A r, a : Given(r, a)' <=> Given(r, a)
  BY DEF Submitted, Given
<1>2. Stored'
  <2> SUFFICES ASSUME NEW u \in Submitted'
               PROVE  /\ submit'[u].request \in Requests /\ submit'[u].answer \in Answers
                      /\ submit'[u].request <= asked' /\ row'[submit'[u].request] = "answered"
    BY DEF Stored
  <2>1. /\ submit[u].request \in Requests /\ submit[u].answer \in Answers
        /\ submit[u].request <= asked /\ row[submit[u].request] = "answered"
    BY <1>1 DEF ClarificationInv, Stored
  <2>2. asked \in Nat /\ asked' \in Nat /\ submit[u].request \in Nat
    BY <2>1, ClarificationAssumption DEF ClarificationInv, TypeOK, Requests
  <2>3. row'[submit[u].request] = "answered"
    BY <2>1
  <2> QED
    BY <2>1, <2>2, <2>3
<1>3. InboxGiven'
  BY <1>1 DEF ClarificationInv, InboxGiven, Given
<1>4. ResultGiven'
  BY <1>1 DEF ClarificationInv, ResultGiven, Given
<1> QED
  BY <1>2, <1>3, <1>4

LEMMA AskKeeps == ClarificationInv /\ Ask => ClarificationInv'
<1> SUFFICES ASSUME ClarificationInv, Ask PROVE ClarificationInv'
  OBVIOUS
<1> USE ClarificationAssumption
<1>1. asked + 1 \in Requests /\ row[asked + 1] = "none"
  BY DEF Ask, ClarificationInv, Known, TypeOK, Requests
<1>2. TypeOK'
  BY <1>1 DEF Ask, ClarificationInv, TypeOK, browserVars, controlVars, Requests
<1>3. Known'
  <2>1. /\ asked' = asked + 1 /\ asked \in 0..MaxRequests /\ waiter' = "publish"
        /\ \A r \in Requests : r # asked + 1 => row'[r] = row[r]
        /\ UNCHANGED <<snapshot, card, feed>>
    BY DEF Ask, ClarificationInv, TypeOK, browserVars
  <2>2. \A i \in 1..Len(feed') : feed'[i].request <= asked'
    BY <2>1, FeedNames DEF ClarificationInv, Known, Requests
  <2>3. \A r \in Requests : r > asked' => row'[r] = "none"
    BY <2>1 DEF ClarificationInv, Known, Requests
  <2>4. snapshot' <= asked' /\ card' <= asked'
    BY <2>1 DEF ClarificationInv, Known, TypeOK
  <2> QED
    BY <1>1, <2>1, <2>2, <2>3, <2>4 DEF Known
<1>4. \A r \in Requests : row[r] = "answered" => row'[r] = "answered"
  BY <1>1 DEF Ask, ClarificationInv, TypeOK
<1>5. UNCHANGED <<submit, inbox, result>> /\ asked' >= asked
  <2>1. asked \in Nat /\ asked' = asked + 1
    BY ClarificationAssumption DEF Ask, ClarificationInv, TypeOK
  <2> QED
    BY <2>1 DEF Ask
<1>6. Stored' /\ InboxGiven' /\ ResultGiven'
  BY <1>2, <1>4, <1>5, SubmitsApart
<1> QED
  BY <1>2, <1>3, <1>6 DEF ClarificationInv

LEMMA PublishRequestKeeps == ClarificationInv /\ PublishRequest => ClarificationInv'
<1> SUFFICES ASSUME ClarificationInv, PublishRequest PROVE ClarificationInv'
  OBVIOUS
<1>1. asked \in Requests /\ asked <= asked
  BY DEF PublishRequest, ClarificationInv, Known, Requests
<1>2. /\ feed' \in Seq([kind : {"requested", "answered"}, request : Requests])
      /\ \A i \in 1..Len(feed') : feed'[i].request <= asked
      /\ UNCHANGED <<stream, snapshot, card, loads>>
  BY <1>1, ToBrowserType DEF PublishRequest, ClarificationInv
<1>3. TypeOK'
  BY <1>2 DEF PublishRequest, ClarificationInv, TypeOK, dbVars, controlVars
<1>4. Known'
  BY <1>1, <1>2 DEF PublishRequest, ClarificationInv, Known, dbVars
<1>5. UNCHANGED <<submit, inbox, result, asked, row>>
  BY DEF PublishRequest, dbVars
<1>6. asked' >= asked
  BY <1>1, <1>5 DEF Requests
<1> QED
  BY <1>3, <1>4, <1>5, <1>6, SubmitsApart DEF ClarificationInv

LEMMA ListenKeeps == ClarificationInv /\ Listen => ClarificationInv'
<1> SUFFICES ASSUME ClarificationInv, Listen PROVE ClarificationInv'
  OBVIOUS
<1>1. TypeOK' /\ Known'
  BY DEF Listen, ClarificationInv, TypeOK, Known, dbVars, controlVars, browserVars
<1>2. Submitted' = Submitted
  BY DEF Listen, Submitted
<1>3. Stored'
  BY <1>2 DEF Listen, ClarificationInv, Stored, dbVars
<1>4. InboxGiven'
  BY DEF Listen, InboxGiven
<1>5. ResultGiven'
  BY <1>2 DEF Listen, ClarificationInv, ResultGiven, Given
<1> QED
  BY <1>1, <1>3, <1>4, <1>5 DEF ClarificationInv

\* A wait that ends takes what it was given.
LEMMA EndWaitKeeps ==
    ASSUME ClarificationInv, waiter = "listen", NEW how, EndWait(how), UNCHANGED <<row, submit>>,
           how \in {"timeout", "interrupt", "steer"} \/ (how \in Answers /\ Given(asked, how))
    PROVE  /\ result' \in [Requests -> {"none", "timeout", "interrupt", "steer"} \cup Answers]
           /\ inbox' = <<>> /\ waiter' = "idle" /\ asked' = asked
           /\ Stored' /\ InboxGiven' /\ ResultGiven'
<1>1. asked \in Requests
  BY DEF ClarificationInv, Known
<1>2. result' \in [Requests -> {"none", "timeout", "interrupt", "steer"} \cup Answers]
  BY <1>1 DEF EndWait, ClarificationInv, TypeOK
<1>3. Submitted' = Submitted
  BY DEF Submitted
<1>4. Stored'
  BY <1>3 DEF ClarificationInv, Stored, EndWait
<1>5. InboxGiven'
  BY DEF InboxGiven, EndWait
<1>6. ASSUME NEW r \in Requests, result'[r] \in Answers PROVE Given(r, result[r])'
  <2>1. CASE r = asked
    BY <2>1, <1>1, <1>3, <1>6, ClarificationAssumption DEF EndWait, ClarificationInv, TypeOK, Given
  <2>2. CASE r # asked
    BY <2>2, <1>1, <1>3, <1>6 DEF EndWait, ClarificationInv, TypeOK, Given, ResultGiven
  <2> QED
    BY <2>1, <2>2
<1>7. ResultGiven'
  BY <1>6 DEF ResultGiven
<1> QED
  BY <1>2, <1>4, <1>5, <1>7 DEF EndWait

\* A wait that ends without a frame to the browser.
LEMMA EndedIsFine ==
    ASSUME ClarificationInv, waiter = "listen", NEW how \in {"timeout", "interrupt", "steer"},
           EndWait(how), UNCHANGED <<dbVars, submit, controlVars, browserVars>>
    PROVE  ClarificationInv'
<1>1. /\ result' \in [Requests -> {"none", "timeout", "interrupt", "steer"} \cup Answers]
      /\ inbox' = <<>> /\ waiter' = "idle" /\ asked' = asked
      /\ Stored' /\ InboxGiven' /\ ResultGiven'
  BY EndWaitKeeps DEF dbVars
<1>2. TypeOK' /\ Known'
  BY <1>1 DEF ClarificationInv, TypeOK, Known, dbVars, controlVars, browserVars
<1> QED
  BY <1>1, <1>2 DEF ClarificationInv

LEMMA ReceiveControlKeeps == ClarificationInv /\ ReceiveControl => ClarificationInv'
<1> SUFFICES ASSUME ClarificationInv, ReceiveControl PROVE ClarificationInv'
  OBVIOUS
<1> DEFINE how == Head(inbox).kind
<1>1. how \in {"interrupt", "steer"}
  <2>1. Head(inbox) \in [kind : {"answer"}, request : Requests, answer : Answers]
                            \cup [kind : {"interrupt", "steer"}]
    BY QueueFacts DEF ReceiveControl, ClarificationInv, TypeOK
  <2> QED
    BY <2>1 DEF ReceiveControl
<1>2. EndWait(how) /\ waiter = "listen" /\ UNCHANGED <<dbVars, submit, controlVars, browserVars>>
  BY DEF ReceiveControl
<1> HIDE DEF how
<1> QED
  BY <1>1, <1>2, EndedIsFine

LEMMA TimeOutKeeps == ClarificationInv /\ TimeOut => ClarificationInv'
BY EndedIsFine DEF TimeOut

LEMMA ReceiveAnswerKeeps == ClarificationInv /\ ReceiveAnswer => ClarificationInv'
<1> SUFFICES ASSUME ClarificationInv, ReceiveAnswer PROVE ClarificationInv'
  OBVIOUS
<1>1. /\ Head(inbox) \in [kind : {"answer"}, request : Requests, answer : Answers]
      /\ Given(Head(inbox).request, Head(inbox).answer)
  <2>1. Head(inbox) \in [kind : {"answer"}, request : Requests, answer : Answers]
                            \cup [kind : {"interrupt", "steer"}]
    BY QueueFacts DEF ReceiveAnswer, ClarificationInv, TypeOK
  <2>2. 1 \in 1..Len(inbox) /\ inbox[1] = Head(inbox)
    BY QueueFacts DEF ReceiveAnswer, ClarificationInv, TypeOK
  <2>3. Head(inbox).kind = "answer"
    BY DEF ReceiveAnswer
  <2>4. Given(inbox[1].request, inbox[1].answer)
    BY <2>2, <2>3 DEF ClarificationInv, InboxGiven
  <2> QED
    BY <2>1, <2>2, <2>3, <2>4
<1>2. CASE Head(inbox).request = asked
  <2>1. /\ EndWait(Head(inbox).answer) /\ ToBrowser(Frame("answered", asked))
        /\ waiter = "listen" /\ UNCHANGED <<dbVars, submit, controlVars>>
    BY <1>2 DEF ReceiveAnswer
  <2>2. asked \in Requests /\ asked <= asked
    BY <1>1, <1>2 DEF Requests
  <2>3. /\ feed' \in Seq([kind : {"requested", "answered"}, request : Requests])
        /\ \A i \in 1..Len(feed') : feed'[i].request <= asked
        /\ UNCHANGED <<stream, snapshot, card, loads>>
    BY <2>1, <2>2, ToBrowserType DEF ClarificationInv
  <2>4. Head(inbox).answer \in Answers /\ Given(asked, Head(inbox).answer)
    BY <1>1, <1>2
  <2>5. /\ result' \in [Requests -> {"none", "timeout", "interrupt", "steer"} \cup Answers]
        /\ inbox' = <<>> /\ waiter' = "idle" /\ asked' = asked
        /\ Stored' /\ InboxGiven' /\ ResultGiven'
    BY <2>1, <2>4, EndWaitKeeps DEF dbVars
  <2>6. TypeOK'
    BY <2>1, <2>3, <2>5 DEF ClarificationInv, TypeOK, dbVars, controlVars
  <2>7. Known'
    BY <2>1, <2>3, <2>5 DEF ClarificationInv, Known, dbVars
  <2> QED
    BY <2>5, <2>6, <2>7 DEF ClarificationInv
<1>3. CASE Head(inbox).request # asked
  <2>1. /\ inbox' = Tail(inbox) /\ inbox # <<>>
        /\ UNCHANGED <<dbVars, asked, waiter, result, submit, controlVars, browserVars>>
    BY <1>3 DEF ReceiveAnswer
  <2>2. /\ inbox' \in Seq([kind : {"answer"}, request : Requests, answer : Answers]
                             \cup [kind : {"interrupt", "steer"}])
        /\ \A i \in 1..Len(inbox') : inbox'[i] = inbox[i + 1] /\ i + 1 \in 1..Len(inbox)
    BY <2>1, QueueFacts DEF ClarificationInv, TypeOK
  <2>3. TypeOK' /\ Known'
    BY <2>1, <2>2 DEF ClarificationInv, TypeOK, Known, dbVars, controlVars, browserVars
  <2>4. Submitted' = Submitted
    BY <2>1 DEF Submitted
  <2>5. Stored' /\ ResultGiven'
    BY <2>1, <2>4 DEF ClarificationInv, Stored, ResultGiven, Given, dbVars
  <2>6. InboxGiven'
    BY <2>1, <2>2, <2>4 DEF ClarificationInv, InboxGiven, Given
  <2> QED
    BY <2>3, <2>5, <2>6 DEF ClarificationInv
<1> QED
  BY <1>2, <1>3

\* Somebody else's submit is one more given answer.
LEMMA StoreAnswerKeeps ==
    ASSUME ClarificationInv, NEW u \in Submits, StoreAnswer(u) PROVE ClarificationInv'
<1>1. card \in Requests /\ card <= asked
  BY ClarificationAssumption DEF StoreAnswer, ClarificationInv, TypeOK, Known, Requests
<1>2. PICK a \in Answers :
         /\ submit' = [submit EXCEPT ![u] = [at |-> "publish", request |-> card,
                                             answer |-> a, page |-> loads]]
         /\ stored' = [stored EXCEPT ![card] = a]
  BY DEF StoreAnswer
<1>3. /\ row' = [row EXCEPT ![card] = "answered"] /\ submit[u].at = "idle"
      /\ UNCHANGED <<workerVars, controlVars, browserVars>>
  BY DEF StoreAnswer
<1>4. TypeOK'
  BY <1>1, <1>2, <1>3, ClarificationAssumption
     DEF ClarificationInv, TypeOK, workerVars, controlVars, browserVars, Requests
<1>5. Known'
  BY <1>1, <1>2, <1>3, ClarificationAssumption
     DEF ClarificationInv, TypeOK, Known, workerVars, browserVars, Requests
<1>6. /\ submit'[u].at = "publish" /\ submit'[u].request = card /\ submit'[u].answer = a
      /\ \A v \in Submits : v # u => submit'[v] = submit[v]
  BY <1>2 DEF ClarificationInv, TypeOK
<1>7. \A v \in Submitted : v # u /\ v \in Submitted' /\ submit'[v] = submit[v]
  BY <1>3, <1>6 DEF Submitted
<1>8. \A v \in Submitted' : v = u \/ (v \in Submitted /\ submit'[v] = submit[v])
  BY <1>6 DEF Submitted
<1>9. Stored'
  BY <1>1, <1>3, <1>6, <1>8 DEF ClarificationInv, TypeOK, Stored, workerVars
<1>10. \A r, b : Given(r, b) => Given(r, b)'
  BY <1>7 DEF Given
<1>11. InboxGiven' /\ ResultGiven'
  BY <1>3, <1>10 DEF ClarificationInv, InboxGiven, ResultGiven, workerVars
<1> QED
  BY <1>4, <1>5, <1>9, <1>11 DEF ClarificationInv

\* A submit that goes on keeps its request and its answer.
LEMMA SubmitGoesOn ==
    ASSUME ClarificationInv, NEW u \in Submits, submit[u].at # "idle", TypeOK',
           submit'[u].at # "idle", submit'[u].request = submit[u].request,
           submit'[u].answer = submit[u].answer,
           \A v \in Submits \ {u} : submit'[v] = submit[v], UNCHANGED <<row, asked, result>>
    PROVE  /\ Stored' /\ ResultGiven'
           /\ \A r, a : Given(r, a) => Given(r, a)'
<1>1. Submitted' = Submitted
  BY DEF Submitted
<1>2. \A v \in Submitted : /\ submit'[v].request = submit[v].request
                           /\ submit'[v].answer = submit[v].answer
  BY DEF Submitted
<1>3. Stored'
  BY <1>1, <1>2 DEF ClarificationInv, Stored
<1>4. \A r, a : Given(r, a) => Given(r, a)'
  BY <1>1, <1>2 DEF Given
<1> QED
  BY <1>3, <1>4 DEF ClarificationInv, ResultGiven

LEMMA PublishAnswerKeeps ==
    ASSUME ClarificationInv, NEW u \in Submits, PublishAnswer(u) PROVE ClarificationInv'
<1> DEFINE m == [kind |-> "answer", request |-> submit[u].request, answer |-> submit[u].answer]
<1>1. /\ submit[u].at = "publish" /\ ToWaiter(m)
      /\ submit' = [submit EXCEPT ![u].at = "ack"]
      /\ UNCHANGED <<dbVars, controlVars, browserVars>>
  BY DEF PublishAnswer, SubmitTo
<1>2. u \in Submitted /\ submit[u].request \in Requests /\ submit[u].answer \in Answers
  BY <1>1 DEF ClarificationInv, Submitted, Stored
<1>3. m \in [kind : {"answer"}, request : Requests, answer : Answers]
                \cup [kind : {"interrupt", "steer"}]
  BY <1>2
<1>4. m.kind = "answer" /\ Given(m.request, m.answer)
  BY <1>2 DEF Given
<1> HIDE DEF m
<1>5. /\ inbox' \in Seq([kind : {"answer"}, request : Requests, answer : Answers]
                            \cup [kind : {"interrupt", "steer"}])
      /\ \A i \in 1..Len(inbox') : \/ /\ i \in 1..Len(inbox)
                                       /\ inbox'[i] = inbox[i]
                                    \/ inbox'[i] = m
      /\ UNCHANGED <<asked, waiter, result>>
  BY <1>1, <1>3, ToWaiterType DEF ClarificationInv
<1>6. TypeOK'
  <2> DEFINE T == [at : {"idle", "publish", "ack", "reply", "done"}, request : 0..MaxRequests,
                   answer : Answers \cup {NoAnswer}, page : 0..MaxLoads]
  <2>1. submit \in [Submits -> T]
    BY DEF ClarificationInv, TypeOK
  <2>2. [submit[u] EXCEPT !.at = "ack"] \in T
    BY <2>1
  <2> HIDE DEF T
  <2>3. submit' = [submit EXCEPT ![u] = [submit[u] EXCEPT !.at = "ack"]]
    BY <1>1, <2>1
  <2>4. submit' \in [Submits -> T]
    BY <2>1, <2>2, <2>3
  <2> USE DEF T
  <2> QED
    BY <1>1, <1>5, <2>4 DEF ClarificationInv, TypeOK, dbVars, controlVars, browserVars
<1>7. Known'
  BY <1>1, <1>5 DEF ClarificationInv, Known, dbVars, browserVars
<1>8. /\ submit'[u].at = "ack" /\ submit'[u].request = submit[u].request
      /\ submit'[u].answer = submit[u].answer
      /\ \A v \in Submits \ {u} : submit'[v] = submit[v]
  BY <1>1 DEF ClarificationInv, TypeOK
<1>9. Stored' /\ ResultGiven' /\ \A r, a : Given(r, a) => Given(r, a)'
  BY <1>1, <1>5, <1>6, <1>8, SubmitGoesOn DEF dbVars
<1>10. InboxGiven'
  BY <1>4, <1>5, <1>9 DEF ClarificationInv, InboxGiven
<1> QED
  BY <1>6, <1>7, <1>9, <1>10 DEF ClarificationInv

LEMMA PublishAckKeeps ==
    ASSUME ClarificationInv, NEW u \in Submits, PublishAck(u) PROVE ClarificationInv'
<1>1. /\ submit[u].at = "ack" /\ ToBrowser(Frame("answered", submit[u].request))
      /\ submit' = [submit EXCEPT ![u].at = "reply"]
      /\ UNCHANGED <<dbVars, workerVars, controlVars>>
  BY DEF PublishAck, SubmitTo
<1>2. submit[u].request \in Requests /\ submit[u].request <= asked
  BY <1>1 DEF ClarificationInv, Submitted, Stored
<1>3. /\ feed' \in Seq([kind : {"requested", "answered"}, request : Requests])
      /\ \A i \in 1..Len(feed') : feed'[i].request <= asked
      /\ UNCHANGED <<stream, snapshot, card, loads>>
  BY <1>1, <1>2, ToBrowserType DEF ClarificationInv
<1>4. TypeOK'
  BY <1>1, <1>3 DEF ClarificationInv, TypeOK, dbVars, workerVars, controlVars
<1>5. Known'
  BY <1>1, <1>3 DEF ClarificationInv, Known, dbVars, workerVars
<1>6. /\ submit'[u].at = "reply" /\ submit'[u].request = submit[u].request
      /\ submit'[u].answer = submit[u].answer
      /\ \A v \in Submits \ {u} : submit'[v] = submit[v]
  BY <1>1 DEF ClarificationInv, TypeOK
<1>7. Stored' /\ ResultGiven' /\ \A r, a : Given(r, a) => Given(r, a)'
  BY <1>1, <1>4, <1>6, SubmitGoesOn DEF dbVars, workerVars
<1>8. InboxGiven'
  BY <1>1, <1>7 DEF ClarificationInv, InboxGiven, workerVars
<1> QED
  BY <1>4, <1>5, <1>7, <1>8 DEF ClarificationInv

LEMMA ReceiveReplyKeeps ==
    ASSUME ClarificationInv, NEW u \in Submits, ReceiveReply(u) PROVE ClarificationInv'
<1>1. /\ submit[u].at = "reply"
      /\ submit' = [submit EXCEPT ![u].at = "done", ![u].page = 0]
      /\ card' \in {0, card}
      /\ UNCHANGED <<dbVars, workerVars, controlVars, stream, snapshot, feed, loads>>
  BY DEF ReceiveReply
<1>2. TypeOK'
  <2>1. submit' \in [Submits -> [at : {"idle", "publish", "ack", "reply", "done"},
                                 request : 0..MaxRequests, answer : Answers \cup {NoAnswer},
                                 page : 0..MaxLoads]]
    <3> DEFINE new == [at |-> "done", request |-> submit[u].request,
                       answer |-> submit[u].answer, page |-> 0]
    <3>1. submit'[u] = new
      BY <1>1 DEF ClarificationInv, TypeOK
    <3>2. new \in [at : {"idle", "publish", "ack", "reply", "done"}, request : 0..MaxRequests,
                   answer : Answers \cup {NoAnswer}, page : 0..MaxLoads]
      BY ClarificationAssumption DEF ClarificationInv, TypeOK
    <3> HIDE DEF new
    <3>3. DOMAIN submit' = Submits /\ submit' = [v \in Submits |-> submit'[v]]
      BY <1>1 DEF ClarificationInv, TypeOK
    <3>4. \A v \in Submits : v # u => submit'[v] = submit[v]
      BY <1>1 DEF ClarificationInv, TypeOK
    <3> QED
      BY <3>1, <3>2, <3>3, <3>4 DEF ClarificationInv, TypeOK
  <2>2. card' \in 0..MaxRequests
    BY <1>1, ClarificationAssumption DEF ClarificationInv, TypeOK
  <2> QED
    BY <1>1, <2>1, <2>2 DEF ClarificationInv, TypeOK, dbVars, workerVars, controlVars
<1>3. Known'
  BY <1>1, ClarificationAssumption DEF ClarificationInv, TypeOK, Known, dbVars, workerVars
<1>4. /\ submit'[u].at = "done" /\ submit'[u].request = submit[u].request
      /\ submit'[u].answer = submit[u].answer
      /\ \A v \in Submits \ {u} : submit'[v] = submit[v]
  BY <1>1 DEF ClarificationInv, TypeOK
<1>5. Stored' /\ ResultGiven' /\ \A r, a : Given(r, a) => Given(r, a)'
  BY <1>1, <1>2, <1>4, SubmitGoesOn DEF dbVars, workerVars
<1>6. InboxGiven'
  BY <1>1, <1>5 DEF ClarificationInv, InboxGiven, workerVars
<1> QED
  BY <1>2, <1>3, <1>5, <1>6 DEF ClarificationInv

LEMMA ControlKeeps ==
    ASSUME ClarificationInv, NEW kind \in {"interrupt", "steer"}, Control(kind)
    PROVE  ClarificationInv'
<1> DEFINE m == [kind |-> kind]
<1>1. /\ ToWaiter(m) /\ controls < MaxControls /\ controls' = controls + 1
      /\ interrupted' \in BOOLEAN /\ UNCHANGED <<dbVars, submit, browserVars>>
  BY DEF Control
<1>2. /\ m \in [kind : {"answer"}, request : Requests, answer : Answers]
                 \cup [kind : {"interrupt", "steer"}]
      /\ m.kind # "answer"
  OBVIOUS
<1> HIDE DEF m
<1>3. /\ inbox' \in Seq([kind : {"answer"}, request : Requests, answer : Answers]
                            \cup [kind : {"interrupt", "steer"}])
      /\ \A i \in 1..Len(inbox') : \/ /\ i \in 1..Len(inbox)
                                       /\ inbox'[i] = inbox[i]
                                    \/ inbox'[i] = m
      /\ UNCHANGED <<asked, waiter, result>>
  BY <1>1, <1>2, ToWaiterType DEF ClarificationInv
<1>4. TypeOK' /\ Known'
  BY <1>1, <1>3, ClarificationAssumption DEF ClarificationInv, TypeOK, Known, dbVars, browserVars
<1>5. Submitted' = Submitted
  BY <1>1 DEF Submitted
<1>6. Stored' /\ ResultGiven'
  BY <1>1, <1>3, <1>5 DEF ClarificationInv, Stored, ResultGiven, Given, dbVars
<1>7. InboxGiven'
  BY <1>1, <1>2, <1>3, <1>5 DEF ClarificationInv, InboxGiven, Given
<1> QED
  BY <1>4, <1>6, <1>7 DEF ClarificationInv

LEMMA LoadPageKeeps == ClarificationInv /\ LoadPage => ClarificationInv'
<1> SUFFICES ASSUME ClarificationInv, LoadPage PROVE ClarificationInv'
  OBVIOUS
<1>1. LatestPending \in 0..MaxRequests /\ LatestPending <= asked
  BY PendingIsKnown DEF ClarificationInv
<1>2. TypeOK' /\ Known'
  BY <1>1, ClarificationAssumption
     DEF LoadPage, ClarificationInv, TypeOK, Known, dbVars, workerVars, controlVars
<1>3. UNCHANGED <<submit, inbox, result, asked, row>>
  BY DEF LoadPage, dbVars, workerVars
<1>4. asked' >= asked
  BY <1>3, ClarificationAssumption DEF ClarificationInv, TypeOK
<1>5. Stored' /\ InboxGiven' /\ ResultGiven'
  BY <1>2, <1>3, <1>4, SubmitsApart
<1> QED
  BY <1>2, <1>5 DEF ClarificationInv

LEMMA ReadSnapshotKeeps == ClarificationInv /\ ReadSnapshot => ClarificationInv'
<1> SUFFICES ASSUME ClarificationInv, ReadSnapshot PROVE ClarificationInv'
  OBVIOUS
<1>1. LatestPending \in 0..MaxRequests /\ LatestPending <= asked
  BY PendingIsKnown DEF ClarificationInv
<1>2. TypeOK' /\ Known'
  BY <1>1, ClarificationAssumption
     DEF ReadSnapshot, ClarificationInv, TypeOK, Known, dbVars, workerVars, controlVars
<1>3. UNCHANGED <<submit, inbox, result, asked, row>>
  BY DEF ReadSnapshot, dbVars, workerVars
<1>4. asked' >= asked
  BY <1>3, ClarificationAssumption DEF ClarificationInv, TypeOK
<1>5. Stored' /\ InboxGiven' /\ ResultGiven'
  BY <1>2, <1>3, <1>4, SubmitsApart
<1> QED
  BY <1>2, <1>5 DEF ClarificationInv

LEMMA OpenStreamKeeps == ClarificationInv /\ OpenStream => ClarificationInv'
<1> SUFFICES ASSUME ClarificationInv, OpenStream PROVE ClarificationInv'
  OBVIOUS
<1>1. /\ feed' \in Seq([kind : {"requested", "answered"}, request : Requests])
      /\ \A i \in 1..Len(feed') : feed'[i].request <= asked
  <2>1. CASE snapshot = 0
    BY <2>1 DEF OpenStream
  <2>2. CASE snapshot # 0
    <3>1. snapshot \in Requests /\ snapshot <= asked
      BY <2>2, ClarificationAssumption DEF ClarificationInv, TypeOK, Known, Requests
    <3>2. feed' = <<Frame("requested", snapshot)>>
      BY <2>2 DEF OpenStream
    <3> QED
      BY <3>1, <3>2 DEF Frame
  <2> QED
    BY <2>1, <2>2
<1>2. TypeOK' /\ Known'
  BY <1>1, ClarificationAssumption
     DEF OpenStream, ClarificationInv, TypeOK, Known, dbVars, workerVars, controlVars
<1> QED
  BY <1>2, SubmitsApart DEF OpenStream, ClarificationInv, TypeOK, dbVars, workerVars

LEMMA ReduceFrameKeeps == ClarificationInv /\ ReduceFrame => ClarificationInv'
<1> SUFFICES ASSUME ClarificationInv, ReduceFrame PROVE ClarificationInv'
  OBVIOUS
<1>1. /\ feed # <<>> /\ feed' = Tail(feed)
      /\ card' \in {0, Head(feed).request}
      /\ UNCHANGED <<dbVars, workerVars, submit, controlVars, stream, snapshot, loads>>
  BY DEF ReduceFrame
<1> DEFINE Frames == [kind : {"requested", "answered"}, request : Requests]
<1>0. feed \in Seq(Frames)
  BY DEF ClarificationInv, TypeOK
<1> HIDE DEF Frames
<1>2. /\ Head(feed) \in Frames
      /\ 1 \in 1..Len(feed) /\ Head(feed) = feed[1]
      /\ feed' \in Seq(Frames)
      /\ \A i \in 1..Len(feed') : feed'[i] = feed[i + 1] /\ i + 1 \in 1..Len(feed)
  BY <1>0, <1>1, QueueFacts
<1>3. card' \in 0..MaxRequests /\ card' <= asked
  BY <1>1, <1>2, ClarificationAssumption
     DEF ClarificationInv, TypeOK, Known, Requests, Frames
<1>4. TypeOK'
  BY <1>1, <1>2, <1>3 DEF Frames, ClarificationInv, TypeOK, dbVars, workerVars, controlVars
<1>5. Known'
  BY <1>1, <1>2, <1>3 DEF ClarificationInv, Known, dbVars, workerVars
<1> QED
  BY <1>1, <1>4, <1>5, SubmitsApart DEF ClarificationInv, TypeOK, dbVars, workerVars

LEMMA StutterKeeps == ClarificationInv /\ UNCHANGED vars => ClarificationInv'
BY DEF vars, dbVars, workerVars, controlVars, browserVars, ClarificationInv, TypeOK,
       Known, Stored, InboxGiven, ResultGiven, Given, Submitted

-----------------------------------------------------------------------------
\* Every reachable state is well typed, and whatever a wait has taken or may take
\* was given by a user to a request that was asked.
THEOREM ClarificationInvHolds == Spec => []ClarificationInv
<1>1. Init => ClarificationInv
  <2> SUFFICES ASSUME Init PROVE ClarificationInv
    OBVIOUS
  <2>1. TypeOK
    <3>1. submit \in [Submits -> [at : {"idle", "publish", "ack", "reply", "done"},
                                  request : 0..MaxRequests, answer : Answers \cup {NoAnswer},
                                  page : 0..MaxLoads]]
      BY ClarificationAssumption DEF Init
    <3>2. /\ inbox \in Seq([kind : {"answer"}, request : Requests, answer : Answers]
                               \cup [kind : {"interrupt", "steer"}])
          /\ feed \in Seq([kind : {"requested", "answered"}, request : Requests])
      BY DEF Init
    <3>3. /\ row \in [Requests -> {"none", "pending", "answered"}]
          /\ stored \in [Requests -> Answers \cup {NoAnswer}]
          /\ result \in [Requests -> {"none", "timeout", "interrupt", "steer"} \cup Answers]
      BY DEF Init
    <3>4. /\ asked \in 0..MaxRequests /\ controls \in 0..MaxControls
          /\ snapshot \in 0..MaxRequests /\ card \in 0..MaxRequests /\ loads \in 0..MaxLoads
      BY ClarificationAssumption DEF Init
    <3>5. /\ waiter \in {"idle", "publish", "subscribe", "listen"}
          /\ interrupted \in BOOLEAN /\ stream \in {"off", "snapshot", "open"}
      BY DEF Init
    <3> QED
      BY <3>1, <3>2, <3>3, <3>4, <3>5 DEF TypeOK
  <2>2. Submitted = {}
    BY DEF Init, Submitted
  <2>3. Known
    BY DEF Init, Known, Requests
  <2>4. ResultGiven
    BY ClarificationAssumption DEF Init, ResultGiven
  <2> QED
    BY <2>1, <2>2, <2>3, <2>4 DEF Init, ClarificationInv, Stored, InboxGiven
<1>2. ClarificationInv /\ [Next]_vars => ClarificationInv'
  <2> SUFFICES ASSUME ClarificationInv, [Next]_vars PROVE ClarificationInv'
    OBVIOUS
  <2> QED
    BY AskKeeps, PublishRequestKeeps, ListenKeeps, ReceiveControlKeeps, ReceiveAnswerKeeps,
       TimeOutKeeps, StoreAnswerKeeps, PublishAnswerKeeps, PublishAckKeeps,
       ReceiveReplyKeeps, ControlKeeps, LoadPageKeeps, ReadSnapshotKeeps,
       OpenStreamKeeps, ReduceFrameKeeps, StutterKeeps
       DEF Next, WorkerStep, SubmitStep, BrowserStep
<1> QED
  BY <1>1, <1>2, PTL DEF Spec

\* Every reachable state is well typed (TypeOK).
THEOREM TypeCorrect == Spec => []TypeOK
<1>1. ClarificationInv => TypeOK
  BY DEF ClarificationInv
<1> QED
  BY <1>1, ClarificationInvHolds, PTL

\* A wait returns only answers that a user gave to its own request (OwnAnswer).
THEOREM OwnAnswerHolds == Spec => []OwnAnswer
<1>1. ClarificationInv => OwnAnswer
  BY DEF ClarificationInv, OwnAnswer, ResultGiven, Given, Stored, Submitted
<1> QED
  BY <1>1, ClarificationInvHolds, PTL

-----------------------------------------------------------------------------
(* The contract of AnswerLedger *)

\* A wait goes on as long as its question is open; nothing is known of later ones,
\* and a submit that has not begun names no request.
Waits ==
    /\ waiter # "idle" => result[asked] = "none"
    /\ waiter = "idle" /\ asked # 0 => result[asked] # "none"
    /\ \A r \in Requests : r > asked => result[r] = "none"
    /\ \A u \in Submits : submit[u].at = "idle" => submit[u].request = 0

\* What users have given to a request.
GivenTo(r) == {submit[u].answer : u \in {v \in Submits : submit[v].request = r}}

Kept == \A u \in Submits : /\ submit'[u].request = submit[u].request
                           /\ submit'[u].answer = submit[u].answer

\* How a step ends the wait.
Ends(how) ==
    /\ waiter = "listen" /\ waiter' = "idle"
    /\ result' = [result EXCEPT ![asked] = how]
    /\ UNCHANGED <<asked, submit>>

\* What a step may do to the wait and to the submits.
LEMMA WaitMoves ==
    ASSUME ClarificationInv, [Next]_vars
    PROVE  \/ Ask
           \/ \E how \in {"timeout", "interrupt", "steer"} : Ends(how)
           \/ \E how \in Answers : Given(asked, how) /\ Ends(how)
           \/ \E u \in Submits : StoreAnswer(u)
           \/ /\ UNCHANGED <<asked, result>> /\ Kept
              /\ (waiter' = "idle") <=> (waiter = "idle")
              /\ \A u \in Submits : submit'[u].at = "idle" => submit[u].at = "idle"
<1> DEFINE Rest == /\ UNCHANGED <<asked, result>> /\ Kept
                   /\ (waiter' = "idle") <=> (waiter = "idle")
                   /\ \A u \in Submits : submit'[u].at = "idle" => submit[u].at = "idle"
<1>1. CASE UNCHANGED submit /\ UNCHANGED <<asked, waiter, result>>
  BY <1>1 DEF Kept
<1>2. CASE PublishRequest \/ Listen
  BY <1>2 DEF PublishRequest, Listen, Kept
<1>3. CASE ReceiveControl
  <2>1. Head(inbox) \in [kind : {"answer"}, request : Requests, answer : Answers]
                            \cup [kind : {"interrupt", "steer"}]
    BY <1>3, QueueFacts DEF ReceiveControl, ClarificationInv, TypeOK
  <2>2. Head(inbox).kind \in {"interrupt", "steer"}
    BY <1>3, <2>1 DEF ReceiveControl
  <2>3. Ends(Head(inbox).kind)
    BY <1>3 DEF ReceiveControl, EndWait, Ends
  <2> QED BY <2>2, <2>3
<1>4. CASE TimeOut
  <2>1. Ends("timeout")
    BY <1>4 DEF TimeOut, EndWait, Ends
  <2> QED BY <2>1
<1>5. CASE ReceiveAnswer
  <2>1. CASE Head(inbox).request = asked
    <3>1. Head(inbox) = inbox[1] /\ 1 \in 1..Len(inbox)
      BY <1>5, QueueFacts DEF ReceiveAnswer, ClarificationInv, TypeOK
    <3>2. Given(asked, Head(inbox).answer)
      BY <1>5, <2>1, <3>1 DEF ReceiveAnswer, ClarificationInv, InboxGiven
    <3>3. Head(inbox).answer \in Answers
      BY <3>2 DEF Given, Submitted, ClarificationInv, Stored
    <3>4. Ends(Head(inbox).answer)
      BY <1>5, <2>1 DEF ReceiveAnswer, EndWait, Ends
    <3> QED BY <3>2, <3>3, <3>4
  <2>2. CASE Head(inbox).request # asked
    BY <1>5, <2>2 DEF ReceiveAnswer, Kept
  <2> QED BY <2>1, <2>2
<1>6. ASSUME NEW u \in Submits, NEW to \in {"ack", "reply"}, SubmitTo(u, to),
             UNCHANGED <<asked, waiter, result>>
      PROVE  Rest
  <2>1. \A v \in Submits : /\ submit'[v].request = submit[v].request
                           /\ submit'[v].answer = submit[v].answer
                           /\ submit'[v].at = IF v = u THEN to ELSE submit[v].at
    BY <1>6 DEF SubmitTo, ClarificationInv, TypeOK
  <2> QED BY <1>6, <2>1 DEF Kept
<1>7. CASE \E u \in Submits : PublishAnswer(u)
  <2>1. PICK u \in Submits : PublishAnswer(u)
    BY <1>7
  <2>2. SubmitTo(u, "ack") /\ UNCHANGED <<asked, waiter, result>>
    BY <2>1 DEF PublishAnswer, ToWaiter
  <2> QED BY <1>6, <2>2
<1>8. CASE \E u \in Submits : PublishAck(u)
  <2>1. PICK u \in Submits : PublishAck(u)
    BY <1>8
  <2>2. SubmitTo(u, "reply") /\ UNCHANGED <<asked, waiter, result>>
    BY <2>1 DEF PublishAck, workerVars
  <2> QED BY <1>6, <2>2
<1>9. CASE \E u \in Submits : ReceiveReply(u)
  <2>1. PICK u \in Submits : ReceiveReply(u)
    BY <1>9
  <2>2. \A v \in Submits : /\ submit'[v].request = submit[v].request
                           /\ submit'[v].answer = submit[v].answer
                           /\ submit'[v].at = IF v = u THEN "done" ELSE submit[v].at
    BY <2>1 DEF ReceiveReply, ClarificationInv, TypeOK
  <2>3. UNCHANGED <<asked, waiter, result>>
    BY <2>1 DEF ReceiveReply, workerVars
  <2> QED BY <2>2, <2>3 DEF Kept
<1>10. ASSUME \/ \E kind \in {"interrupt", "steer"} : Control(kind)
              \/ BrowserStep \/ LoadPage \/ UNCHANGED vars
       PROVE  UNCHANGED submit /\ UNCHANGED <<asked, waiter, result>>
  BY <1>10 DEF Control, ToWaiter, BrowserStep, ReadSnapshot, OpenStream, ReduceFrame,
               LoadPage, vars, workerVars
<1> QED
  BY <1>1, <1>2, <1>3, <1>4, <1>5, <1>7, <1>8, <1>9, <1>10 DEF Next, WorkerStep, SubmitStep

LEMMA WaitsStep == ClarificationInv /\ Waits /\ [Next]_vars => Waits'
<1> SUFFICES ASSUME ClarificationInv, Waits, [Next]_vars PROVE Waits'
  OBVIOUS
<1>1. CASE Ask
  BY <1>1, ClarificationAssumption DEF Ask, ClarificationInv, TypeOK, Waits, Requests
<1>2. ASSUME NEW how \in {"timeout", "interrupt", "steer"} \cup Answers, Ends(how) PROVE Waits'
  <2>1. how # "none" /\ asked \in Requests
    BY <1>2, ClarificationAssumption DEF ClarificationInv, Known, Ends
  <2>2. /\ result'[asked] = how
        /\ \A r \in Requests : r > asked => result'[r] = result[r]
    BY <1>2, <2>1 DEF Ends, ClarificationInv, TypeOK, Requests
  <2> QED BY <1>2, <2>1, <2>2 DEF Ends, Waits
<1>3. ASSUME NEW u \in Submits, StoreAnswer(u) PROVE Waits'
  <2>1. \A v \in Submits : submit'[v].at = "idle" => v # u /\ submit'[v] = submit[v]
    BY <1>3 DEF StoreAnswer, ClarificationInv, TypeOK
  <2> QED BY <1>3, <2>1 DEF StoreAnswer, workerVars, Waits
<1>4. CASE /\ UNCHANGED <<asked, result>> /\ Kept
           /\ (waiter' = "idle") <=> (waiter = "idle")
           /\ \A u \in Submits : submit'[u].at = "idle" => submit[u].at = "idle"
  BY <1>4 DEF Waits, Kept
<1> QED BY <1>1, <1>2, <1>3, <1>4, WaitMoves

\* Each step is one of the contract, or none.
LEMMA LedgerStep ==
    ClarificationInv /\ Waits /\ [Next]_vars => [Ledger!Next]_(Ledger!contract)
<1> SUFFICES ASSUME ClarificationInv, Waits, [Next]_vars PROVE [Ledger!Next]_(Ledger!contract)
  OBVIOUS
<1> DEFINE given == [r \in Requests |-> {submit[u].answer : u \in {v \in Submits : submit[v].request = r}}]
<1>1. CASE Ask
  <2>1. given' = given /\ UNCHANGED result
    BY <1>1 DEF Ask
  <2>2. /\ asked + 1 \in Requests
        /\ asked \in Requests => result[asked] # "none"
        /\ asked' = asked + 1
    BY <1>1, ClarificationAssumption DEF Ask, ClarificationInv, TypeOK, Waits, Requests
  <2>3. Ledger!Ask
    BY <2>1, <2>2 DEF Ledger!Ask, Ledger!Open
  <2> QED BY <2>3 DEF Ledger!Next
<1>2. ASSUME NEW how, Ends(how), \/ how \in {"timeout", "interrupt", "steer"}
                                 \/ how \in Answers /\ Given(asked, how)
      PROVE  Ledger!Settle
  <2>1. asked \in Requests /\ result[asked] = "none"
    BY <1>2 DEF Ends, ClarificationInv, Known, Waits
  <2>2. given' = given /\ UNCHANGED asked
    BY <1>2 DEF Ends
  <2>3. how \in Ledger!Empty \cup given[asked]
    BY <1>2, <2>1 DEF Ledger!Empty, Given, Submitted
  <2>4. result' = [result EXCEPT ![asked] = how]
    BY <1>2 DEF Ends
  <2> QED BY <2>1, <2>2, <2>3, <2>4 DEF Ledger!Settle, Ledger!Open
<1>3. ASSUME NEW u \in Submits, StoreAnswer(u) PROVE Ledger!Next
  <2>1. card \in Requests /\ card <= asked
    BY <1>3, ClarificationAssumption DEF StoreAnswer, ClarificationInv, TypeOK, Known, Requests
  <2>2. PICK a \in Answers : submit' = [submit EXCEPT ![u] =
                                 [at |-> "publish", request |-> card, answer |-> a, page |-> loads]]
    BY <1>3 DEF StoreAnswer
  <2>3. submit[u].request = 0 /\ submit \in [Submits -> [at : {"idle", "publish", "ack", "reply", "done"},
            request : 0..MaxRequests, answer : Answers \cup {NoAnswer}, page : 0..MaxLoads]]
    BY <1>3 DEF StoreAnswer, Waits, ClarificationInv, TypeOK
  <2>4. submit'[u].request = card /\ submit'[u].answer = a /\ \A v \in Submits \ {u} : submit'[v] = submit[v]
    BY <2>2, <2>3
  <2>5. ASSUME NEW r \in Requests PROVE GivenTo(r)' = GivenTo(r) \cup (IF r = card THEN {a} ELSE {})
    <3>1. r # 0
      BY DEF Requests
    <3> QED BY <2>3, <2>4, <3>1 DEF GivenTo
  <2>6. given' = [given EXCEPT ![card] = @ \cup {a}]
    BY <2>1, <2>5 DEF GivenTo
  <2>7. UNCHANGED <<asked, result>>
    BY <1>3 DEF StoreAnswer, workerVars
  <2>8. PICK r \in Requests : r = card
    BY <2>1
  <2>9. Ledger!Give(r, a)
    BY <2>1, <2>6, <2>7, <2>8 DEF Ledger!Give
  <2> QED BY <2>2, <2>9, Zenon DEF Ledger!Next
<1>4. ASSUME UNCHANGED <<asked, result>>, Kept PROVE UNCHANGED Ledger!contract
  <2>1. given' = given
    BY <1>4 DEF Kept
  <2> QED BY <1>4, <2>1 DEF Ledger!contract
<1> QED BY <1>1, <1>2, <1>3, <1>4, WaitMoves DEF Ledger!Next

\* The waits of a session keep the contract: one question at a time, each ends once,
\* empty or with what a user has given to it (WaitsKeepLedger).
THEOREM LedgerKept == Spec => WaitsKeepLedger
<1>1. Init => Waits /\ Ledger!Init
  <2> SUFFICES ASSUME Init PROVE Waits /\ Ledger!Init
    OBVIOUS
  <2>1. Waits
    BY DEF Init, Waits
  <2>2. ASSUME NEW r \in Requests PROVE {submit[u].answer : u \in {v \in Submits : submit[v].request = r}} = {}
    <3>1. \A v \in Submits : submit[v].request = 0 /\ r # 0
      BY DEF Init, Requests
    <3> QED BY <3>1
  <2>3. [r \in Requests |-> {submit[u].answer : u \in {v \in Submits : submit[v].request = r}}]
          = [r \in Requests |-> {}]
    BY <2>2
  <2> QED BY <2>1, <2>3 DEF Init, Ledger!Init, Ledger!Open
<1>2. ClarificationInv /\ Waits /\ [Next]_vars => Waits' /\ [Ledger!Next]_(Ledger!contract)
  BY WaitsStep, LedgerStep
<1> QED
  BY <1>1, <1>2, ClarificationInvHolds, PTL DEF Spec, WaitsKeepLedger, Ledger!Spec

=============================================================================
