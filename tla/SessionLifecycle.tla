--------------------------- MODULE SessionLifecycle ---------------------------
(***************************************************************************)
(* A session from POST /projects/{id}/sessions to its last terminal frame. *)
(*                                                                         *)
(* Four kinds of process share the row of the session, its quota slot, the *)
(* job stream and two pub/sub channels:                                    *)
(*   - the create request    (api routes/sessions.py, create_session),     *)
(*   - the interrupt request (api routes/sessions.py, interrupt_session),  *)
(*   - the worker task       (worker runner.py and orchestrator.py),       *)
(*   - its control consumer  (orchestrator.py, _consume_session_control).  *)
(* Each SQL statement and each Redis call is one step; nothing but the row *)
(* itself orders the four.  Nobody guards a status update by the old value.*)
(* The two keys of the quota are one slot here; RunQuota has the detail.   *)
(***************************************************************************)
EXTENDS Naturals, Sequences, FiniteSetsExt

CONSTANTS
    Sessions,
    Projects,
    Users,
    Project,        \* the project of a session
    Owner,          \* the user who owns a project
    Chain,          \* AGENTS_BY_MODE of the session's mode
    MaxGlobalRuns,  \* quota of the API and concurrency of the worker
    MaxUserRuns,
    MaxInterrupts,  \* bound: interrupt requests per session
    MaxFaults,      \* bound: failing SQL or Redis calls, API deaths
    MaxCrashes,     \* bound: crashes of the worker process
    MaxOutlived     \* bound: sessions that outlive the TTL of the quota

AgentKinds == {"discovery", "codex"}

ASSUME LifecycleAssumption ==
    /\ IsFiniteSet(Sessions)
    /\ Project \in [Sessions -> Projects]
    /\ Owner \in [Projects -> Users]
    /\ Chain \in [Sessions -> Seq(AgentKinds)]
    /\ \A s \in Sessions : Len(Chain[s]) > 0
    /\ MaxGlobalRuns \in Nat \ {0}
    /\ MaxUserRuns \in Nat \ {0}
    /\ MaxInterrupts \in Nat /\ MaxFaults \in Nat /\ MaxCrashes \in Nat
    /\ MaxOutlived \in Nat

VARIABLES
    status,      \* sessions.status
    sequence,    \* sessions.sequence as the create request computed it
    runs,        \* agent_runs.status by run sequence
    slots,       \* session ids that hold a quota slot
    stream,      \* polaris:session_jobs, the messages not yet delivered
    frames,      \* statuses of the session_completed frames published
    create,      \* where the create request stands
    interrupt,   \* where the interrupt request stands
    interrupts,  \* interrupt requests accepted so far
    worker,      \* where the worker task stands
    seq,         \* its local variable seq
    outcome,     \* outcome.status, then the status it finalizes with
    phase,       \* what agent.run is doing
    control,     \* the control consumer: its subscription
    pending,     \* interrupt messages it has received but not handled
    faults, crashes,
    outlived     \* history: sessions whose slot the TTL took

dbVars     == <<status, runs>>
apiVars    == <<sequence, create, interrupt, interrupts>>
workerVars == <<worker, seq, outcome, phase>>
ctlVars    == <<control, pending>>
budgetVars == <<faults, crashes, outlived>>
vars == <<dbVars, apiVars, workerVars, ctlVars, budgetVars, slots, stream, frames>>

Terminal   == {"completed", "failed", "interrupted"}
Status     == {"absent", "queued", "running"} \cup Terminal
RunStatus  == {"none", "running"} \cup Terminal
CreatePc   == {"none", "acquire", "insert", "enqueue", "undo",
               "done", "rejected", "failed", "died"}
InterruptPc == {"none", "publish", "commit", "announce", "release"}
InTry      == {"poll", "insert", "agent", "finalize_run", "finalize", "except",
               "announce"}
Busy       == {"load", "mark", "seed", "cleanup", "release", "ack"} \cup InTry
WorkerPc   == {"none", "acked", "lost"} \cup Busy
Phase      == {"none", "setup", "active", "cancelled", "tail"}

SessionsOf(u)   == {s \in Sessions : Owner[Project[s]] = u}
InFlight        == {s \in Sessions : worker[s] \in Busy}
Kind(s)         == Chain[s][seq[s]]
ChainLen(s)     == Len(Chain[s])
Rows(p)         == {s \in Sessions : Project[s] = p /\ status[s] # "absent"}
NextSequence(p) == Max({0} \cup {sequence[t] : t \in Rows(p)}) + 1

-----------------------------------------------------------------------------
Init ==
    /\ status = [s \in Sessions |-> "absent"]
    /\ sequence = [s \in Sessions |-> 0]
    /\ runs = [s \in Sessions |-> [i \in 1..ChainLen(s) |-> "none"]]
    /\ slots = {}
    /\ stream = <<>>
    /\ frames = [s \in Sessions |-> {}]
    /\ create = [s \in Sessions |-> "none"]
    /\ interrupt = [s \in Sessions |-> "none"]
    /\ interrupts = [s \in Sessions |-> 0]
    /\ worker = [s \in Sessions |-> "none"]
    /\ seq = [s \in Sessions |-> 0]
    /\ outcome = [s \in Sessions |-> "none"]
    /\ phase = [s \in Sessions |-> "none"]
    /\ control = [s \in Sessions |-> "off"]
    /\ pending = [s \in Sessions |-> 0]
    /\ faults = 0 /\ crashes = 0
    /\ outlived = {}

Fault == faults < MaxFaults /\ faults' = faults + 1 /\ UNCHANGED <<crashes, outlived>>

-----------------------------------------------------------------------------
(* create_session *)

CreateAt(s, from, to) == create[s] = from /\ create' = [create EXCEPT ![s] = to]

\* SELECT max(sequence) + 1.
ReadSequence(s) ==
    /\ CreateAt(s, "none", "acquire")
    /\ sequence' = [sequence EXCEPT ![s] = NextSequence(Project[s])]
    /\ UNCHANGED <<dbVars, interrupt, interrupts, workerVars, ctlVars,
                   budgetVars, slots, stream, frames>>

\* acquire_run_slot; a rejection is the 429 answer.
HasRoom(s) ==
    /\ Cardinality(slots) < MaxGlobalRuns
    /\ Cardinality(slots \cap SessionsOf(Owner[Project[s]])) < MaxUserRuns

AcquireSlot(s) ==
    /\ \/ HasRoom(s) /\ CreateAt(s, "acquire", "insert") /\ slots' = slots \cup {s}
       \/ ~HasRoom(s) /\ CreateAt(s, "acquire", "rejected") /\ UNCHANGED slots
    /\ UNCHANGED <<dbVars, sequence, interrupt, interrupts, workerVars, ctlVars,
                   budgetVars, stream, frames>>

SequenceTaken(s) == \E t \in Rows(Project[s]) : sequence[t] = sequence[s]

\* INSERT and COMMIT; uq_sessions_project_sequence refuses a sequence that
\* another request of the project has committed meanwhile.
InsertSession(s) ==
    /\ \/ SequenceTaken(s) /\ CreateAt(s, "insert", "undo") /\ UNCHANGED status
       \/ /\ ~SequenceTaken(s)
          /\ CreateAt(s, "insert", "enqueue")
          /\ status' = [status EXCEPT ![s] = "queued"]
    /\ UNCHANGED <<runs, sequence, interrupt, interrupts, workerVars, ctlVars,
                   budgetVars, slots, stream, frames>>

\* Mutant: the release is in a finally, so that a good create gives its slot away.
EnqueueFinally(s) ==
    /\ CreateAt(s, "enqueue", "done")
    /\ stream' = Append(stream, s)
    /\ slots' = slots \ {s}
    /\ UNCHANGED <<dbVars, sequence, interrupt, interrupts, workerVars, ctlVars,
                   budgetVars, frames>>

\* enqueue_session, an XADD.
Enqueue(s) ==
    /\ CreateAt(s, "enqueue", "done")
    /\ stream' = Append(stream, s)
    /\ UNCHANGED <<dbVars, sequence, interrupt, interrupts, workerVars, ctlVars,
                   budgetVars, slots, frames>>

\* The COMMIT or the XADD raises.  The server may have added the message.
CreateRaises(s) ==
    /\ Fault
    /\ \/ CreateAt(s, "insert", "undo") /\ UNCHANGED stream
       \/ CreateAt(s, "enqueue", "undo") /\ UNCHANGED stream
       \/ CreateAt(s, "enqueue", "undo") /\ stream' = Append(stream, s)
    /\ UNCHANGED <<dbVars, sequence, interrupt, interrupts, workerVars, ctlVars,
                   slots, frames>>

\* Mutant: the failed create keeps its slot.
UndoNothing(s) ==
    /\ CreateAt(s, "undo", "failed")
    /\ UNCHANGED <<dbVars, sequence, interrupt, interrupts, workerVars, ctlVars,
                   budgetVars, slots, stream, frames>>

\* `except Exception`: release_run_slot, then raise.  The row, if any, stays.
UndoCreate(s) ==
    /\ CreateAt(s, "undo", "failed")
    /\ slots' = slots \ {s}
    /\ UNCHANGED <<dbVars, sequence, interrupt, interrupts, workerVars, ctlVars,
                   budgetVars, stream, frames>>

\* The API process dies, or the release itself raises.
CreateDies(s) ==
    /\ Fault
    /\ create[s] \in {"insert", "enqueue", "undo"}
    /\ create' = [create EXCEPT ![s] = "died"]
    /\ UNCHANGED <<dbVars, sequence, interrupt, interrupts, workerVars, ctlVars,
                   slots, stream, frames>>

-----------------------------------------------------------------------------
(* interrupt_session *)

InterruptAt(s, from, to) ==
    interrupt[s] = from /\ interrupt' = [interrupt EXCEPT ![s] = to]

\* The row is read here and only here.
CheckInterrupt(s) ==
    /\ status[s] \in {"queued", "running"}
    /\ interrupts[s] < MaxInterrupts
    /\ InterruptAt(s, "none", "publish")
    /\ interrupts' = [interrupts EXCEPT ![s] = @ + 1]
    /\ UNCHANGED <<dbVars, sequence, create, workerVars, ctlVars, budgetVars,
                   slots, stream, frames>>

\* PUBLISH on the control channel: lost unless the consumer has subscribed.
PublishInterrupt(s) ==
    /\ InterruptAt(s, "publish", "commit")
    /\ pending' = [pending EXCEPT ![s] = IF control[s] = "listening" THEN @ + 1 ELSE @]
    /\ UNCHANGED <<dbVars, sequence, create, interrupts, workerVars, control,
                   budgetVars, slots, stream, frames>>

CommitInterrupt(s) ==
    /\ InterruptAt(s, "commit", "announce")
    /\ status' = [status EXCEPT ![s] = "interrupted"]
    /\ UNCHANGED <<runs, sequence, create, interrupts, workerVars, ctlVars,
                   budgetVars, slots, stream, frames>>

\* The terminal frame, before the worker has stopped.
AnnounceInterrupt(s) ==
    /\ InterruptAt(s, "announce", "release")
    /\ frames' = [frames EXCEPT ![s] = @ \cup {"interrupted"}]
    /\ UNCHANGED <<dbVars, sequence, create, interrupts, workerVars, ctlVars,
                   budgetVars, slots, stream>>

\* Mutant: the interrupt leaves the release to the worker.
ReleaseLeftToWorker(s) ==
    /\ InterruptAt(s, "release", "none")
    /\ UNCHANGED <<dbVars, sequence, create, interrupts, workerVars, ctlVars,
                   budgetVars, slots, stream, frames>>

ReleaseInterrupted(s) ==
    /\ InterruptAt(s, "release", "none")
    /\ slots' = slots \ {s}
    /\ UNCHANGED <<dbVars, sequence, create, interrupts, workerVars, ctlVars,
                   budgetVars, stream, frames>>

\* A call of the request raises: the calls after it are not made.
InterruptRaises(s) ==
    /\ Fault
    /\ interrupt[s] # "none"
    /\ interrupt' = [interrupt EXCEPT ![s] = "none"]
    /\ UNCHANGED <<dbVars, sequence, create, interrupts, workerVars, ctlVars,
                   slots, stream, frames>>

-----------------------------------------------------------------------------
(* run_worker, _handle_job and process_session_job *)

Goto(s, from, to) == worker[s] = from /\ worker' = [worker EXCEPT ![s] = to]

\* XREADGROUP ">", only while fewer than max_global_runs tasks run.
Deliver(s) ==
    /\ stream # <<>> /\ s = Head(stream)
    /\ Cardinality(InFlight) < MaxGlobalRuns
    /\ Goto(s, "none", "load")
    /\ stream' = Tail(stream)
    /\ UNCHANGED <<dbVars, apiVars, seq, outcome, phase, ctlVars, budgetVars,
                   slots, frames>>

\* A session that is terminal already is acknowledged and left alone.
LoadSession(s) ==
    /\ Goto(s, "load", IF status[s] \in {"queued", "running"} THEN "mark" ELSE "ack")
    /\ UNCHANGED <<dbVars, apiVars, seq, outcome, phase, ctlVars, budgetVars,
                   slots, stream, frames>>

\* _mark_session_running, then create_task(_consume_session_control).
MarkRunning(s) ==
    /\ Goto(s, "mark", "seed")
    /\ status' = [status EXCEPT ![s] = "running"]
    /\ control' = [control EXCEPT ![s] = "starting"]
    /\ UNCHANGED <<runs, apiVars, seq, outcome, phase, pending, budgetVars,
                   slots, stream, frames>>

\* _load_active_design_intent, still outside the try.
LoadSeed(s) ==
    /\ Goto(s, "seed", "poll")
    /\ UNCHANGED <<dbVars, apiVars, seq, outcome, phase, ctlVars, budgetVars,
                   slots, stream, frames>>

\* The fresh read before each agent.
PollStatus(s) ==
    /\ \/ /\ status[s] = "interrupted"
          /\ Goto(s, "poll", "announce")
          /\ outcome' = [outcome EXCEPT ![s] = "interrupted"]
       \/ status[s] # "interrupted" /\ Goto(s, "poll", "insert") /\ UNCHANGED outcome
    /\ UNCHANGED <<dbVars, apiVars, seq, phase, ctlVars, budgetVars, slots,
                   stream, frames>>

\* _insert_agent_run, and agent.run is called.
InsertRun(s) ==
    /\ Goto(s, "insert", "agent")
    /\ seq' = [seq EXCEPT ![s] = @ + 1]
    /\ runs' = [runs EXCEPT ![s][seq[s] + 1] = "running"]
    /\ phase' = [phase EXCEPT ![s] = "setup"]
    /\ UNCHANGED <<status, apiVars, outcome, ctlVars, budgetVars, slots, stream,
                   frames>>

\* The agent can be interrupted from here on: the graph task exists, or the
\* thread of the Codex session is known.
AgentStarts(s) ==
    /\ phase[s] = "setup"
    /\ phase' = [phase EXCEPT ![s] = "active"]
    /\ UNCHANGED <<dbVars, apiVars, worker, seq, outcome, ctlVars, budgetVars,
                   slots, stream, frames>>

\* The graph task or the turn ends.  A cancelled graph cannot complete; a turn
\* that gets turn/interrupt may have completed already, and Codex alone says
\* whether a turn was interrupted.
AgentEnds(s) ==
    /\ phase[s] \in {"active", "cancelled"}
    /\ phase' = [phase EXCEPT ![s] = "tail"]
    /\ \E o \in Terminal :
          /\ (Kind(s) = "discovery" /\ o = "completed") => phase[s] = "active"
          /\ (Kind(s) = "discovery" /\ o = "interrupted") => phase[s] = "cancelled"
          /\ outcome' = [outcome EXCEPT ![s] = o]
    /\ UNCHANGED <<dbVars, apiVars, worker, seq, ctlVars, budgetVars, slots,
                   stream, frames>>

\* agent.run returns after its tail: the mood board and the design_intents row,
\* or the last flush of the stats.  A discovery can still fail there; a Codex run
\* can fail in its setup, when it opens its session.
AgentReturns(s) ==
    /\ phase[s] \in {"setup", "tail"}
    /\ phase' = [phase EXCEPT ![s] = "none"]
    /\ Goto(s, "agent", "finalize_run")
    /\ \/ phase[s] = "tail" /\ UNCHANGED outcome
       \/ /\ Kind(s) = (IF phase[s] = "tail" THEN "discovery" ELSE "codex")
          /\ outcome' = [outcome EXCEPT ![s] = "failed"]
    /\ UNCHANGED <<dbVars, apiVars, seq, ctlVars, budgetVars, slots, stream, frames>>

\* Mutant: a failed agent is followed by the next.
FinalizeRunGoesOn(s) ==
    /\ Goto(s, "finalize_run",
            IF outcome[s] # "interrupted" /\ seq[s] < ChainLen(s)
            THEN "poll" ELSE "finalize")
    /\ runs' = [runs EXCEPT ![s][seq[s]] = outcome[s]]
    /\ UNCHANGED <<status, apiVars, seq, outcome, phase, ctlVars, budgetVars,
                   slots, stream, frames>>

\* _finalize_run; the next agent only after a completed one.
FinalizeRun(s) ==
    /\ Goto(s, "finalize_run",
            IF outcome[s] = "completed" /\ seq[s] < ChainLen(s)
            THEN "poll" ELSE "finalize")
    /\ runs' = [runs EXCEPT ![s][seq[s]] = outcome[s]]
    /\ UNCHANGED <<status, apiVars, seq, outcome, phase, ctlVars, budgetVars,
                   slots, stream, frames>>

\* _finalize_session, the UPDATE: from the loop, or "failed" from the handler.
FinalizeSession(s) ==
    /\ worker[s] \in {"finalize", "except"}
    /\ worker' = [worker EXCEPT ![s] = "announce"]
    /\ outcome' = [outcome EXCEPT ![s] = IF worker[s] = "except" THEN "failed" ELSE @]
    /\ status' = [status EXCEPT ![s] = outcome'[s]]
    /\ UNCHANGED <<runs, apiVars, seq, phase, ctlVars, budgetVars, slots, stream,
                   frames>>

\* ... and its session_completed frame.
AnnounceEnd(s) ==
    /\ Goto(s, "announce", "cleanup")
    /\ frames' = [frames EXCEPT ![s] = @ \cup {outcome[s]}]
    /\ UNCHANGED <<dbVars, apiVars, seq, outcome, phase, ctlVars, budgetVars,
                   slots, stream>>

\* Mutant: the consumer is awaited but not cancelled.
AwaitControl(s) ==
    /\ control[s] = "off"
    /\ Goto(s, "cleanup", "release")
    /\ UNCHANGED <<dbVars, apiVars, seq, outcome, phase, ctlVars, budgetVars,
                   slots, stream, frames>>

\* finally: cancel the control consumer and wait for it, ...
StopControl(s) ==
    /\ Goto(s, "cleanup", "release")
    /\ control' = [control EXCEPT ![s] = "off"]
    /\ pending' = [pending EXCEPT ![s] = 0]
    /\ UNCHANGED <<dbVars, apiVars, seq, outcome, phase, budgetVars, slots,
                   stream, frames>>

\* Mutant: only a completed session gives its slot back.
ReleaseSlotIfCompleted(s) ==
    /\ Goto(s, "release", "ack")
    /\ slots' = IF outcome[s] = "completed" THEN slots \ {s} ELSE slots
    /\ UNCHANGED <<dbVars, apiVars, seq, outcome, phase, ctlVars, budgetVars,
                   stream, frames>>

\* ... then release_run_slot.
ReleaseSlot(s) ==
    /\ Goto(s, "release", "ack")
    /\ slots' = slots \ {s}
    /\ UNCHANGED <<dbVars, apiVars, seq, outcome, phase, ctlVars, budgetVars,
                   stream, frames>>

\* XACK, in the finally of _handle_job.
Ack(s) ==
    /\ Goto(s, "ack", "acked")
    /\ UNCHANGED <<dbVars, apiVars, seq, outcome, phase, ctlVars, budgetVars,
                   slots, stream, frames>>

\* Mutant: a failing _finalize_session is swallowed and the frame goes out.
HandlerSwallows ==
    [pc \in Busy \ {"agent", "cleanup", "ack"} |->
        CASE pc \in {"load", "mark", "seed", "release"}   -> "ack"
          [] pc \in {"poll", "insert", "finalize_run"}    -> "except"
          [] pc \in {"finalize", "except"}                -> "announce"
          [] pc = "announce"                              -> "cleanup"]

\* Where an exception raised by the call of each step is caught.
Handler ==
    [pc \in Busy \ {"agent", "cleanup", "ack"} |->
        CASE pc \in {"load", "mark", "seed", "release"}              -> "ack"
          [] pc \in {"poll", "insert", "finalize_run", "finalize"}   -> "except"
          [] pc \in {"except", "announce"}                           -> "cleanup"]

WorkerRaises(s) ==
    /\ Fault
    /\ worker[s] \in DOMAIN Handler
    /\ worker' = [worker EXCEPT ![s] = Handler[worker[s]]]
    /\ UNCHANGED <<dbVars, apiVars, seq, outcome, phase, ctlVars, slots, stream,
                   frames>>

\* The process dies with all its tasks and starts again.  It reads ">" only, so
\* no message delivered before is delivered again.
WorkerCrash ==
    /\ crashes < MaxCrashes
    /\ InFlight # {}
    /\ crashes' = crashes + 1
    /\ worker' = [s \in Sessions |-> IF s \in InFlight THEN "lost" ELSE worker[s]]
    /\ phase' = [s \in Sessions |-> "none"]
    /\ control' = [s \in Sessions |-> "off"]
    /\ pending' = [s \in Sessions |-> 0]
    /\ UNCHANGED <<dbVars, apiVars, seq, outcome, faults, outlived, slots, stream, frames>>

-----------------------------------------------------------------------------
(* _consume_session_control *)

Subscribe(s) ==
    /\ control[s] = "starting"
    /\ control' = [control EXCEPT ![s] = "listening"]
    /\ UNCHANGED <<dbVars, apiVars, workerVars, pending, budgetVars, slots,
                   stream, frames>>

\* A message finds an agent that can be interrupted, or it is dropped.
HandleControl(s) ==
    /\ pending[s] > 0
    /\ pending' = [pending EXCEPT ![s] = @ - 1]
    /\ phase' = [phase EXCEPT ![s] = IF @ = "active" THEN "cancelled" ELSE @]
    /\ UNCHANGED <<dbVars, apiVars, worker, seq, outcome, control, budgetVars,
                   slots, stream, frames>>

\* Every acquire purges the slots older than the TTL, also that of a session that is
\* still running: nothing renews it.
SlotExpires(s) ==
    /\ s \in slots /\ Cardinality(outlived) < MaxOutlived
    /\ slots' = slots \ {s}
    /\ outlived' = outlived \cup {s}
    /\ UNCHANGED <<dbVars, apiVars, workerVars, ctlVars, faults, crashes, stream, frames>>

-----------------------------------------------------------------------------
CreateStep(s) ==
    AcquireSlot(s) \/ InsertSession(s) \/ Enqueue(s) \/ UndoCreate(s)
InterruptStep(s) ==
    \/ PublishInterrupt(s) \/ CommitInterrupt(s) \/ AnnounceInterrupt(s)
    \/ ReleaseInterrupted(s)
WorkerStep(s) ==
    \/ Deliver(s) \/ LoadSession(s) \/ MarkRunning(s) \/ LoadSeed(s)
    \/ PollStatus(s) \/ InsertRun(s)
    \/ AgentReturns(s) \/ FinalizeRun(s) \/ FinalizeSession(s) \/ AnnounceEnd(s)
    \/ StopControl(s) \/ ReleaseSlot(s) \/ Ack(s)
AgentStep(s)   == AgentStarts(s) \/ AgentEnds(s)
ControlStep(s) == Subscribe(s) \/ HandleControl(s)

Next ==
    \/ \E s \in Sessions :
          \/ ReadSequence(s) \/ CreateStep(s) \/ CreateRaises(s) \/ CreateDies(s)
          \/ CheckInterrupt(s) \/ InterruptStep(s) \/ InterruptRaises(s)
          \/ WorkerStep(s) \/ AgentStep(s) \/ WorkerRaises(s)
          \/ ControlStep(s)
          \/ SlotExpires(s)
    \/ WorkerCrash

Spec == Init /\ [][Next]_vars

\* Every request that has begun goes on, the event loop of the worker runs each
\* ready task, and an agent ends (a turn has its timeouts).  Nobody must create
\* or interrupt, nothing must fail.
Fairness ==
    \A s \in Sessions :
        /\ WF_vars(CreateStep(s)) /\ WF_vars(InterruptStep(s))
        /\ WF_vars(WorkerStep(s)) /\ WF_vars(AgentStep(s))
        /\ WF_vars(ControlStep(s))

FairSpec == Spec /\ Fairness

-----------------------------------------------------------------------------
TypeOK ==
    /\ status \in [Sessions -> Status]
    /\ sequence \in [Sessions -> Nat]
    /\ DOMAIN runs = Sessions
    /\ \A s \in Sessions : runs[s] \in [1..ChainLen(s) -> RunStatus]
    /\ slots \subseteq Sessions
    /\ stream \in Seq(Sessions)
    /\ frames \in [Sessions -> SUBSET Terminal]
    /\ create \in [Sessions -> CreatePc]
    /\ interrupt \in [Sessions -> InterruptPc]
    /\ interrupts \in [Sessions -> Nat]
    /\ worker \in [Sessions -> WorkerPc]
    /\ seq \in [Sessions -> Nat] /\ \A s \in Sessions : seq[s] <= ChainLen(s)
    /\ outcome \in [Sessions -> {"none"} \cup Terminal]
    /\ phase \in [Sessions -> Phase]
    /\ control \in [Sessions -> {"off", "starting", "listening"}]
    /\ pending \in [Sessions -> Nat]
    /\ faults \in Nat /\ crashes \in Nat /\ outlived \subseteq Sessions

\* While the worker has the job of an admitted session in hand, the session holds
\* its quota slot, as long as nobody interrupts it and it is younger than the TTL:
\* neither the create request nor another session's release gives the slot away
\* under a running agent.
SlotCoversRun ==
    \A s \in Sessions \ outlived :
        worker[s] \in Busy \ {"ack"} /\ create[s] = "done" /\ interrupts[s] = 0 =>
            s \in slots

\* What the quota is for, across create requests, interrupts and worker: the agents at
\* work, of a user and of all, are within the limits.  An interrupt frees the slot
\* before its agent has stopped, and so do the TTL and a create request that fails
\* when its job is queued; no other agent may come on top.
AtWork == {s \in Sessions : phase[s] # "none"}
Cut    == {s \in Sessions : interrupts[s] > 0 \/ create[s] # "done"} \cup outlived

AgentsWithinQuota ==
    /\ Cardinality(AtWork \ Cut) <= MaxGlobalRuns
    /\ \A u \in Users : Cardinality((AtWork \ Cut) \cap SessionsOf(u)) <= MaxUserRuns

\* Of each session the agents run one after the other: a run starts only after
\* every earlier one has completed, and a session that is completed has
\* completed its whole chain.
ChainInOrder ==
    \A s \in Sessions :
        /\ \A i, j \in 1..ChainLen(s) :
              i < j /\ runs[s][j] # "none" => runs[s][i] = "completed"
        /\ status[s] = "completed" => runs[s][ChainLen(s)] = "completed"

\* Once the worker has acknowledged a job and the interrupt requests are over,
\* the session is terminal, none of its runs is left running and its slot is
\* free, however the two interleaved.  A failing call or a crash may break this.
Settled(s) ==
    /\ status[s] \in Terminal
    /\ \A i \in 1..ChainLen(s) : runs[s][i] # "running"
    /\ s \notin slots

AckedIsSettled ==
    faults = 0 =>
        \A s \in Sessions :
            worker[s] = "acked" /\ interrupt[s] = "none" => Settled(s)

\* A browser closes its event stream on the first session_completed frame.  If
\* nobody interrupted the session, what that frame says is the final status,
\* whatever SQL or Redis call failed and whenever the worker crashed.
FrameTellsStatus ==
    \A s \in Sessions :
        interrupts[s] = 0 => frames[s] \subseteq {status[s]}

\* A create request that has answered with an error holds no slot ("any failure
\* below must release it before surfacing the exception so we don't leak slot").
FailedCreateHoldsNoSlot ==
    \A s \in Sessions : create[s] \in {"failed", "rejected"} => s \notin slots

\* Every session that was admitted and enqueued comes to rest and stays there, also
\* behind other sessions that fill the worker, and although interrupts race with
\* its end.
EverySessionEnds ==
    <>[](\A s \in Sessions : create[s] = "done" => Settled(s) /\ worker[s] = "acked")

\* After a crash of the worker the user can put a stranded session right: an
\* interrupt request makes its row terminal and frees its slot, unless one of its
\* own calls fails.
InterruptRecovers ==
    \A s \in Sessions, n \in 0..MaxFaults :
        worker[s] = "lost" /\ interrupt[s] = "publish" /\ faults = n ~>
            faults > n \/ (status[s] = "interrupted" /\ s \notin slots)

\* No two terminal frames of a session disagree ("the worker's own
\* _finalize_session will also publish the same shape once the run drains").
TerminalFramesAgree ==
    \A s \in Sessions : Cardinality(frames[s]) <= 1

\* No further agent starts in a session that is marked interrupted ("an API-initiated
\* interrupt arriving between agents also short-circuits").
NoRunAfterInterrupt ==
    [][\A s \in Sessions :
        seq[s] > 0 /\ seq'[s] # seq[s] => status[s] # "interrupted"]_vars

\* The same of all agents at work ("per-user in-flight sessions").
RunningWithinUserQuota ==
    \A u \in Users : Cardinality(AtWork \cap SessionsOf(u)) <= MaxUserRuns

\* The rows and the frames of the sessions keep the contract of SessionContract, through
\* every fault and crash; what FrameTellsStatus says follows from it.
Contract == INSTANCE SessionContract WITH asked <- {s \in Sessions : interrupts[s] > 0}

SessionsKeepContract == Contract!Spec

=============================================================================
