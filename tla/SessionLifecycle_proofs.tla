------------------------ MODULE SessionLifecycle_proofs ------------------------
(***************************************************************************)
(* What holds of SessionLifecycle for every number of sessions, every      *)
(* chain of agents, and any number of interrupts, faults and crashes,      *)
(* proved by induction over its steps.                                     *)
(***************************************************************************)
EXTENDS SessionLifecycle, FiniteSetTheorems, WellFoundedInduction, TLAPS

-----------------------------------------------------------------------------
(* The inductive invariant: one part for each pair of processes it relates. *)

\* Where the locals of the worker task stand at each of its steps.
WorkerLocals(s) ==
    /\ worker[s] \in {"none", "load", "mark", "seed"} => seq[s] = 0
    /\ worker[s] \in {"poll", "insert"} => seq[s] < ChainLen(s)
    /\ worker[s] \in {"agent", "finalize_run"} => seq[s] > 0
    /\ phase[s] # "none" => worker[s] = "agent"
    /\ phase[s] = "tail" \/ worker[s] \in {"finalize_run", "finalize", "announce"} =>
          outcome[s] \in Terminal

\* Before the create request has committed there is no row, and nobody can work
\* on a session that has no row.
CreateFirst(s) ==
    /\ create[s] \in {"none", "acquire", "insert"} => status[s] = "absent"
    /\ create[s] \in {"enqueue", "done"} => status[s] # "absent"
    /\ status[s] = "absent" => interrupt[s] = "none"
    /\ interrupts[s] = 0 => interrupt[s] = "none"

\* ... nor is there a job before the row and the enqueue.
JobFirst(s) ==
    create[s] \in {"none", "acquire", "insert", "enqueue"} \/ status[s] = "absent" =>
        worker[s] = "none" /\ stream \in Seq(Sessions \ {s})

\* Who holds a slot, and who has given it back.
SlotOwned(s) ==
    /\ create[s] \in {"none", "acquire", "rejected", "failed"} => s \notin slots
    /\ /\ create[s] \in {"insert", "enqueue", "done"}
       /\ worker[s] \notin {"ack", "acked", "lost"}
       /\ interrupts[s] = 0 /\ s \notin outlived
       => s \in slots

\* The row follows the worker, which announces what it has written.
RowFollows(s) ==
    /\ worker[s] \in {"none", "load"} => status[s] \in {"absent", "queued", "interrupted"}
    /\ status[s] = "completed" =>
          worker[s] \in {"announce", "cleanup", "release", "ack", "acked", "lost"}
    /\ interrupts[s] = 0 =>
          /\ frames[s] \subseteq {status[s]}
          /\ worker[s] = "announce" => status[s] = outcome[s]
          /\ frames[s] # {} =>
                worker[s] \in {"cleanup", "release", "ack", "acked", "lost"}

\* The runs up to seq have started, those before it are completed.
RunsFollow(s) ==
    /\ \A i \in 1..ChainLen(s) :
          /\ i > seq[s] => runs[s][i] = "none"
          /\ i < seq[s] => runs[s][i] = "completed"
          /\ i = seq[s] /\ worker[s] \in {"poll", "insert"} => runs[s][i] = "completed"
    /\ worker[s] \in {"finalize", "announce"} /\ outcome[s] = "completed" =>
          runs[s][ChainLen(s)] = "completed"
    /\ status[s] = "completed" => runs[s][ChainLen(s)] = "completed"

\* As long as no call has failed, the end of the job leaves nothing undone.
EndsClean(s) ==
    faults = 0 =>
        /\ worker[s] # "except"
        /\ worker[s] \in {"announce", "cleanup", "release", "ack", "acked"} =>
              status[s] \in Terminal
        /\ worker[s] \notin {"agent", "finalize_run", "lost"} =>
              \A i \in 1..ChainLen(s) : runs[s][i] # "running"
        /\ \/ worker[s] \in {"none", "load"} /\ status[s] = "interrupted"
           \/ worker[s] \in {"ack", "acked"}
           => s \notin slots \/ interrupt[s] \in {"announce", "release"}

LifecycleInv ==
    \A s \in Sessions :
        /\ WorkerLocals(s) /\ CreateFirst(s) /\ JobFirst(s)
        /\ SlotOwned(s) /\ RowFollows(s) /\ RunsFollow(s) /\ EndsClean(s)

-----------------------------------------------------------------------------
(* The lemmas: one for each part of the invariant, with one step per action. *)

\* A finite, nonempty set of naturals has a greatest element: a counterexample
\* with the fewest elements would lose one and have none.
LEMMA GreatestExists ==
    ASSUME NEW S \in SUBSET Nat, IsFiniteSet(S), S # {}
    PROVE  Max(S) \in S
<1> DEFINE Bounded(U) == \E m \in U : \A y \in U : m >= y
           Less == {xy \in Nat \X Nat : xy[1] < xy[2]}
           Sizes == {n \in Nat : \E U \in SUBSET S :
                        U # {} /\ Cardinality(U) = n /\ ~Bounded(U)}
<1>0. IsWellFoundedOn(Less, Nat)
  BY NatLessThanWellFounded, Zenon DEF OpToRel
<1>1. Sizes = {}
  <2> SUFFICES ASSUME Sizes # {} PROVE FALSE
    OBVIOUS
  <2>1. PICK n \in Sizes : \A k \in Sizes : ~(<<k, n>> \in Less)
    <3>1. Sizes \subseteq Nat /\ Sizes # {}
      OBVIOUS
    <3> HIDE DEF Less, Sizes
    <3>2. \E n \in Sizes : \A k \in Sizes : ~(<<k, n>> \in Less)
      BY <1>0, <3>1, WFMin, Zenon
    <3> QED
      BY <3>2
  <2>2. PICK U \in SUBSET S : U # {} /\ Cardinality(U) = n /\ ~Bounded(U)
    BY <2>1
  <2>3. PICK x \in U : TRUE
    BY <2>2
  <2> DEFINE V == U \ {x}
  <2>4. IsFiniteSet(U) /\ IsFiniteSet(V) /\ Cardinality(V) = n - 1 /\ Cardinality(V) \in Nat
    BY <2>2, <2>3, FS_Subset, FS_RemoveElement, FS_CardinalityType
  <2>5. V # {}
    BY <2>2, <2>3
  <2>6. Cardinality(V) \notin Sizes
    <3> n \in Nat
      OBVIOUS
    <3> HIDE DEF Sizes
    <3>1. <<Cardinality(V), n>> \in Less
      BY <2>4
    <3> QED
      BY <2>1, <3>1
  <2>7. Bounded(V)
    BY <2>4, <2>5, <2>6
  <2>8. PICK m \in V : \A y \in V : m >= y
    BY <2>7
  <2>9. Bounded(U)
    <3>1. CASE m >= x
      BY <2>8, <3>1
    <3>2. CASE ~(m >= x)
      <4>1. \A y \in U : x >= y
        BY <2>3, <2>8, <3>2
      <4> QED
        BY <2>3, <4>1
    <3> QED
      BY <3>1, <3>2
  <2> QED
    BY <2>2, <2>9
<1>2. Cardinality(S) \in Nat
  BY FS_CardinalityType
<1>3. Bounded(S)
  BY <1>1, <1>2
<1> QED
  BY <1>3 DEF Max

\* The next sequence number of a project is a positive number.
LEMMA NextSequenceType ==
    ASSUME TypeOK, NEW p
    PROVE  NextSequence(p) \in Nat
<1> DEFINE used == {sequence[t] : t \in Rows(p)}
<1>1. IsFiniteSet(Rows(p))
  BY FS_Subset, LifecycleAssumption DEF Rows
<1>2. IsFiniteSet(used)
  <2>1. [t \in Rows(p) |-> sequence[t]] \in Surjection(Rows(p), used)
    BY DEF Surjection
  <2> QED
    BY <1>1, <2>1, FS_Surjection
<1>3. IsFiniteSet({0} \cup used)
  BY <1>2, FS_Union, FS_Singleton
<1>4. {0} \cup used \in SUBSET Nat
  BY DEF TypeOK, Rows
<1>5. Max({0} \cup used) \in Nat
  BY <1>3, <1>4, GreatestExists
<1> QED
  BY <1>5 DEF NextSequence

\* At most the run at seq is running.
LEMMA OthersNotRunning ==
    ASSUME TypeOK, NEW s \in Sessions, RunsFollow(s)
    PROVE  \A i \in 1..ChainLen(s) : i # seq[s] => runs[s][i] # "running"
<1>1. seq[s] \in Nat
  BY DEF TypeOK
<1>2. TAKE i \in 1..ChainLen(s)
<1>3. i \in Int
  BY LifecycleAssumption DEF ChainLen
<1> QED
  BY <1>1, <1>3 DEF RunsFollow

\* Every step keeps the types; the locals of the worker bound seq and outcome.
LEMMA TypeStep == TypeOK /\ LifecycleInv /\ [Next]_vars => TypeOK'
<1> SUFFICES ASSUME TypeOK, LifecycleInv, [Next]_vars PROVE TypeOK'
  OBVIOUS
<1> USE DEF TypeOK, dbVars, apiVars, workerVars, ctlVars, budgetVars
<1>1. ASSUME NEW s \in Sessions, ReadSequence(s) PROVE TypeOK'
  <2>1. sequence' \in [Sessions -> Nat]
    BY <1>1, NextSequenceType DEF ReadSequence
  <2> QED
    BY <1>1, <2>1 DEF ReadSequence, CreateAt, CreatePc
<1>2. ASSUME NEW s \in Sessions, AcquireSlot(s) PROVE TypeOK'
  BY <1>2 DEF AcquireSlot, CreateAt, CreatePc, Status
<1>3. ASSUME NEW s \in Sessions, InsertSession(s) PROVE TypeOK'
  BY <1>3 DEF InsertSession, CreateAt, CreatePc, Status
<1>4. ASSUME NEW s \in Sessions, Enqueue(s) PROVE TypeOK'
  BY <1>4 DEF Enqueue, CreateAt, CreatePc, Status
<1>5. ASSUME NEW s \in Sessions, UndoCreate(s) PROVE TypeOK'
  BY <1>5 DEF UndoCreate, CreateAt, CreatePc, Status
<1>6. ASSUME NEW s \in Sessions, CreateRaises(s) PROVE TypeOK'
  <2>1. UNCHANGED stream \/ stream' = Append(stream, s)
    BY <1>6 DEF CreateRaises
  <2>2. Append(stream, s) \in Seq(Sessions)
    OBVIOUS
  <2>3. stream' \in Seq(Sessions)
    BY <2>1, <2>2
  <2>4. create' \in [Sessions -> CreatePc]
    BY <1>6 DEF CreateRaises, CreateAt, CreatePc
  <2>5. faults' \in Nat /\ crashes' \in Nat /\ outlived' \subseteq Sessions
    BY <1>6 DEF CreateRaises, Fault
  <2>6. UNCHANGED <<dbVars, sequence, interrupt, interrupts, workerVars, ctlVars, slots, frames>>
    BY <1>6 DEF CreateRaises
  <2> QED
    BY <2>3, <2>4, <2>5, <2>6
<1>7. ASSUME NEW s \in Sessions, CreateDies(s) PROVE TypeOK'
  BY <1>7 DEF CreateDies, Fault, CreatePc, Status
<1>8. ASSUME NEW s \in Sessions, CheckInterrupt(s) PROVE TypeOK'
  <2>1. interrupt' \in [Sessions -> InterruptPc]
    BY <1>8 DEF CheckInterrupt, InterruptAt, InterruptPc
  <2>2. interrupts' \in [Sessions -> Nat]
    BY <1>8 DEF CheckInterrupt
  <2> QED
    BY <1>8, <2>1, <2>2 DEF CheckInterrupt
<1>9. ASSUME NEW s \in Sessions, PublishInterrupt(s) PROVE TypeOK'
  BY <1>9 DEF PublishInterrupt, InterruptAt, InterruptPc, Status, Terminal
<1>10. ASSUME NEW s \in Sessions, CommitInterrupt(s) PROVE TypeOK'
  BY <1>10 DEF CommitInterrupt, InterruptAt, InterruptPc, Status, Terminal
<1>11. ASSUME NEW s \in Sessions, AnnounceInterrupt(s) PROVE TypeOK'
  BY <1>11 DEF AnnounceInterrupt, InterruptAt, InterruptPc, Status, Terminal
<1>12. ASSUME NEW s \in Sessions, ReleaseInterrupted(s) PROVE TypeOK'
  BY <1>12 DEF ReleaseInterrupted, InterruptAt, InterruptPc, Status, Terminal
<1>13. ASSUME NEW s \in Sessions, InterruptRaises(s) PROVE TypeOK'
  BY <1>13 DEF InterruptRaises, Fault, InterruptPc, Status, Terminal
<1>14. ASSUME NEW s \in Sessions, Deliver(s) PROVE TypeOK'
  <2>1. worker' \in [Sessions -> WorkerPc]
    BY <1>14 DEF Deliver, Goto, WorkerPc, Busy
  <2>2. stream' \in Seq(Sessions)
    BY <1>14 DEF Deliver
  <2>3. UNCHANGED <<dbVars, apiVars, seq, outcome, phase, ctlVars, budgetVars, slots, frames>>
    BY <1>14 DEF Deliver
  <2> QED
    BY <2>1, <2>2, <2>3
<1>15. ASSUME NEW s \in Sessions, LoadSession(s) PROVE TypeOK'
  BY <1>15
     DEF LoadSession, Goto, WorkerPc, Busy, InTry, Phase, Status, RunStatus,
         Terminal
<1>16. ASSUME NEW s \in Sessions, MarkRunning(s) PROVE TypeOK'
  BY <1>16
     DEF MarkRunning, Goto, WorkerPc, Busy, InTry, Phase, Status, RunStatus,
         Terminal
<1>17. ASSUME NEW s \in Sessions, LoadSeed(s) PROVE TypeOK'
  BY <1>17
     DEF LoadSeed, Goto, WorkerPc, Busy, InTry, Phase, Status, RunStatus,
         Terminal
<1>18. ASSUME NEW s \in Sessions, PollStatus(s) PROVE TypeOK'
  <2>1. worker' \in [Sessions -> WorkerPc]
    BY <1>18 DEF PollStatus, Goto, WorkerPc, Busy, InTry
  <2>2. outcome' \in [Sessions -> {"none"} \cup Terminal]
    BY <1>18 DEF PollStatus, Terminal
  <2> QED
    BY <1>18, <2>1, <2>2 DEF PollStatus
<1>19. ASSUME NEW s \in Sessions, InsertRun(s) PROVE TypeOK'
  <2>1. s \in DOMAIN runs /\ seq[s] + 1 \in 1..ChainLen(s)
    <3>1. worker[s] = "insert" /\ seq[s] \in Nat /\ ChainLen(s) \in Nat /\ s \in DOMAIN runs
      BY <1>19, LifecycleAssumption DEF InsertRun, Goto, ChainLen
    <3>2. seq[s] < ChainLen(s)
      BY <3>1 DEF LifecycleInv, WorkerLocals
    <3> QED
      BY <3>1, <3>2
  <2>2. \A t \in Sessions : runs'[t] \in [1..ChainLen(t) -> RunStatus]
    BY <1>19, <2>1 DEF InsertRun, RunStatus
  <2>3. DOMAIN runs' = Sessions
    BY <1>19 DEF InsertRun
  <2>4. worker' \in [Sessions -> WorkerPc]
    BY <1>19 DEF InsertRun, Goto, WorkerPc, Busy, InTry
  <2>5. seq' \in [Sessions -> Nat] /\ \A t \in Sessions : seq'[t] <= ChainLen(t)
    BY <1>19, <2>1 DEF InsertRun
  <2>6. phase' \in [Sessions -> Phase]
    BY <1>19 DEF InsertRun, Phase
  <2> QED
    BY <1>19, <2>2, <2>3, <2>4, <2>5, <2>6 DEF InsertRun
<1>20. ASSUME NEW s \in Sessions, AgentReturns(s) PROVE TypeOK'
  <2>1. outcome' \in [Sessions -> {"none"} \cup Terminal]
    BY <1>20 DEF AgentReturns, Terminal
  <2>2. worker' \in [Sessions -> WorkerPc]
    BY <1>20 DEF AgentReturns, Goto, WorkerPc, Busy, InTry
  <2>3. phase' \in [Sessions -> Phase]
    BY <1>20 DEF AgentReturns, Phase
  <2> QED
    BY <1>20, <2>1, <2>2, <2>3 DEF AgentReturns
<1>21. ASSUME NEW s \in Sessions, FinalizeRun(s) PROVE TypeOK'
  BY <1>21
     DEF FinalizeRun, Goto, WorkerPc, Busy, InTry, Phase, Status, RunStatus,
         Terminal
<1>22. ASSUME NEW s \in Sessions, FinalizeSession(s) PROVE TypeOK'
  BY <1>22
     DEF FinalizeSession, WorkerPc, Busy, InTry, Phase, Status, RunStatus,
         Terminal, LifecycleInv, WorkerLocals
<1>23. ASSUME NEW s \in Sessions, AnnounceEnd(s) PROVE TypeOK'
  BY <1>23
     DEF AnnounceEnd, Goto, WorkerPc, Busy, InTry, Phase, Status, RunStatus,
         Terminal, LifecycleInv, WorkerLocals
<1>24. ASSUME NEW s \in Sessions, StopControl(s) PROVE TypeOK'
  BY <1>24
     DEF StopControl, Goto, WorkerPc, Busy, InTry, Phase, Status, RunStatus,
         Terminal
<1>25. ASSUME NEW s \in Sessions, ReleaseSlot(s) PROVE TypeOK'
  BY <1>25
     DEF ReleaseSlot, Goto, WorkerPc, Busy, InTry, Phase, Status, RunStatus,
         Terminal
<1>26. ASSUME NEW s \in Sessions, Ack(s) PROVE TypeOK'
  BY <1>26
     DEF Ack, Goto, WorkerPc, Busy, InTry, Phase, Status, RunStatus, Terminal
<1>27. ASSUME NEW s \in Sessions, AgentStarts(s) PROVE TypeOK'
  BY <1>27 DEF AgentStarts, Phase
<1>28. ASSUME NEW s \in Sessions, AgentEnds(s) PROVE TypeOK'
  BY <1>28
     DEF AgentEnds, WorkerPc, Busy, InTry, Phase, Status, RunStatus, Terminal
<1>29. ASSUME NEW s \in Sessions, WorkerRaises(s) PROVE TypeOK'
  BY <1>29
     DEF WorkerRaises, Fault, Handler, WorkerPc, Busy, InTry, Phase, Status,
         RunStatus, Terminal
<1>30. ASSUME NEW s \in Sessions, Subscribe(s) PROVE TypeOK'
  BY <1>30 DEF Subscribe, Phase
<1>31. ASSUME NEW s \in Sessions, HandleControl(s) PROVE TypeOK'
  BY <1>31 DEF HandleControl, Phase
<1>32. ASSUME NEW s \in Sessions, SlotExpires(s) PROVE TypeOK'
  BY <1>32 DEF SlotExpires, Phase
<1>33. CASE WorkerCrash
  BY <1>33 DEF WorkerCrash, WorkerPc, Phase
<1>34. CASE UNCHANGED vars
  BY <1>34 DEF vars
<1> QED
  BY <1>1, <1>2, <1>3, <1>4, <1>5, <1>6, <1>7, <1>8, <1>9, <1>10, <1>11, <1>12,
     <1>13, <1>14, <1>15, <1>16, <1>17, <1>18, <1>19, <1>20, <1>21, <1>22,
     <1>23, <1>24, <1>25, <1>26, <1>27, <1>28, <1>29, <1>30, <1>31, <1>32,
     <1>33, <1>34
     DEF Next, CreateStep, InterruptStep, WorkerStep, AgentStep, ControlStep

\* Every step keeps the locals of the worker task in step with where it stands.
LEMMA WorkerLocalsStep ==
    ASSUME TypeOK, [Next]_vars, NEW s \in Sessions,
           WorkerLocals(s)
    PROVE  WorkerLocals(s)'
<1> USE DEF TypeOK, dbVars, apiVars, workerVars, ctlVars, budgetVars,
        WorkerLocals, Terminal, InTry, Busy
<1>1. ASSUME NEW t \in Sessions, ReadSequence(t) PROVE WorkerLocals(s)'
  BY <1>1 DEF ReadSequence, CreateAt
<1>2. ASSUME NEW t \in Sessions, AcquireSlot(t) PROVE WorkerLocals(s)'
  BY <1>2 DEF AcquireSlot, CreateAt
<1>3. ASSUME NEW t \in Sessions, InsertSession(t) PROVE WorkerLocals(s)'
  BY <1>3 DEF InsertSession, CreateAt
<1>4. ASSUME NEW t \in Sessions, Enqueue(t) PROVE WorkerLocals(s)'
  BY <1>4 DEF Enqueue, CreateAt
<1>5. ASSUME NEW t \in Sessions, UndoCreate(t) PROVE WorkerLocals(s)'
  BY <1>5 DEF UndoCreate, CreateAt
<1>6. ASSUME NEW t \in Sessions, CreateRaises(t) PROVE WorkerLocals(s)'
  BY <1>6 DEF CreateRaises, CreateAt, Fault
<1>7. ASSUME NEW t \in Sessions, CreateDies(t) PROVE WorkerLocals(s)'
  BY <1>7 DEF CreateDies, Fault
<1>8. ASSUME NEW t \in Sessions, CheckInterrupt(t) PROVE WorkerLocals(s)'
  BY <1>8 DEF CheckInterrupt, InterruptAt
<1>9. ASSUME NEW t \in Sessions, PublishInterrupt(t) PROVE WorkerLocals(s)'
  BY <1>9 DEF PublishInterrupt, InterruptAt
<1>10. ASSUME NEW t \in Sessions, CommitInterrupt(t) PROVE WorkerLocals(s)'
  BY <1>10 DEF CommitInterrupt, InterruptAt
<1>11. ASSUME NEW t \in Sessions, AnnounceInterrupt(t) PROVE WorkerLocals(s)'
  BY <1>11 DEF AnnounceInterrupt, InterruptAt
<1>12. ASSUME NEW t \in Sessions, ReleaseInterrupted(t) PROVE WorkerLocals(s)'
  BY <1>12 DEF ReleaseInterrupted, InterruptAt
<1>13. ASSUME NEW t \in Sessions, InterruptRaises(t) PROVE WorkerLocals(s)'
  BY <1>13 DEF InterruptRaises, Fault
<1>14. ASSUME NEW t \in Sessions, Deliver(t) PROVE WorkerLocals(s)'
  BY <1>14 DEF Deliver, Goto
<1>15. ASSUME NEW t \in Sessions, LoadSession(t) PROVE WorkerLocals(s)'
  BY <1>15 DEF LoadSession, Goto
<1>16. ASSUME NEW t \in Sessions, MarkRunning(t) PROVE WorkerLocals(s)'
  BY <1>16 DEF MarkRunning, Goto
<1>17. ASSUME NEW t \in Sessions, LoadSeed(t) PROVE WorkerLocals(s)'
  BY <1>17, LifecycleAssumption DEF LoadSeed, Goto, ChainLen
<1>18. ASSUME NEW t \in Sessions, PollStatus(t) PROVE WorkerLocals(s)'
  BY <1>18 DEF PollStatus, Goto
<1>19. ASSUME NEW t \in Sessions, InsertRun(t) PROVE WorkerLocals(s)'
  BY <1>19 DEF InsertRun, Goto
<1>20. ASSUME NEW t \in Sessions, AgentReturns(t) PROVE WorkerLocals(s)'
  BY <1>20 DEF AgentReturns, Goto
<1>21. ASSUME NEW t \in Sessions, FinalizeRun(t) PROVE WorkerLocals(s)'
  BY <1>21 DEF FinalizeRun, Goto
<1>22. ASSUME NEW t \in Sessions, FinalizeSession(t) PROVE WorkerLocals(s)'
  BY <1>22 DEF FinalizeSession
<1>23. ASSUME NEW t \in Sessions, AnnounceEnd(t) PROVE WorkerLocals(s)'
  BY <1>23 DEF AnnounceEnd, Goto
<1>24. ASSUME NEW t \in Sessions, StopControl(t) PROVE WorkerLocals(s)'
  BY <1>24 DEF StopControl, Goto
<1>25. ASSUME NEW t \in Sessions, ReleaseSlot(t) PROVE WorkerLocals(s)'
  BY <1>25 DEF ReleaseSlot, Goto
<1>26. ASSUME NEW t \in Sessions, Ack(t) PROVE WorkerLocals(s)'
  BY <1>26 DEF Ack, Goto
<1>27. ASSUME NEW t \in Sessions, AgentStarts(t) PROVE WorkerLocals(s)'
  BY <1>27 DEF AgentStarts
<1>28. ASSUME NEW t \in Sessions, AgentEnds(t) PROVE WorkerLocals(s)'
  BY <1>28 DEF AgentEnds
<1>29. ASSUME NEW t \in Sessions, WorkerRaises(t) PROVE WorkerLocals(s)'
  BY <1>29 DEF WorkerRaises, Fault, Handler
<1>30. ASSUME NEW t \in Sessions, Subscribe(t) PROVE WorkerLocals(s)'
  BY <1>30 DEF Subscribe
<1>31. ASSUME NEW t \in Sessions, HandleControl(t) PROVE WorkerLocals(s)'
  BY <1>31 DEF HandleControl
<1>32. ASSUME NEW t \in Sessions, SlotExpires(t) PROVE WorkerLocals(s)'
  BY <1>32 DEF SlotExpires
<1>33. CASE WorkerCrash
  BY <1>33 DEF WorkerCrash, InFlight
<1>34. CASE UNCHANGED vars
  BY <1>34 DEF vars
<1> QED
  BY <1>1, <1>2, <1>3, <1>4, <1>5, <1>6, <1>7, <1>8, <1>9, <1>10, <1>11, <1>12,
     <1>13, <1>14, <1>15, <1>16, <1>17, <1>18, <1>19, <1>20, <1>21, <1>22,
     <1>23, <1>24, <1>25, <1>26, <1>27, <1>28, <1>29, <1>30, <1>31, <1>32,
     <1>33, <1>34
     DEF Next, CreateStep, InterruptStep, WorkerStep, AgentStep, ControlStep

\* No step works on a session whose create request has not committed.
LEMMA CreateFirstStep ==
    ASSUME TypeOK, [Next]_vars, NEW s \in Sessions,
           WorkerLocals(s), CreateFirst(s), JobFirst(s)
    PROVE  CreateFirst(s)'
<1> USE DEF TypeOK, dbVars, apiVars, workerVars, ctlVars, budgetVars, CreateFirst,
        JobFirst
<1>1. ASSUME NEW t \in Sessions, ReadSequence(t) PROVE CreateFirst(s)'
  BY <1>1 DEF ReadSequence, CreateAt
<1>2. ASSUME NEW t \in Sessions, AcquireSlot(t) PROVE CreateFirst(s)'
  BY <1>2 DEF AcquireSlot, CreateAt
<1>3. ASSUME NEW t \in Sessions, InsertSession(t) PROVE CreateFirst(s)'
  BY <1>3 DEF InsertSession, CreateAt
<1>4. ASSUME NEW t \in Sessions, Enqueue(t) PROVE CreateFirst(s)'
  BY <1>4 DEF Enqueue, CreateAt
<1>5. ASSUME NEW t \in Sessions, UndoCreate(t) PROVE CreateFirst(s)'
  BY <1>5 DEF UndoCreate, CreateAt
<1>6. ASSUME NEW t \in Sessions, CreateRaises(t) PROVE CreateFirst(s)'
  BY <1>6 DEF CreateRaises, CreateAt, Fault
<1>7. ASSUME NEW t \in Sessions, CreateDies(t) PROVE CreateFirst(s)'
  BY <1>7 DEF CreateDies, Fault
<1>8. ASSUME NEW t \in Sessions, CheckInterrupt(t) PROVE CreateFirst(s)'
  BY <1>8 DEF CheckInterrupt, InterruptAt
<1>9. ASSUME NEW t \in Sessions, PublishInterrupt(t) PROVE CreateFirst(s)'
  BY <1>9 DEF PublishInterrupt, InterruptAt
<1>10. ASSUME NEW t \in Sessions, CommitInterrupt(t) PROVE CreateFirst(s)'
  BY <1>10 DEF CommitInterrupt, InterruptAt
<1>11. ASSUME NEW t \in Sessions, AnnounceInterrupt(t) PROVE CreateFirst(s)'
  BY <1>11 DEF AnnounceInterrupt, InterruptAt
<1>12. ASSUME NEW t \in Sessions, ReleaseInterrupted(t) PROVE CreateFirst(s)'
  BY <1>12 DEF ReleaseInterrupted, InterruptAt
<1>13. ASSUME NEW t \in Sessions, InterruptRaises(t) PROVE CreateFirst(s)'
  BY <1>13 DEF InterruptRaises, Fault
<1>14. ASSUME NEW t \in Sessions, Deliver(t) PROVE CreateFirst(s)'
  BY <1>14 DEF Deliver, Goto
<1>15. ASSUME NEW t \in Sessions, LoadSession(t) PROVE CreateFirst(s)'
  BY <1>15 DEF LoadSession, Goto
<1>16. ASSUME NEW t \in Sessions, MarkRunning(t) PROVE CreateFirst(s)'
  BY <1>16 DEF MarkRunning, Goto
<1>17. ASSUME NEW t \in Sessions, LoadSeed(t) PROVE CreateFirst(s)'
  BY <1>17 DEF LoadSeed, Goto
<1>18. ASSUME NEW t \in Sessions, PollStatus(t) PROVE CreateFirst(s)'
  BY <1>18 DEF PollStatus, Goto
<1>19. ASSUME NEW t \in Sessions, InsertRun(t) PROVE CreateFirst(s)'
  BY <1>19 DEF InsertRun, Goto
<1>20. ASSUME NEW t \in Sessions, AgentReturns(t) PROVE CreateFirst(s)'
  BY <1>20 DEF AgentReturns, Goto
<1>21. ASSUME NEW t \in Sessions, FinalizeRun(t) PROVE CreateFirst(s)'
  BY <1>21 DEF FinalizeRun, Goto
<1>22. ASSUME NEW t \in Sessions, FinalizeSession(t) PROVE CreateFirst(s)'
  BY <1>22 DEF FinalizeSession, WorkerLocals, Terminal
<1>23. ASSUME NEW t \in Sessions, AnnounceEnd(t) PROVE CreateFirst(s)'
  BY <1>23 DEF AnnounceEnd, Goto
<1>24. ASSUME NEW t \in Sessions, StopControl(t) PROVE CreateFirst(s)'
  BY <1>24 DEF StopControl, Goto
<1>25. ASSUME NEW t \in Sessions, ReleaseSlot(t) PROVE CreateFirst(s)'
  BY <1>25 DEF ReleaseSlot, Goto
<1>26. ASSUME NEW t \in Sessions, Ack(t) PROVE CreateFirst(s)'
  BY <1>26 DEF Ack, Goto
<1>27. ASSUME NEW t \in Sessions, AgentStarts(t) PROVE CreateFirst(s)'
  BY <1>27 DEF AgentStarts
<1>28. ASSUME NEW t \in Sessions, AgentEnds(t) PROVE CreateFirst(s)'
  BY <1>28 DEF AgentEnds
<1>29. ASSUME NEW t \in Sessions, WorkerRaises(t) PROVE CreateFirst(s)'
  BY <1>29 DEF WorkerRaises, Fault, Handler
<1>30. ASSUME NEW t \in Sessions, Subscribe(t) PROVE CreateFirst(s)'
  BY <1>30 DEF Subscribe
<1>31. ASSUME NEW t \in Sessions, HandleControl(t) PROVE CreateFirst(s)'
  BY <1>31 DEF HandleControl
<1>32. ASSUME NEW t \in Sessions, SlotExpires(t) PROVE CreateFirst(s)'
  BY <1>32 DEF SlotExpires
<1>33. CASE WorkerCrash
  BY <1>33 DEF WorkerCrash, InFlight
<1>34. CASE UNCHANGED vars
  BY <1>34 DEF vars
<1> QED
  BY <1>1, <1>2, <1>3, <1>4, <1>5, <1>6, <1>7, <1>8, <1>9, <1>10, <1>11, <1>12,
     <1>13, <1>14, <1>15, <1>16, <1>17, <1>18, <1>19, <1>20, <1>21, <1>22,
     <1>23, <1>24, <1>25, <1>26, <1>27, <1>28, <1>29, <1>30, <1>31, <1>32,
     <1>33, <1>34
     DEF Next, CreateStep, InterruptStep, WorkerStep, AgentStep, ControlStep

\* No step queues a job before its row: the enqueue follows the commit, and a
\* failing enqueue follows it too.
LEMMA JobFirstStep ==
    ASSUME TypeOK, [Next]_vars, NEW s \in Sessions,
           WorkerLocals(s), CreateFirst(s), JobFirst(s)
    PROVE  JobFirst(s)'
<1> USE DEF TypeOK, dbVars, apiVars, workerVars, ctlVars, budgetVars, JobFirst,
        CreateFirst
<1>1. ASSUME NEW t \in Sessions, ReadSequence(t) PROVE JobFirst(s)'
  BY <1>1 DEF ReadSequence, CreateAt
<1>2. ASSUME NEW t \in Sessions, AcquireSlot(t) PROVE JobFirst(s)'
  BY <1>2 DEF AcquireSlot, CreateAt
<1>3. ASSUME NEW t \in Sessions, InsertSession(t) PROVE JobFirst(s)'
  BY <1>3 DEF InsertSession, CreateAt
<1>4. ASSUME NEW t \in Sessions, Enqueue(t) PROVE JobFirst(s)'
  BY <1>4 DEF Enqueue, CreateAt
<1>5. ASSUME NEW t \in Sessions, UndoCreate(t) PROVE JobFirst(s)'
  BY <1>5 DEF UndoCreate, CreateAt
<1>6. ASSUME NEW t \in Sessions, CreateRaises(t) PROVE JobFirst(s)'
  <2>1. \/ UNCHANGED stream
        \/ create[t] = "enqueue" /\ stream' = Append(stream, t)
    BY <1>6 DEF CreateRaises, CreateAt
  <2>2. create[t] \in {"insert", "enqueue"} /\ create' = [create EXCEPT ![t] = "undo"]
    BY <1>6 DEF CreateRaises, CreateAt
  <2>3. UNCHANGED <<status, worker>>
    BY <1>6 DEF CreateRaises
  <2>4. stream \in Seq(Sessions \ {s}) /\ t # s =>
           Append(stream, t) \in Seq(Sessions \ {s})
    OBVIOUS
  <2> QED
    BY <2>1, <2>2, <2>3, <2>4
<1>7. ASSUME NEW t \in Sessions, CreateDies(t) PROVE JobFirst(s)'
  BY <1>7 DEF CreateDies, Fault
<1>8. ASSUME NEW t \in Sessions, CheckInterrupt(t) PROVE JobFirst(s)'
  BY <1>8 DEF CheckInterrupt, InterruptAt
<1>9. ASSUME NEW t \in Sessions, PublishInterrupt(t) PROVE JobFirst(s)'
  BY <1>9 DEF PublishInterrupt, InterruptAt
<1>10. ASSUME NEW t \in Sessions, CommitInterrupt(t) PROVE JobFirst(s)'
  BY <1>10 DEF CommitInterrupt, InterruptAt
<1>11. ASSUME NEW t \in Sessions, AnnounceInterrupt(t) PROVE JobFirst(s)'
  BY <1>11 DEF AnnounceInterrupt, InterruptAt
<1>12. ASSUME NEW t \in Sessions, ReleaseInterrupted(t) PROVE JobFirst(s)'
  BY <1>12 DEF ReleaseInterrupted, InterruptAt
<1>13. ASSUME NEW t \in Sessions, InterruptRaises(t) PROVE JobFirst(s)'
  BY <1>13 DEF InterruptRaises, Fault
<1>14. ASSUME NEW t \in Sessions, Deliver(t) PROVE JobFirst(s)'
  BY <1>14 DEF Deliver, Goto
<1>15. ASSUME NEW t \in Sessions, LoadSession(t) PROVE JobFirst(s)'
  BY <1>15 DEF LoadSession, Goto
<1>16. ASSUME NEW t \in Sessions, MarkRunning(t) PROVE JobFirst(s)'
  BY <1>16 DEF MarkRunning, Goto
<1>17. ASSUME NEW t \in Sessions, LoadSeed(t) PROVE JobFirst(s)'
  BY <1>17 DEF LoadSeed, Goto
<1>18. ASSUME NEW t \in Sessions, PollStatus(t) PROVE JobFirst(s)'
  BY <1>18 DEF PollStatus, Goto
<1>19. ASSUME NEW t \in Sessions, InsertRun(t) PROVE JobFirst(s)'
  BY <1>19 DEF InsertRun, Goto
<1>20. ASSUME NEW t \in Sessions, AgentReturns(t) PROVE JobFirst(s)'
  BY <1>20 DEF AgentReturns, Goto
<1>21. ASSUME NEW t \in Sessions, FinalizeRun(t) PROVE JobFirst(s)'
  BY <1>21 DEF FinalizeRun, Goto
<1>22. ASSUME NEW t \in Sessions, FinalizeSession(t) PROVE JobFirst(s)'
  BY <1>22 DEF FinalizeSession, WorkerLocals, Terminal
<1>23. ASSUME NEW t \in Sessions, AnnounceEnd(t) PROVE JobFirst(s)'
  BY <1>23 DEF AnnounceEnd, Goto
<1>24. ASSUME NEW t \in Sessions, StopControl(t) PROVE JobFirst(s)'
  BY <1>24 DEF StopControl, Goto
<1>25. ASSUME NEW t \in Sessions, ReleaseSlot(t) PROVE JobFirst(s)'
  BY <1>25 DEF ReleaseSlot, Goto
<1>26. ASSUME NEW t \in Sessions, Ack(t) PROVE JobFirst(s)'
  BY <1>26 DEF Ack, Goto
<1>27. ASSUME NEW t \in Sessions, AgentStarts(t) PROVE JobFirst(s)'
  BY <1>27 DEF AgentStarts
<1>28. ASSUME NEW t \in Sessions, AgentEnds(t) PROVE JobFirst(s)'
  BY <1>28 DEF AgentEnds
<1>29. ASSUME NEW t \in Sessions, WorkerRaises(t) PROVE JobFirst(s)'
  BY <1>29 DEF WorkerRaises, Fault, Handler, Busy, InTry
<1>30. ASSUME NEW t \in Sessions, Subscribe(t) PROVE JobFirst(s)'
  BY <1>30 DEF Subscribe
<1>31. ASSUME NEW t \in Sessions, HandleControl(t) PROVE JobFirst(s)'
  BY <1>31 DEF HandleControl
<1>32. ASSUME NEW t \in Sessions, SlotExpires(t) PROVE JobFirst(s)'
  BY <1>32 DEF SlotExpires
<1>33. CASE WorkerCrash
  BY <1>33 DEF WorkerCrash, InFlight, Busy, InTry
<1>34. CASE UNCHANGED vars
  BY <1>34 DEF vars
<1> QED
  BY <1>1, <1>2, <1>3, <1>4, <1>5, <1>6, <1>7, <1>8, <1>9, <1>10, <1>11, <1>12,
     <1>13, <1>14, <1>15, <1>16, <1>17, <1>18, <1>19, <1>20, <1>21, <1>22,
     <1>23, <1>24, <1>25, <1>26, <1>27, <1>28, <1>29, <1>30, <1>31, <1>32,
     <1>33, <1>34
     DEF Next, CreateStep, InterruptStep, WorkerStep, AgentStep, ControlStep

\* Only the owner of a slot gives it back: the create that fails, the worker at
\* its end, an interrupt, or the TTL.
LEMMA SlotOwnedStep ==
    ASSUME TypeOK, [Next]_vars, NEW s \in Sessions,
           CreateFirst(s), SlotOwned(s)
    PROVE  SlotOwned(s)'
<1> USE DEF TypeOK, dbVars, apiVars, workerVars, ctlVars, budgetVars, SlotOwned,
        Terminal, InTry, Busy
<1>1. ASSUME NEW t \in Sessions, ReadSequence(t) PROVE SlotOwned(s)'
  BY <1>1 DEF ReadSequence, CreateAt
<1>2. ASSUME NEW t \in Sessions, AcquireSlot(t) PROVE SlotOwned(s)'
  BY <1>2 DEF AcquireSlot, CreateAt
<1>3. ASSUME NEW t \in Sessions, InsertSession(t) PROVE SlotOwned(s)'
  BY <1>3 DEF InsertSession, CreateAt
<1>4. ASSUME NEW t \in Sessions, Enqueue(t) PROVE SlotOwned(s)'
  BY <1>4 DEF Enqueue, CreateAt
<1>5. ASSUME NEW t \in Sessions, UndoCreate(t) PROVE SlotOwned(s)'
  BY <1>5 DEF UndoCreate, CreateAt
<1>6. ASSUME NEW t \in Sessions, CreateRaises(t) PROVE SlotOwned(s)'
  BY <1>6 DEF CreateRaises, CreateAt, Fault
<1>7. ASSUME NEW t \in Sessions, CreateDies(t) PROVE SlotOwned(s)'
  BY <1>7 DEF CreateDies, Fault
<1>8. ASSUME NEW t \in Sessions, CheckInterrupt(t) PROVE SlotOwned(s)'
  BY <1>8 DEF CheckInterrupt, InterruptAt
<1>9. ASSUME NEW t \in Sessions, PublishInterrupt(t) PROVE SlotOwned(s)'
  BY <1>9 DEF PublishInterrupt, InterruptAt
<1>10. ASSUME NEW t \in Sessions, CommitInterrupt(t) PROVE SlotOwned(s)'
  BY <1>10 DEF CommitInterrupt, InterruptAt
<1>11. ASSUME NEW t \in Sessions, AnnounceInterrupt(t) PROVE SlotOwned(s)'
  BY <1>11 DEF AnnounceInterrupt, InterruptAt
<1>12. ASSUME NEW t \in Sessions, ReleaseInterrupted(t) PROVE SlotOwned(s)'
  BY <1>12 DEF ReleaseInterrupted, InterruptAt, CreateFirst
<1>13. ASSUME NEW t \in Sessions, InterruptRaises(t) PROVE SlotOwned(s)'
  BY <1>13 DEF InterruptRaises, Fault
<1>14. ASSUME NEW t \in Sessions, Deliver(t) PROVE SlotOwned(s)'
  BY <1>14 DEF Deliver, Goto
<1>15. ASSUME NEW t \in Sessions, LoadSession(t) PROVE SlotOwned(s)'
  BY <1>15 DEF LoadSession, Goto
<1>16. ASSUME NEW t \in Sessions, MarkRunning(t) PROVE SlotOwned(s)'
  BY <1>16 DEF MarkRunning, Goto
<1>17. ASSUME NEW t \in Sessions, LoadSeed(t) PROVE SlotOwned(s)'
  BY <1>17 DEF LoadSeed, Goto
<1>18. ASSUME NEW t \in Sessions, PollStatus(t) PROVE SlotOwned(s)'
  BY <1>18 DEF PollStatus, Goto
<1>19. ASSUME NEW t \in Sessions, InsertRun(t) PROVE SlotOwned(s)'
  BY <1>19 DEF InsertRun, Goto
<1>20. ASSUME NEW t \in Sessions, AgentReturns(t) PROVE SlotOwned(s)'
  BY <1>20 DEF AgentReturns, Goto
<1>21. ASSUME NEW t \in Sessions, FinalizeRun(t) PROVE SlotOwned(s)'
  BY <1>21 DEF FinalizeRun, Goto
<1>22. ASSUME NEW t \in Sessions, FinalizeSession(t) PROVE SlotOwned(s)'
  BY <1>22 DEF FinalizeSession
<1>23. ASSUME NEW t \in Sessions, AnnounceEnd(t) PROVE SlotOwned(s)'
  BY <1>23 DEF AnnounceEnd, Goto
<1>24. ASSUME NEW t \in Sessions, StopControl(t) PROVE SlotOwned(s)'
  BY <1>24 DEF StopControl, Goto
<1>25. ASSUME NEW t \in Sessions, ReleaseSlot(t) PROVE SlotOwned(s)'
  BY <1>25 DEF ReleaseSlot, Goto
<1>26. ASSUME NEW t \in Sessions, Ack(t) PROVE SlotOwned(s)'
  BY <1>26 DEF Ack, Goto
<1>27. ASSUME NEW t \in Sessions, AgentStarts(t) PROVE SlotOwned(s)'
  BY <1>27 DEF AgentStarts
<1>28. ASSUME NEW t \in Sessions, AgentEnds(t) PROVE SlotOwned(s)'
  BY <1>28 DEF AgentEnds
<1>29. ASSUME NEW t \in Sessions, WorkerRaises(t) PROVE SlotOwned(s)'
  BY <1>29 DEF WorkerRaises, Fault, Handler
<1>30. ASSUME NEW t \in Sessions, Subscribe(t) PROVE SlotOwned(s)'
  BY <1>30 DEF Subscribe
<1>31. ASSUME NEW t \in Sessions, HandleControl(t) PROVE SlotOwned(s)'
  BY <1>31 DEF HandleControl
<1>32. ASSUME NEW t \in Sessions, SlotExpires(t) PROVE SlotOwned(s)'
  BY <1>32 DEF SlotExpires
<1>33. CASE WorkerCrash
  BY <1>33 DEF WorkerCrash, InFlight
<1>34. CASE UNCHANGED vars
  BY <1>34 DEF vars
<1> QED
  BY <1>1, <1>2, <1>3, <1>4, <1>5, <1>6, <1>7, <1>8, <1>9, <1>10, <1>11, <1>12,
     <1>13, <1>14, <1>15, <1>16, <1>17, <1>18, <1>19, <1>20, <1>21, <1>22,
     <1>23, <1>24, <1>25, <1>26, <1>27, <1>28, <1>29, <1>30, <1>31, <1>32,
     <1>33, <1>34
     DEF Next, CreateStep, InterruptStep, WorkerStep, AgentStep, ControlStep

\* Without an interrupt nobody but the worker writes the row after it has begun,
\* and it announces only what it has written.
LEMMA RowFollowsStep ==
    ASSUME TypeOK, [Next]_vars, NEW s \in Sessions,
           WorkerLocals(s), CreateFirst(s), JobFirst(s), RowFollows(s)
    PROVE  RowFollows(s)'
<1> USE DEF TypeOK, dbVars, apiVars, workerVars, ctlVars, budgetVars, RowFollows,
        WorkerLocals, JobFirst, Terminal, InTry, Busy
<1>1. ASSUME NEW t \in Sessions, ReadSequence(t) PROVE RowFollows(s)'
  BY <1>1 DEF ReadSequence, CreateAt
<1>2. ASSUME NEW t \in Sessions, AcquireSlot(t) PROVE RowFollows(s)'
  BY <1>2 DEF AcquireSlot, CreateAt
<1>3. ASSUME NEW t \in Sessions, InsertSession(t) PROVE RowFollows(s)'
  BY <1>3 DEF InsertSession, CreateAt
<1>4. ASSUME NEW t \in Sessions, Enqueue(t) PROVE RowFollows(s)'
  BY <1>4 DEF Enqueue, CreateAt
<1>5. ASSUME NEW t \in Sessions, UndoCreate(t) PROVE RowFollows(s)'
  BY <1>5 DEF UndoCreate, CreateAt
<1>6. ASSUME NEW t \in Sessions, CreateRaises(t) PROVE RowFollows(s)'
  BY <1>6 DEF CreateRaises, CreateAt, Fault
<1>7. ASSUME NEW t \in Sessions, CreateDies(t) PROVE RowFollows(s)'
  BY <1>7 DEF CreateDies, Fault
<1>8. ASSUME NEW t \in Sessions, CheckInterrupt(t) PROVE RowFollows(s)'
  BY <1>8 DEF CheckInterrupt, InterruptAt
<1>9. ASSUME NEW t \in Sessions, PublishInterrupt(t) PROVE RowFollows(s)'
  BY <1>9 DEF PublishInterrupt, InterruptAt
<1>10. ASSUME NEW t \in Sessions, CommitInterrupt(t) PROVE RowFollows(s)'
  BY <1>10 DEF CommitInterrupt, InterruptAt, CreateFirst
<1>11. ASSUME NEW t \in Sessions, AnnounceInterrupt(t) PROVE RowFollows(s)'
  BY <1>11 DEF AnnounceInterrupt, InterruptAt, CreateFirst
<1>12. ASSUME NEW t \in Sessions, ReleaseInterrupted(t) PROVE RowFollows(s)'
  BY <1>12 DEF ReleaseInterrupted, InterruptAt
<1>13. ASSUME NEW t \in Sessions, InterruptRaises(t) PROVE RowFollows(s)'
  BY <1>13 DEF InterruptRaises, Fault
<1>14. ASSUME NEW t \in Sessions, Deliver(t) PROVE RowFollows(s)'
  BY <1>14 DEF Deliver, Goto
<1>15. ASSUME NEW t \in Sessions, LoadSession(t) PROVE RowFollows(s)'
  BY <1>15 DEF LoadSession, Goto
<1>16. ASSUME NEW t \in Sessions, MarkRunning(t) PROVE RowFollows(s)'
  BY <1>16 DEF MarkRunning, Goto
<1>17. ASSUME NEW t \in Sessions, LoadSeed(t) PROVE RowFollows(s)'
  BY <1>17 DEF LoadSeed, Goto
<1>18. ASSUME NEW t \in Sessions, PollStatus(t) PROVE RowFollows(s)'
  BY <1>18 DEF PollStatus, Goto
<1>19. ASSUME NEW t \in Sessions, InsertRun(t) PROVE RowFollows(s)'
  BY <1>19 DEF InsertRun, Goto
<1>20. ASSUME NEW t \in Sessions, AgentReturns(t) PROVE RowFollows(s)'
  BY <1>20 DEF AgentReturns, Goto
<1>21. ASSUME NEW t \in Sessions, FinalizeRun(t) PROVE RowFollows(s)'
  BY <1>21 DEF FinalizeRun, Goto
<1>22. ASSUME NEW t \in Sessions, FinalizeSession(t) PROVE RowFollows(s)'
  BY <1>22 DEF FinalizeSession
<1>23. ASSUME NEW t \in Sessions, AnnounceEnd(t) PROVE RowFollows(s)'
  BY <1>23 DEF AnnounceEnd, Goto
<1>24. ASSUME NEW t \in Sessions, StopControl(t) PROVE RowFollows(s)'
  BY <1>24 DEF StopControl, Goto
<1>25. ASSUME NEW t \in Sessions, ReleaseSlot(t) PROVE RowFollows(s)'
  BY <1>25 DEF ReleaseSlot, Goto
<1>26. ASSUME NEW t \in Sessions, Ack(t) PROVE RowFollows(s)'
  BY <1>26 DEF Ack, Goto
<1>27. ASSUME NEW t \in Sessions, AgentStarts(t) PROVE RowFollows(s)'
  BY <1>27 DEF AgentStarts
<1>28. ASSUME NEW t \in Sessions, AgentEnds(t) PROVE RowFollows(s)'
  BY <1>28 DEF AgentEnds
<1>29. ASSUME NEW t \in Sessions, WorkerRaises(t) PROVE RowFollows(s)'
  BY <1>29 DEF WorkerRaises, Fault, Handler
<1>30. ASSUME NEW t \in Sessions, Subscribe(t) PROVE RowFollows(s)'
  BY <1>30 DEF Subscribe
<1>31. ASSUME NEW t \in Sessions, HandleControl(t) PROVE RowFollows(s)'
  BY <1>31 DEF HandleControl
<1>32. ASSUME NEW t \in Sessions, SlotExpires(t) PROVE RowFollows(s)'
  BY <1>32 DEF SlotExpires
<1>33. CASE WorkerCrash
  BY <1>33 DEF WorkerCrash, InFlight
<1>34. CASE UNCHANGED vars
  BY <1>34 DEF vars
<1> QED
  BY <1>1, <1>2, <1>3, <1>4, <1>5, <1>6, <1>7, <1>8, <1>9, <1>10, <1>11, <1>12,
     <1>13, <1>14, <1>15, <1>16, <1>17, <1>18, <1>19, <1>20, <1>21, <1>22,
     <1>23, <1>24, <1>25, <1>26, <1>27, <1>28, <1>29, <1>30, <1>31, <1>32,
     <1>33, <1>34
     DEF Next, CreateStep, InterruptStep, WorkerStep, AgentStep, ControlStep

\* A run starts only when all runs before it are completed.
LEMMA RunsFollowStep ==
    ASSUME TypeOK, [Next]_vars, NEW s \in Sessions,
           WorkerLocals(s), RowFollows(s), RunsFollow(s)
    PROVE  RunsFollow(s)'
<1> USE DEF TypeOK, dbVars, apiVars, workerVars, ctlVars, budgetVars, RunsFollow,
        WorkerLocals, RowFollows, Terminal, InTry, Busy
<1>1. ASSUME NEW t \in Sessions, ReadSequence(t) PROVE RunsFollow(s)'
  BY <1>1 DEF ReadSequence, CreateAt
<1>2. ASSUME NEW t \in Sessions, AcquireSlot(t) PROVE RunsFollow(s)'
  BY <1>2 DEF AcquireSlot, CreateAt
<1>3. ASSUME NEW t \in Sessions, InsertSession(t) PROVE RunsFollow(s)'
  BY <1>3 DEF InsertSession, CreateAt
<1>4. ASSUME NEW t \in Sessions, Enqueue(t) PROVE RunsFollow(s)'
  BY <1>4 DEF Enqueue, CreateAt
<1>5. ASSUME NEW t \in Sessions, UndoCreate(t) PROVE RunsFollow(s)'
  BY <1>5 DEF UndoCreate, CreateAt
<1>6. ASSUME NEW t \in Sessions, CreateRaises(t) PROVE RunsFollow(s)'
  BY <1>6 DEF CreateRaises, CreateAt, Fault
<1>7. ASSUME NEW t \in Sessions, CreateDies(t) PROVE RunsFollow(s)'
  BY <1>7 DEF CreateDies, Fault
<1>8. ASSUME NEW t \in Sessions, CheckInterrupt(t) PROVE RunsFollow(s)'
  BY <1>8 DEF CheckInterrupt, InterruptAt
<1>9. ASSUME NEW t \in Sessions, PublishInterrupt(t) PROVE RunsFollow(s)'
  BY <1>9 DEF PublishInterrupt, InterruptAt
<1>10. ASSUME NEW t \in Sessions, CommitInterrupt(t) PROVE RunsFollow(s)'
  BY <1>10 DEF CommitInterrupt, InterruptAt
<1>11. ASSUME NEW t \in Sessions, AnnounceInterrupt(t) PROVE RunsFollow(s)'
  BY <1>11 DEF AnnounceInterrupt, InterruptAt
<1>12. ASSUME NEW t \in Sessions, ReleaseInterrupted(t) PROVE RunsFollow(s)'
  BY <1>12 DEF ReleaseInterrupted, InterruptAt
<1>13. ASSUME NEW t \in Sessions, InterruptRaises(t) PROVE RunsFollow(s)'
  BY <1>13 DEF InterruptRaises, Fault
<1>14. ASSUME NEW t \in Sessions, Deliver(t) PROVE RunsFollow(s)'
  BY <1>14 DEF Deliver, Goto
<1>15. ASSUME NEW t \in Sessions, LoadSession(t) PROVE RunsFollow(s)'
  BY <1>15 DEF LoadSession, Goto
<1>16. ASSUME NEW t \in Sessions, MarkRunning(t) PROVE RunsFollow(s)'
  BY <1>16 DEF MarkRunning, Goto
<1>17. ASSUME NEW t \in Sessions, LoadSeed(t) PROVE RunsFollow(s)'
  BY <1>17 DEF LoadSeed, Goto
<1>18. ASSUME NEW t \in Sessions, PollStatus(t) PROVE RunsFollow(s)'
  BY <1>18 DEF PollStatus, Goto
<1>19. ASSUME NEW t \in Sessions, InsertRun(t) PROVE RunsFollow(s)'
  BY <1>19 DEF InsertRun, Goto
<1>20. ASSUME NEW t \in Sessions, AgentReturns(t) PROVE RunsFollow(s)'
  BY <1>20 DEF AgentReturns, Goto
<1>21. ASSUME NEW t \in Sessions, FinalizeRun(t) PROVE RunsFollow(s)'
  <2>1. /\ worker[t] = "finalize_run" /\ UNCHANGED <<status, seq, outcome>>
        /\ \A u \in Sessions \ {t} : runs'[u] = runs[u] /\ worker'[u] = worker[u]
        /\ runs'[t] = [runs[t] EXCEPT ![seq[t]] = outcome[t]]
        /\ worker'[t] \in {"poll", "finalize"}
        /\ worker'[t] = "poll" => outcome[t] = "completed"
        /\ worker'[t] = "finalize" => outcome[t] # "completed" \/ ~(seq[t] < ChainLen(t))
    BY <1>21 DEF FinalizeRun, Goto
  <2>2. CASE s = t
    <3>1. seq[t] \in 1..ChainLen(t) /\ ChainLen(t) \in Nat
      BY <2>1, <2>2, LifecycleAssumption DEF ChainLen
    <3> QED
      BY <2>1, <2>2, <3>1
  <2>3. CASE s # t
    BY <2>1, <2>3
  <2> QED
    BY <2>2, <2>3
<1>22. ASSUME NEW t \in Sessions, FinalizeSession(t) PROVE RunsFollow(s)'
  BY <1>22 DEF FinalizeSession
<1>23. ASSUME NEW t \in Sessions, AnnounceEnd(t) PROVE RunsFollow(s)'
  BY <1>23 DEF AnnounceEnd, Goto
<1>24. ASSUME NEW t \in Sessions, StopControl(t) PROVE RunsFollow(s)'
  BY <1>24 DEF StopControl, Goto
<1>25. ASSUME NEW t \in Sessions, ReleaseSlot(t) PROVE RunsFollow(s)'
  BY <1>25 DEF ReleaseSlot, Goto
<1>26. ASSUME NEW t \in Sessions, Ack(t) PROVE RunsFollow(s)'
  BY <1>26 DEF Ack, Goto
<1>27. ASSUME NEW t \in Sessions, AgentStarts(t) PROVE RunsFollow(s)'
  BY <1>27 DEF AgentStarts
<1>28. ASSUME NEW t \in Sessions, AgentEnds(t) PROVE RunsFollow(s)'
  BY <1>28 DEF AgentEnds
<1>29. ASSUME NEW t \in Sessions, WorkerRaises(t) PROVE RunsFollow(s)'
  BY <1>29 DEF WorkerRaises, Fault, Handler
<1>30. ASSUME NEW t \in Sessions, Subscribe(t) PROVE RunsFollow(s)'
  BY <1>30 DEF Subscribe
<1>31. ASSUME NEW t \in Sessions, HandleControl(t) PROVE RunsFollow(s)'
  BY <1>31 DEF HandleControl
<1>32. ASSUME NEW t \in Sessions, SlotExpires(t) PROVE RunsFollow(s)'
  BY <1>32 DEF SlotExpires
<1>33. CASE WorkerCrash
  BY <1>33 DEF WorkerCrash, InFlight
<1>34. CASE UNCHANGED vars
  BY <1>34 DEF vars
<1> QED
  BY <1>1, <1>2, <1>3, <1>4, <1>5, <1>6, <1>7, <1>8, <1>9, <1>10, <1>11, <1>12,
     <1>13, <1>14, <1>15, <1>16, <1>17, <1>18, <1>19, <1>20, <1>21, <1>22,
     <1>23, <1>24, <1>25, <1>26, <1>27, <1>28, <1>29, <1>30, <1>31, <1>32,
     <1>33, <1>34
     DEF Next, CreateStep, InterruptStep, WorkerStep, AgentStep, ControlStep

\* Unless a call fails, every way to the end of a job writes the row, the run
\* and the quota.
LEMMA EndsCleanStep ==
    ASSUME TypeOK, [Next]_vars, NEW s \in Sessions,
           WorkerLocals(s), CreateFirst(s), JobFirst(s), SlotOwned(s), RowFollows(s), RunsFollow(s), EndsClean(s)
    PROVE  EndsClean(s)'
<1> USE DEF TypeOK, dbVars, apiVars, workerVars, ctlVars, budgetVars, EndsClean,
        WorkerLocals, CreateFirst, JobFirst, SlotOwned, RowFollows, Terminal,
        InTry, Busy
<1>1. ASSUME NEW t \in Sessions, ReadSequence(t) PROVE EndsClean(s)'
  BY <1>1 DEF ReadSequence, CreateAt
<1>2. ASSUME NEW t \in Sessions, AcquireSlot(t) PROVE EndsClean(s)'
  BY <1>2 DEF AcquireSlot, CreateAt
<1>3. ASSUME NEW t \in Sessions, InsertSession(t) PROVE EndsClean(s)'
  BY <1>3 DEF InsertSession, CreateAt
<1>4. ASSUME NEW t \in Sessions, Enqueue(t) PROVE EndsClean(s)'
  BY <1>4 DEF Enqueue, CreateAt
<1>5. ASSUME NEW t \in Sessions, UndoCreate(t) PROVE EndsClean(s)'
  BY <1>5 DEF UndoCreate, CreateAt
<1>6. ASSUME NEW t \in Sessions, CreateRaises(t) PROVE EndsClean(s)'
  BY <1>6 DEF CreateRaises, CreateAt, Fault
<1>7. ASSUME NEW t \in Sessions, CreateDies(t) PROVE EndsClean(s)'
  BY <1>7 DEF CreateDies, Fault
<1>8. ASSUME NEW t \in Sessions, CheckInterrupt(t) PROVE EndsClean(s)'
  BY <1>8 DEF CheckInterrupt, InterruptAt
<1>9. ASSUME NEW t \in Sessions, PublishInterrupt(t) PROVE EndsClean(s)'
  BY <1>9 DEF PublishInterrupt, InterruptAt
<1>10. ASSUME NEW t \in Sessions, CommitInterrupt(t) PROVE EndsClean(s)'
  BY <1>10 DEF CommitInterrupt, InterruptAt
<1>11. ASSUME NEW t \in Sessions, AnnounceInterrupt(t) PROVE EndsClean(s)'
  BY <1>11 DEF AnnounceInterrupt, InterruptAt
<1>12. ASSUME NEW t \in Sessions, ReleaseInterrupted(t) PROVE EndsClean(s)'
  BY <1>12 DEF ReleaseInterrupted, InterruptAt
<1>13. ASSUME NEW t \in Sessions, InterruptRaises(t) PROVE EndsClean(s)'
  BY <1>13 DEF InterruptRaises, Fault
<1>14. ASSUME NEW t \in Sessions, Deliver(t) PROVE EndsClean(s)'
  BY <1>14 DEF Deliver, Goto
<1>15. ASSUME NEW t \in Sessions, LoadSession(t) PROVE EndsClean(s)'
  BY <1>15 DEF LoadSession, Goto
<1>16. ASSUME NEW t \in Sessions, MarkRunning(t) PROVE EndsClean(s)'
  BY <1>16 DEF MarkRunning, Goto
<1>17. ASSUME NEW t \in Sessions, LoadSeed(t) PROVE EndsClean(s)'
  BY <1>17 DEF LoadSeed, Goto
<1>18. ASSUME NEW t \in Sessions, PollStatus(t) PROVE EndsClean(s)'
  BY <1>18 DEF PollStatus, Goto
<1>19. ASSUME NEW t \in Sessions, InsertRun(t) PROVE EndsClean(s)'
  BY <1>19 DEF InsertRun, Goto
<1>20. ASSUME NEW t \in Sessions, AgentReturns(t) PROVE EndsClean(s)'
  BY <1>20 DEF AgentReturns, Goto
<1>21. ASSUME NEW t \in Sessions, FinalizeRun(t) PROVE EndsClean(s)'
  <2>1. /\ worker[t] = "finalize_run"
        /\ UNCHANGED <<status, interrupt, slots, faults>>
        /\ \A u \in Sessions \ {t} : runs'[u] = runs[u] /\ worker'[u] = worker[u]
        /\ runs'[t] = [runs[t] EXCEPT ![seq[t]] = outcome[t]]
        /\ worker'[t] \in {"poll", "finalize"}
    BY <1>21 DEF FinalizeRun, Goto
  <2>2. CASE s = t
    <3>1. outcome[t] # "running" /\ seq[t] \in 1..ChainLen(t)
      BY <2>1, <2>2, LifecycleAssumption DEF ChainLen
    <3>2. \A i \in 1..ChainLen(t) : i # seq[t] => runs[t][i] # "running"
      BY <2>2, OthersNotRunning
    <3>3. \A i \in 1..ChainLen(t) : runs'[t][i] = IF i = seq[t] THEN outcome[t] ELSE runs[t][i]
      <4>1. runs[t] \in [1..ChainLen(t) -> RunStatus]
        OBVIOUS
      <4> QED
        BY <2>1, <4>1
    <3>4. \A i \in 1..ChainLen(t) : runs'[t][i] # "running"
      BY <3>1, <3>2, <3>3
    <3> QED
      BY <2>1, <2>2, <3>4
  <2>3. CASE s # t
    BY <2>1, <2>3
  <2> QED
    BY <2>2, <2>3
<1>22. ASSUME NEW t \in Sessions, FinalizeSession(t) PROVE EndsClean(s)'
  BY <1>22 DEF FinalizeSession
<1>23. ASSUME NEW t \in Sessions, AnnounceEnd(t) PROVE EndsClean(s)'
  BY <1>23 DEF AnnounceEnd, Goto
<1>24. ASSUME NEW t \in Sessions, StopControl(t) PROVE EndsClean(s)'
  BY <1>24 DEF StopControl, Goto
<1>25. ASSUME NEW t \in Sessions, ReleaseSlot(t) PROVE EndsClean(s)'
  BY <1>25 DEF ReleaseSlot, Goto
<1>26. ASSUME NEW t \in Sessions, Ack(t) PROVE EndsClean(s)'
  BY <1>26 DEF Ack, Goto
<1>27. ASSUME NEW t \in Sessions, AgentStarts(t) PROVE EndsClean(s)'
  BY <1>27 DEF AgentStarts
<1>28. ASSUME NEW t \in Sessions, AgentEnds(t) PROVE EndsClean(s)'
  BY <1>28 DEF AgentEnds
<1>29. ASSUME NEW t \in Sessions, WorkerRaises(t) PROVE EndsClean(s)'
  BY <1>29 DEF WorkerRaises, Fault, Handler
<1>30. ASSUME NEW t \in Sessions, Subscribe(t) PROVE EndsClean(s)'
  BY <1>30 DEF Subscribe
<1>31. ASSUME NEW t \in Sessions, HandleControl(t) PROVE EndsClean(s)'
  BY <1>31 DEF HandleControl
<1>32. ASSUME NEW t \in Sessions, SlotExpires(t) PROVE EndsClean(s)'
  BY <1>32 DEF SlotExpires
<1>33. CASE WorkerCrash
  BY <1>33 DEF WorkerCrash, InFlight
<1>34. CASE UNCHANGED vars
  BY <1>34 DEF vars
<1> QED
  BY <1>1, <1>2, <1>3, <1>4, <1>5, <1>6, <1>7, <1>8, <1>9, <1>10, <1>11, <1>12,
     <1>13, <1>14, <1>15, <1>16, <1>17, <1>18, <1>19, <1>20, <1>21, <1>22,
     <1>23, <1>24, <1>25, <1>26, <1>27, <1>28, <1>29, <1>30, <1>31, <1>32,
     <1>33, <1>34
     DEF Next, CreateStep, InterruptStep, WorkerStep, AgentStep, ControlStep

-----------------------------------------------------------------------------
(* The theorems. *)

\* Type correctness, together with the inductive invariant.
THEOREM LifecycleInvHolds == Spec => [](TypeOK /\ LifecycleInv)
<1>1. Init => TypeOK
  BY LifecycleAssumption
     DEF Init, TypeOK, Status, RunStatus, CreatePc, InterruptPc, WorkerPc, Phase, ChainLen
<1>2. Init => LifecycleInv
  <2> SUFFICES ASSUME Init, NEW s \in Sessions
               PROVE  /\ WorkerLocals(s) /\ CreateFirst(s) /\ JobFirst(s)
                      /\ SlotOwned(s) /\ RowFollows(s) /\ RunsFollow(s) /\ EndsClean(s)
    BY DEF LifecycleInv
  <2>1. WorkerLocals(s) /\ CreateFirst(s) /\ SlotOwned(s)
    BY DEF Init, WorkerLocals, CreateFirst, SlotOwned
  <2>2. JobFirst(s)
    BY DEF Init, JobFirst
  <2>3. RowFollows(s) /\ RunsFollow(s)
    BY LifecycleAssumption DEF Init, RowFollows, RunsFollow, ChainLen
  <2>4. EndsClean(s)
    BY DEF Init, EndsClean
  <2> QED
    BY <2>1, <2>2, <2>3, <2>4
<1>3. TypeOK /\ LifecycleInv /\ [Next]_vars => (TypeOK /\ LifecycleInv)'
  <2> SUFFICES ASSUME TypeOK, LifecycleInv, [Next]_vars
               PROVE  TypeOK' /\ LifecycleInv'
    OBVIOUS
  <2>1. TypeOK'
    BY TypeStep
  <2>2. ASSUME NEW s \in Sessions
        PROVE  /\ WorkerLocals(s)' /\ CreateFirst(s)' /\ JobFirst(s)'
               /\ SlotOwned(s)' /\ RowFollows(s)' /\ RunsFollow(s)' /\ EndsClean(s)'
    <3>1. /\ WorkerLocals(s) /\ CreateFirst(s) /\ JobFirst(s)
          /\ SlotOwned(s) /\ RowFollows(s) /\ RunsFollow(s) /\ EndsClean(s)
      BY DEF LifecycleInv
    <3> QED
      BY <3>1, WorkerLocalsStep, CreateFirstStep, JobFirstStep, SlotOwnedStep,
         RowFollowsStep, RunsFollowStep, EndsCleanStep
  <2> QED
    BY <2>1, <2>2 DEF LifecycleInv
<1> QED
  BY <1>1, <1>2, <1>3, PTL DEF Spec

\* Type correctness alone.
THEOREM TypeCorrect == Spec => []TypeOK
BY LifecycleInvHolds, PTL

\* A running, uninterrupted session holds its quota slot until the TTL takes it.
THEOREM SlotCoversRunHolds == Spec => []SlotCoversRun
<1>1. TypeOK /\ LifecycleInv => SlotCoversRun
  BY DEF LifecycleInv, SlotOwned, SlotCoversRun, Busy, InTry
<1> QED
  BY <1>1, LifecycleInvHolds, PTL

\* A create request that was turned away or failed holds no slot.
THEOREM FailedCreateHolds == Spec => []FailedCreateHoldsNoSlot
<1>1. TypeOK /\ LifecycleInv => FailedCreateHoldsNoSlot
  BY DEF LifecycleInv, SlotOwned, FailedCreateHoldsNoSlot
<1> QED
  BY <1>1, LifecycleInvHolds, PTL

\* The frame of an uninterrupted session says what its row says, whatever fails.
THEOREM FrameTellsStatusHolds == Spec => []FrameTellsStatus
<1>1. TypeOK /\ LifecycleInv => FrameTellsStatus
  BY DEF LifecycleInv, RowFollows, FrameTellsStatus
<1> QED
  BY <1>1, LifecycleInvHolds, PTL

\* The agents of a session run in the order of its chain, each after the
\* completion of the one before.
THEOREM ChainInOrderHolds == Spec => []ChainInOrder
<1>1. TypeOK /\ LifecycleInv => ChainInOrder
  <2> SUFFICES ASSUME TypeOK, LifecycleInv, NEW s \in Sessions
               PROVE  /\ \A i, j \in 1..ChainLen(s) :
                            i < j /\ runs[s][j] # "none" => runs[s][i] = "completed"
                      /\ status[s] = "completed" => runs[s][ChainLen(s)] = "completed"
    BY DEF ChainInOrder
  <2>1. seq[s] \in Nat /\ ChainLen(s) \in Nat
    BY LifecycleAssumption DEF TypeOK, ChainLen
  <2> QED
    BY <2>1 DEF LifecycleInv, RunsFollow
<1> QED
  BY <1>1, LifecycleInvHolds, PTL

\* Without a failing call an acknowledged job leaves nothing undone, however an
\* interrupt raced with it.
THEOREM AckedIsSettledHolds == Spec => []AckedIsSettled
<1>1. TypeOK /\ LifecycleInv => AckedIsSettled
  BY DEF LifecycleInv, EndsClean, AckedIsSettled, Settled
<1> QED
  BY <1>1, LifecycleInvHolds, PTL

-----------------------------------------------------------------------------
(* The quota. *)

\* What HasRoom checks and no other step can break.
HeldBy(u) == slots \cap SessionsOf(u)

SlotsWithinQuota ==
    /\ Cardinality(slots) <= MaxGlobalRuns
    /\ \A u \in Users : Cardinality(HeldBy(u)) <= MaxUserRuns

\* Only a create request that finds room adds a slot, and it adds one.
LEMMA SlotsGrowByAcquire ==
    [Next]_vars =>
        \/ slots' \subseteq slots
        \/ \E s \in Sessions : /\ create[s] = "acquire" /\ HasRoom(s)
                               /\ slots' = slots \cup {s}
<1> SUFFICES ASSUME [Next]_vars, ~(slots' \subseteq slots)
             PROVE  \E s \in Sessions : AcquireSlot(s)
  BY DEF AcquireSlot, CreateAt
<1> QED
  BY
     DEF Next, vars, CreateStep, InterruptStep, WorkerStep, AgentStep,
         ControlStep,
     ReadSequence, InsertSession, Enqueue, UndoCreate, CreateRaises, CreateDies,
     CheckInterrupt, PublishInterrupt, CommitInterrupt, AnnounceInterrupt,
     ReleaseInterrupted, InterruptRaises, Deliver, LoadSession, MarkRunning, LoadSeed,
     PollStatus, InsertRun, AgentReturns, FinalizeRun, FinalizeSession, AnnounceEnd,
     StopControl, ReleaseSlot, Ack, AgentStarts, AgentEnds, WorkerRaises, WorkerCrash,
     Subscribe, HandleControl, SlotExpires

\* A subset of the sessions has no more elements than a larger one.
LEMMA FewerSlots ==
    ASSUME NEW A \in SUBSET Sessions, NEW B \in SUBSET Sessions, A \subseteq B
    PROVE  /\ Cardinality(A) \in Nat /\ Cardinality(B) \in Nat
           /\ Cardinality(A) <= Cardinality(B)
<1>1. IsFiniteSet(A) /\ IsFiniteSet(B)
  BY FS_Subset, LifecycleAssumption
<1> QED
  BY <1>1, FS_Subset, FS_CardinalityType

\* ... and one element adds at most one.
LEMMA OneMoreSlot ==
    ASSUME NEW A \in SUBSET Sessions, NEW s \in Sessions
    PROVE  /\ Cardinality(A) \in Nat /\ Cardinality(A \cup {s}) \in Nat
           /\ Cardinality(A \cup {s}) <= Cardinality(A) + 1
<1>1. IsFiniteSet(A)
  BY FS_Subset, LifecycleAssumption
<1>2. /\ IsFiniteSet(A \cup {s})
      /\ Cardinality(A \cup {s}) =
           IF s \in A THEN Cardinality(A) ELSE Cardinality(A) + 1
  BY <1>1, FS_AddElement
<1>3. Cardinality(A) \in Nat /\ Cardinality(A \cup {s}) \in Nat
  BY <1>1, <1>2, FS_CardinalityType
<1> QED
  BY <1>2, <1>3

LEMMA SlotsWithinQuotaStep ==
    TypeOK /\ TypeOK' /\ SlotsWithinQuota /\ [Next]_vars => SlotsWithinQuota'
<1> SUFFICES ASSUME TypeOK, TypeOK', SlotsWithinQuota, [Next]_vars
             PROVE  SlotsWithinQuota'
  OBVIOUS
<1>0. /\ slots \in SUBSET Sessions /\ slots' \in SUBSET Sessions
      /\ \A u \in Users : HeldBy(u) \in SUBSET Sessions /\ HeldBy(u)' \in SUBSET Sessions
      /\ MaxGlobalRuns \in Nat /\ MaxUserRuns \in Nat
  BY LifecycleAssumption DEF TypeOK, HeldBy
<1>1. CASE slots' \subseteq slots
  <2>1. Cardinality(slots') <= MaxGlobalRuns
    BY <1>0, <1>1, FewerSlots DEF SlotsWithinQuota
  <2>2. ASSUME NEW u \in Users PROVE Cardinality(HeldBy(u)') <= MaxUserRuns
    <3>1. HeldBy(u)' \subseteq HeldBy(u)
      BY <1>1 DEF HeldBy, SessionsOf
    <3> QED
      BY <1>0, <3>1, FewerSlots DEF SlotsWithinQuota
  <2> QED
    BY <2>1, <2>2 DEF SlotsWithinQuota
<1>2. CASE \E s \in Sessions : HasRoom(s) /\ slots' = slots \cup {s}
  <2>1. PICK s \in Sessions : HasRoom(s) /\ slots' = slots \cup {s}
    BY <1>2
  <2>2. Cardinality(slots') <= MaxGlobalRuns
    BY <1>0, <2>1, OneMoreSlot DEF HasRoom
  <2>3. ASSUME NEW u \in Users PROVE Cardinality(HeldBy(u)') <= MaxUserRuns
    <3>1. CASE u = Owner[Project[s]]
      <4>1. HeldBy(u)' = HeldBy(u) \cup {s}
        BY <2>1, <3>1 DEF HeldBy, SessionsOf
      <4>2. Cardinality(HeldBy(u)) < MaxUserRuns
        BY <2>1, <3>1 DEF HasRoom, HeldBy
      <4> QED
        BY <1>0, <4>1, <4>2, OneMoreSlot
    <3>2. CASE u # Owner[Project[s]]
      <4>1. HeldBy(u)' = HeldBy(u)
        BY <2>1, <3>2 DEF HeldBy, SessionsOf
      <4> QED
        BY <4>1 DEF SlotsWithinQuota
    <3> QED
      BY <3>1, <3>2
  <2> QED
    BY <2>2, <2>3 DEF SlotsWithinQuota
<1> QED
  BY <1>1, <1>2, SlotsGrowByAcquire

\* The agents at work that nobody has cut off from their slot are within both limits:
\* each holds one of the slots, through the rollbacks of the creates, the
\* interrupts, the faults, the crashes and the TTL.
THEOREM AgentsWithinQuotaHolds == Spec => []AgentsWithinQuota
<1>1. Init => SlotsWithinQuota
  BY FS_EmptySet, LifecycleAssumption DEF Init, SlotsWithinQuota, HeldBy
<1>2. TypeOK /\ LifecycleInv /\ SlotsWithinQuota => AgentsWithinQuota
  <2> SUFFICES ASSUME TypeOK, LifecycleInv, SlotsWithinQuota PROVE AgentsWithinQuota
    OBVIOUS
  <2> DEFINE held == AtWork \ Cut
  <2>1. held \subseteq slots
    <3> SUFFICES ASSUME NEW s \in held PROVE s \in slots
      OBVIOUS
    <3>1. /\ s \in Sessions /\ phase[s] # "none" /\ create[s] = "done"
          /\ interrupts[s] = 0 /\ s \notin outlived
      BY DEF AtWork, Cut, TypeOK
    <3>2. worker[s] = "agent"
      BY <3>1 DEF LifecycleInv, WorkerLocals
    <3> QED
      BY <3>1, <3>2 DEF LifecycleInv, SlotOwned
  <2>2. /\ slots \in SUBSET Sessions /\ held \in SUBSET Sessions
        /\ MaxGlobalRuns \in Nat /\ MaxUserRuns \in Nat
    BY <2>1, LifecycleAssumption DEF TypeOK
  <2> HIDE DEF held
  <2>3. Cardinality(held) <= MaxGlobalRuns
    BY <2>1, <2>2, FewerSlots DEF SlotsWithinQuota
  <2>4. ASSUME NEW u \in Users
        PROVE  Cardinality(held \cap SessionsOf(u)) <= MaxUserRuns
    <3>1. /\ held \cap SessionsOf(u) \in SUBSET Sessions /\ HeldBy(u) \in SUBSET Sessions
          /\ held \cap SessionsOf(u) \subseteq HeldBy(u)
      BY <2>1, <2>2 DEF HeldBy
    <3>2. Cardinality(held \cap SessionsOf(u)) <= Cardinality(HeldBy(u))
          /\ Cardinality(held \cap SessionsOf(u)) \in Nat /\ Cardinality(HeldBy(u)) \in Nat
      BY <3>1, FewerSlots
    <3> QED
      BY <2>2, <3>2 DEF SlotsWithinQuota
  <2> QED
    BY <2>3, <2>4 DEF AgentsWithinQuota, held
<1> QED
  BY <1>1, <1>2, SlotsWithinQuotaStep, LifecycleInvHolds, PTL DEF Spec

-----------------------------------------------------------------------------
(* The refinement of the contract of the rows and the frames. *)

\* A row that an interrupt has marked, and that the worker may still write over.
Marked(s) == interrupts[s] > 0 /\ status[s] = "interrupted"

\* Where the row stands when the worker writes it: nothing but an interrupt has
\* touched it since the worker read or wrote it last.
RowInStep(s) ==
    /\ worker[s] \in {"none", "load"} => status[s] \in {"absent", "queued"} \/ Marked(s)
    /\ worker[s] = "mark" => status[s] = "queued" \/ Marked(s)
    /\ worker[s] \in {"seed", "except", "finalize", "finalize_run", "agent"}
                     \cup {"poll", "insert"} =>
          status[s] = "running" \/ Marked(s)

RowsInStep == \A s \in Sessions : RowInStep(s)

\* The steps that touch the row, its frames, its interrupts or its worker.
LEMMA RowInStepStep ==
    ASSUME TypeOK, [Next]_vars, NEW s \in Sessions,
           CreateFirst(s), JobFirst(s), RowInStep(s)
    PROVE  RowInStep(s)'
<1> USE DEF TypeOK, dbVars, apiVars, workerVars, ctlVars, budgetVars, RowInStep,
        Marked, InTry, Busy
<1>1. CASE UNCHANGED <<status, interrupts, worker>>
  BY <1>1
<1>2. ASSUME NEW t \in Sessions, InsertSession(t) PROVE RowInStep(s)'
  BY <1>2 DEF InsertSession, CreateAt, CreateFirst, JobFirst
<1>3. ASSUME NEW t \in Sessions, CheckInterrupt(t) PROVE RowInStep(s)'
  BY <1>3 DEF CheckInterrupt, InterruptAt
<1>4. ASSUME NEW t \in Sessions, CommitInterrupt(t) PROVE RowInStep(s)'
  <2>1. t = s => interrupts[s] > 0
    BY <1>4 DEF CommitInterrupt, InterruptAt, CreateFirst
  <2> QED
    BY <1>4, <2>1 DEF CommitInterrupt, InterruptAt
<1>5. ASSUME NEW t \in Sessions, Deliver(t) PROVE RowInStep(s)'
  BY <1>5 DEF Deliver, Goto
<1>6. ASSUME NEW t \in Sessions, LoadSession(t) PROVE RowInStep(s)'
  BY <1>6 DEF LoadSession, Goto, JobFirst
<1>7. ASSUME NEW t \in Sessions, MarkRunning(t) PROVE RowInStep(s)'
  BY <1>7 DEF MarkRunning, Goto
<1>8. ASSUME NEW t \in Sessions, LoadSeed(t) PROVE RowInStep(s)'
  BY <1>8 DEF LoadSeed, Goto
<1>9. ASSUME NEW t \in Sessions, PollStatus(t) PROVE RowInStep(s)'
  BY <1>9 DEF PollStatus, Goto
<1>10. ASSUME NEW t \in Sessions, InsertRun(t) PROVE RowInStep(s)'
  BY <1>10 DEF InsertRun, Goto
<1>11. ASSUME NEW t \in Sessions, AgentReturns(t) PROVE RowInStep(s)'
  BY <1>11 DEF AgentReturns, Goto
<1>12. ASSUME NEW t \in Sessions, FinalizeRun(t) PROVE RowInStep(s)'
  BY <1>12 DEF FinalizeRun, Goto
<1>13. ASSUME NEW t \in Sessions, FinalizeSession(t) PROVE RowInStep(s)'
  BY <1>13 DEF FinalizeSession
<1>14. ASSUME NEW t \in Sessions, AnnounceEnd(t) PROVE RowInStep(s)'
  BY <1>14 DEF AnnounceEnd, Goto
<1>15. ASSUME NEW t \in Sessions, StopControl(t) PROVE RowInStep(s)'
  BY <1>15 DEF StopControl, Goto
<1>16. ASSUME NEW t \in Sessions, ReleaseSlot(t) PROVE RowInStep(s)'
  BY <1>16 DEF ReleaseSlot, Goto
<1>17. ASSUME NEW t \in Sessions, Ack(t) PROVE RowInStep(s)'
  BY <1>17 DEF Ack, Goto
<1>18. ASSUME NEW t \in Sessions, WorkerRaises(t) PROVE RowInStep(s)'
  BY <1>18 DEF WorkerRaises, Fault, Handler
<1>19. CASE WorkerCrash
  BY <1>19 DEF WorkerCrash, InFlight
<1>20. \/ UNCHANGED <<status, interrupts, worker>>
       \/ WorkerCrash
       \/ \E t \in Sessions :
             \/ InsertSession(t) \/ CheckInterrupt(t) \/ CommitInterrupt(t)
             \/ Deliver(t) \/ LoadSession(t) \/ MarkRunning(t) \/ LoadSeed(t)
             \/ PollStatus(t) \/ InsertRun(t) \/ AgentReturns(t) \/ FinalizeRun(t)
             \/ FinalizeSession(t) \/ AnnounceEnd(t) \/ StopControl(t)
             \/ ReleaseSlot(t) \/ Ack(t) \/ WorkerRaises(t)
  BY DEF Next, vars, CreateStep, InterruptStep, WorkerStep, AgentStep, ControlStep,
     ReadSequence, AcquireSlot, Enqueue, UndoCreate, CreateRaises, CreateDies,
     PublishInterrupt, AnnounceInterrupt, ReleaseInterrupted, InterruptRaises,
     AgentStarts, AgentEnds, Subscribe, HandleControl, SlotExpires
<1> QED
  BY <1>1, <1>2, <1>3, <1>4, <1>5, <1>6, <1>7, <1>8, <1>9, <1>10, <1>11, <1>12,
     <1>13, <1>14, <1>15, <1>16, <1>17, <1>18, <1>19, <1>20

\* The sessions somebody has asked to interrupt.
Asked == {s \in Sessions : interrupts[s] > 0}

\* Six steps of the program move what the contract speaks about, all others stutter.
LEMMA ContractStep ==
    ASSUME TypeOK, LifecycleInv, RowsInStep, [Next]_vars
    PROVE  [Contract!Next]_<<status, frames, Asked>>
<1> USE DEF TypeOK, dbVars, apiVars, workerVars, ctlVars, budgetVars
<1>0. ASSUME NEW s \in Sessions
      PROVE  /\ WorkerLocals(s) /\ CreateFirst(s) /\ JobFirst(s)
             /\ RowFollows(s) /\ RowInStep(s)
  BY DEF LifecycleInv, RowsInStep
<1>1. ASSUME NEW s \in Sessions,
             \/ Contract!Create(s) \/ Contract!Begin(s) \/ Contract!Mark(s)
             \/ Contract!AskToStop(s)
             \/ \E how \in Terminal : Contract!End(s, how) \/ Contract!Tell(s, how)
      PROVE  Contract!Next
  BY <1>1 DEF Contract!Next, Contract!Terminal, Terminal
<1>2. CASE UNCHANGED <<status, frames, interrupts>>
  BY <1>2 DEF Asked
<1>3. ASSUME NEW s \in Sessions, InsertSession(s)
      PROVE  UNCHANGED <<status, frames, interrupts>> \/ Contract!Create(s)
  BY <1>0, <1>3 DEF InsertSession, CreateAt, CreateFirst, Contract!Create,
     Contract!Becomes
<1>4. ASSUME NEW s \in Sessions, CheckInterrupt(s)
      PROVE  Contract!AskToStop(s)
  <2>1. Asked' = Asked \cup {s}
    BY <1>4 DEF CheckInterrupt, InterruptAt, Asked
  <2> QED
    BY <1>4, <2>1 DEF CheckInterrupt, InterruptAt, Asked, Contract!AskToStop
<1>5. ASSUME NEW s \in Sessions, CommitInterrupt(s)
      PROVE  Contract!Mark(s)
  BY <1>0, <1>5 DEF CommitInterrupt, InterruptAt, CreateFirst, Contract!Mark,
     Contract!Becomes
<1>6. ASSUME NEW s \in Sessions, AnnounceInterrupt(s)
      PROVE  Contract!Tell(s, "interrupted")
  BY <1>0, <1>6 DEF AnnounceInterrupt, InterruptAt, CreateFirst, Contract!Tell
<1>7. ASSUME NEW s \in Sessions, MarkRunning(s)
      PROVE  Contract!Begin(s)
  BY <1>0, <1>7 DEF MarkRunning, Goto, RowInStep, Marked, Contract!Begin,
     Contract!Marked, Contract!Becomes
<1>8. ASSUME NEW s \in Sessions, FinalizeSession(s)
      PROVE  \E how \in Terminal : Contract!End(s, how)
  <2>1. outcome'[s] \in Terminal /\ status' = [status EXCEPT ![s] = outcome'[s]]
    BY <1>0, <1>8 DEF FinalizeSession, WorkerLocals, Terminal
  <2>2. Contract!End(s, outcome'[s])
    BY <1>0, <1>8, <2>1 DEF FinalizeSession, RowInStep, Marked, Contract!End,
       Contract!Marked, Contract!Becomes
  <2> QED
    BY <2>1, <2>2
<1>9. ASSUME NEW s \in Sessions, AnnounceEnd(s)
      PROVE  \E how \in Terminal : Contract!Tell(s, how)
  <2>1. outcome[s] \in Terminal
    BY <1>0, <1>9 DEF AnnounceEnd, Goto, WorkerLocals
  <2>2. Contract!Tell(s, outcome[s])
    BY <1>0, <1>9 DEF AnnounceEnd, Goto, RowFollows, Contract!Tell
  <2> QED
    BY <2>1, <2>2
<1>10. \/ UNCHANGED <<status, frames, interrupts>>
       \/ \E s \in Sessions :
             \/ InsertSession(s) \/ CheckInterrupt(s) \/ CommitInterrupt(s)
             \/ AnnounceInterrupt(s) \/ MarkRunning(s) \/ FinalizeSession(s)
             \/ AnnounceEnd(s)
  BY DEF Next, vars, CreateStep, InterruptStep, WorkerStep, AgentStep, ControlStep,
     ReadSequence, AcquireSlot, Enqueue, UndoCreate, CreateRaises, CreateDies,
     PublishInterrupt, ReleaseInterrupted, InterruptRaises, Deliver, LoadSession,
     LoadSeed, PollStatus, InsertRun, AgentReturns, FinalizeRun, StopControl,
     ReleaseSlot, Ack, AgentStarts, AgentEnds, WorkerRaises, WorkerCrash,
     Subscribe, HandleControl, SlotExpires
<1>11. CASE \E s \in Sessions :
             \/ InsertSession(s) \/ CheckInterrupt(s) \/ CommitInterrupt(s)
             \/ AnnounceInterrupt(s) \/ MarkRunning(s) \/ FinalizeSession(s)
             \/ AnnounceEnd(s)
  <2>1. PICK s \in Sessions :
             \/ InsertSession(s) \/ CheckInterrupt(s) \/ CommitInterrupt(s)
             \/ AnnounceInterrupt(s) \/ MarkRunning(s) \/ FinalizeSession(s)
             \/ AnnounceEnd(s)
    BY <1>11
  <2>2. "interrupted" \in Terminal
    BY DEF Terminal
  <2> QED
    BY <1>1, <1>2, <1>3, <1>4, <1>5, <1>6, <1>7, <1>8, <1>9, <2>1, <2>2
<1> QED
  BY <1>2, <1>10, <1>11

\* The rows and the frames of the sessions keep their contract, whatever call
\* fails, whenever the worker crashes and however often an interrupt races with
\* the end: a status never goes back, and a frame that no interrupt has overtaken
\* says what the row says.
THEOREM SessionContractKept == Spec => SessionsKeepContract
<1>1. Init => RowsInStep
  BY DEF Init, RowsInStep, RowInStep
<1>2. TypeOK /\ LifecycleInv /\ RowsInStep /\ [Next]_vars => RowsInStep'
  <2> SUFFICES ASSUME TypeOK, LifecycleInv, RowsInStep, [Next]_vars, NEW s \in Sessions
               PROVE  RowInStep(s)'
    BY DEF RowsInStep
  <2> QED
    BY RowInStepStep DEF LifecycleInv, RowsInStep
<1>3. Init => Contract!Init
  BY DEF Init, Contract!Init
<1>4. TypeOK /\ LifecycleInv /\ RowsInStep /\ [Next]_vars
      => [Contract!Next]_Contract!contract
  BY ContractStep DEF Contract!contract, Asked
<1> QED
  BY <1>1, <1>2, <1>3, <1>4, LifecycleInvHolds, PTL
     DEF Spec, SessionsKeepContract, Contract!Spec

\* What the contract is worth to a browser, whichever program keeps it: the first
\* frame of a session that nobody interrupts is the last word about it.
ContractInv ==
    /\ status = [s \in Sessions |-> status[s]]
    /\ frames = [s \in Sessions |-> frames[s]]
    /\ Contract!FramesAgree

THEOREM ContractIsFinal == SessionsKeepContract => []Contract!FramesAgree
<1> USE DEF ContractInv, Contract!FramesAgree, Contract!Terminal
<1>1. Contract!Init => ContractInv
  BY DEF Contract!Init
<1>2. ContractInv /\ [Contract!Next]_Contract!contract => ContractInv'
  <2> SUFFICES ASSUME ContractInv, [Contract!Next]_Contract!contract
               PROVE  ContractInv'
    OBVIOUS
  <2>1. CASE UNCHANGED Contract!contract
    BY <2>1 DEF Contract!contract
  <2>2. CASE Contract!Next
    <3>1. PICK s \in Sessions :
             \/ Contract!Create(s) \/ Contract!Begin(s) \/ Contract!Mark(s)
             \/ Contract!AskToStop(s)
             \/ \E how \in Contract!Terminal : Contract!End(s, how) \/ Contract!Tell(s, how)
      BY <2>2 DEF Contract!Next
    <3>2. CASE Contract!Create(s)
      BY <3>2 DEF Contract!Create, Contract!Becomes
    <3>3. CASE Contract!Begin(s)
      BY <3>3 DEF Contract!Begin, Contract!Marked, Contract!Becomes
    <3>4. CASE Contract!Mark(s)
      BY <3>4 DEF Contract!Mark, Contract!Becomes
    <3>5. CASE Contract!AskToStop(s)
      BY <3>5 DEF Contract!AskToStop
    <3>6. ASSUME NEW how \in Contract!Terminal, Contract!End(s, how)
          PROVE  ContractInv'
      BY <3>6 DEF Contract!End, Contract!Marked, Contract!Becomes
    <3>7. ASSUME NEW how \in Contract!Terminal, Contract!Tell(s, how)
          PROVE  ContractInv'
      BY <3>7 DEF Contract!Tell
    <3> QED
      BY <3>1, <3>2, <3>3, <3>4, <3>5, <3>6, <3>7
  <2> QED
    BY <2>1, <2>2
<1>3. ContractInv => Contract!FramesAgree
  OBVIOUS
<1> QED
  BY <1>1, <1>2, <1>3, PTL DEF SessionsKeepContract, Contract!Spec

=============================================================================
