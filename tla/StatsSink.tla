------------------------------ MODULE StatsSink ------------------------------
(***************************************************************************)
(* The StatusBar counters of one run: DbEventSink in the worker's sink.py. *)
(*                                                                         *)
(* File watchers and the turn bump a counter in memory; a flush task adds  *)
(* the sum to the row of the session after a debounce; finalize_stats, at  *)
(* the end of the run, cancels the flush task and flushes what is left.    *)
(* All run in one event loop and interleave at their awaits: the sleep,    *)
(* conn_lock, the UPDATE.  The two counters behave alike; one is modelled. *)
(***************************************************************************)
EXTENDS Naturals

CONSTANTS
    MaxBumps,     \* bound: bumps in the life of the run
    MaxFailures   \* bound: UPDATEs that raise

ASSUME StatsAssumption == MaxBumps \in Nat /\ MaxFailures \in Nat

Flushers == {"task", "final"}

VARIABLES
    bumped,     \* all bumps so far
    buffer,     \* _pending_file_delta
    count,      \* sessions.file_change_count
    shown,      \* file_change_count of the last session_stats_updated frame
    dropped,    \* deltas the sink has logged as dropped
    flush,      \* where each flusher stands in _flush_stats_now
    delta,      \* its local file_d
    lock,       \* conn_lock: its holder
    failures

statsVars == <<bumped, buffer, count, shown, dropped, flush, delta, lock, failures>>

FlushState == {"none", "sleep", "take", "lock", "update", "publish", "done"}
FlushDone  == flush["task"] \in {"none", "done"}
RunIsOver == flush["final"] # "none"

At(f, from, to) == flush[f] = from /\ flush' = [flush EXCEPT ![f] = to]

-----------------------------------------------------------------------------
StatsInit ==
    /\ bumped = 0 /\ buffer = 0 /\ count = 0 /\ shown = 0 /\ dropped = 0
    /\ flush = [f \in Flushers |-> "none"]
    /\ delta = [f \in Flushers |-> 0]
    /\ lock = "free"
    /\ failures = 0

\* bump_file_delta; a flush task in any state but done is left to do the work.
\* The watchers and the turn are over before finalize_stats.
Bump ==
    /\ bumped < MaxBumps /\ ~RunIsOver
    /\ bumped' = bumped + 1
    /\ buffer' = buffer + 1
    /\ flush' = IF FlushDone THEN [flush EXCEPT !["task"] = "sleep"] ELSE flush
    /\ UNCHANGED <<count, shown, dropped, delta, lock, failures>>

\* The debounce is over.
Wake ==
    /\ At("task", "sleep", "take")
    /\ UNCHANGED <<bumped, buffer, count, shown, dropped, delta, lock, failures>>

\* _flush_stats_now up to its first await.
TakeDelta(f) ==
    /\ At(f, "take", IF buffer = 0 THEN "done" ELSE "lock")
    /\ delta' = [delta EXCEPT ![f] = buffer]
    /\ buffer' = 0
    /\ UNCHANGED <<bumped, count, shown, dropped, lock, failures>>

Lock(f) ==
    /\ lock = "free"
    /\ At(f, "lock", "update")
    /\ lock' = f
    /\ UNCHANGED <<bumped, buffer, count, shown, dropped, delta, failures>>

\* Other writers of the connection: events, runs, clarifications.
LockElsewhere ==
    /\ lock \in {"free", "other"}
    /\ lock' = IF lock = "free" THEN "other" ELSE "free"
    /\ UNCHANGED <<bumped, buffer, count, shown, dropped, flush, delta, failures>>

\* UPDATE sessions SET file_change_count = file_change_count + $2.
Update(f) ==
    /\ At(f, "update", "publish")
    /\ count' = count + delta[f]
    /\ lock' = "free"
    /\ UNCHANGED <<bumped, buffer, shown, dropped, delta, failures>>

UpdateRaises(f) ==
    /\ failures < MaxFailures
    /\ failures' = failures + 1
    /\ At(f, "update", "done")
    /\ dropped' = dropped + delta[f]
    /\ lock' = "free"
    /\ UNCHANGED <<bumped, buffer, count, shown, delta>>

\* Publishes the count that the UPDATE returned.
PublishStats(f) ==
    /\ At(f, "publish", "done")
    /\ shown' = count
    /\ UNCHANGED <<bumped, buffer, count, dropped, delta, lock, failures>>

\* Mutants: the delta of the cancelled task is flushed once more; the cancelled
\* task keeps the lock.
FinalizeRestores ==
    /\ ~RunIsOver
    /\ flush' = [task |-> IF flush["task"] = "none" THEN "none" ELSE "done",
                 final |-> "take"]
    /\ lock' = IF lock = "task" THEN "free" ELSE lock
    /\ buffer' = IF flush["task"] \in {"lock", "update"} THEN buffer + delta["task"]
                 ELSE buffer
    /\ \/ flush["task"] = "update" /\ count' = count + delta["task"]
       \/ UNCHANGED count
    /\ UNCHANGED <<bumped, shown, dropped, delta, failures>>

FinalizeKeepsLock ==
    /\ ~RunIsOver
    /\ flush' = [task |-> IF flush["task"] = "none" THEN "none" ELSE "done",
                 final |-> "take"]
    /\ \/ flush["task"] = "update" /\ count' = count + delta["task"]
       \/ UNCHANGED count
    /\ UNCHANGED <<bumped, buffer, shown, dropped, delta, lock, failures>>

\* finalize_stats: cancel() ends the task at the await where it stands.  An
\* UPDATE that is cancelled may have been applied by the server.
Finalize ==
    /\ ~RunIsOver
    /\ flush' = [task |-> IF flush["task"] = "none" THEN "none" ELSE "done",
                 final |-> "take"]
    /\ lock' = IF lock = "task" THEN "free" ELSE lock
    /\ \/ flush["task"] = "update" /\ count' = count + delta["task"]
       \/ UNCHANGED count
    /\ UNCHANGED <<bumped, buffer, shown, dropped, delta, failures>>

-----------------------------------------------------------------------------
FlushStep(f) == TakeDelta(f) \/ Lock(f) \/ Update(f) \/ PublishStats(f)

StatsNext ==
    \/ Bump \/ Wake \/ LockElsewhere \/ Finalize
    \/ \E f \in Flushers : FlushStep(f) \/ UpdateRaises(f)

StatsSpec == StatsInit /\ [][StatsNext]_statsVars

\* The loop runs ready tasks, sleeps end, and no writer keeps the connection; it
\* is taken and freed again and again, hence strong fairness of the lock.
FairStatsSpec ==
    /\ StatsSpec
    /\ WF_statsVars(Wake)
    /\ WF_statsVars(lock = "other" /\ LockElsewhere)
    /\ \A f \in Flushers : WF_statsVars(FlushStep(f)) /\ SF_statsVars(Lock(f))

-----------------------------------------------------------------------------
StatsTypeOK ==
    /\ {bumped, buffer, count, shown, dropped, failures} \subseteq Nat
    /\ flush \in [Flushers -> FlushState]
    /\ delta \in [Flushers -> Nat]
    /\ lock \in {"free", "other"} \cup Flushers

\* No bump is counted twice, although a cancelled UPDATE may have been applied
\* and the buffer is flushed again right after it.
NeverOvercounts == count + buffer + dropped <= bumped

\* The status bar never counts backwards and never runs ahead of the row.
BarFollowsRow == [][shown' >= shown /\ shown' <= count']_statsVars

\* finalize_stats returns, whichever await of the flush task the cancellation hits:
\* the connection's lock never stays with a task that is gone.
FinalizeEnds == RunIsOver ~> flush["final"] = "done"

\* The last activity of the run is counted, unless an UPDATE failed ("so the
\* last 500ms of activity isn't lost").
FinalizeLosesNothing == flush["final"] = "done" => count + dropped = bumped

\* A bump leaves the buffer within a debounce or two, whether or not the run ends
\* ("coalesces fs / playwright-call bursts into one frame per ~500ms").
EveryBumpIsFlushed == buffer > 0 ~> buffer = 0

=============================================================================
