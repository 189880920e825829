------------------------------- MODULE DevDeps -------------------------------
(***************************************************************************)
(* The dev-time dependencies of a workspace (services/dev_deps.py,         *)
(* routes/dev_deps.py) and the commands of the polaris CLI that ask for    *)
(* them: one container, with its volume and its row, of one service.  The  *)
(* container is not part of the workspace's compose project, but is        *)
(* attached to its network.                                                *)
(*                                                                         *)
(* No call takes a lock.  The agent runs one command at a time, but the    *)
(* command gives up before the API does, and the API goes on.              *)
(***************************************************************************)
EXTENDS Naturals

CONSTANTS
    Calls,         \* requests to the dev-deps routes, each sent at most once
    MaxDepFaults   \* bound: docker commands that fail or time out by themselves,
                   \* statements and commits that fail, deaths of the API

ASSUME DepAssumption == MaxDepFaults \in Nat

VARIABLES
    dep,        \* the workspace_dep_services row; id 0 when there is none
    ids,        \* rows inserted so far
    box,        \* the dependency's container
    volume,     \* does its volume exist
    network,    \* does the workspace's <project>_default network exist
    owner,      \* does the workspace's row exist
    call,       \* the calls
    leftover,   \* history: an ensure that found no row ended between its docker
                \* run and its commit, or an ensure and a removal overlapped, or
                \* delete_project could not remove the container
    depFaults

depVars == <<dep, ids, box, volume, network, owner, call, leftover, depFaults>>

NoDep  == [id |-> 0, status |-> "none"]
CliOps == {"ensure", "remove", "list"}
Boxes  == {"none", "created", "running", "exited"}
CallPc == {"new", "select", "inspect", "rm", "volume", "run", "health", "upsert",
           "drop_box", "drop_volume", "drop_row", "refresh", "down", "cascade", "done"}

Asleep == [op |-> "list", pc |-> "new", seen |-> NoDep, found |-> "none",
           answer |-> "none", waits |-> FALSE, calm |-> TRUE]
Active(c) == call[c].pc \notin {"new", "done"}
Step(c, from, to) == call[c].pc = from /\ call' = [call EXCEPT ![c].pc = to]
Answer(c, from, a) ==
    /\ call[c].pc = from
    /\ call' = [call EXCEPT ![c] = [Asleep EXCEPT !.op = call[c].op, !.pc = "done", !.answer = a]]

DepInit ==
    /\ dep = NoDep /\ ids = 0
    /\ box = "none" /\ volume = FALSE /\ network = TRUE /\ owner = TRUE
    /\ call = [c \in Calls |-> Asleep]
    /\ leftover = FALSE /\ depFaults = 0

-----------------------------------------------------------------------------
(* Arrivals.                                                               *)

\* Calls that are under way notice that something else happens to what they work on.
Disturbed == [c \in Calls |-> IF Active(c) THEN [call[c] EXCEPT !.calm = FALSE] ELSE call[c]]

Removes(op) == op \in {"remove", "delete"}
Collides(op) ==
    \E c \in Calls :
        /\ Active(c)
        /\ \/ Removes(op) /\ call[c].op = "ensure"
           \/ op = "ensure" /\ Removes(call[c].op)

\* `polaris dev-up`, dev-down, dev-list; the agent runs them one after the other.
\* delete_project comes from the web UI.
Arrive(c, op) ==
    /\ call[c].pc = "new" /\ owner
    /\ op \in CliOps => \A d \in Calls : ~call[d].waits
    /\ call' = [Disturbed EXCEPT ![c] =
                  [@ EXCEPT !.op = op, !.pc = IF op = "delete" THEN "down" ELSE "select",
                            !.waits = op \in CliOps, !.calm = \A d \in Calls : ~Active(d)]]
    /\ leftover' = (leftover \/ Collides(op))
    /\ UNCHANGED <<dep, ids, box, volume, network, owner, depFaults>>

\* api_post and api_delete wait 120 and 30 seconds; the API's commands add up to more.
GivesUp(c) ==
    /\ Active(c) /\ call[c].waits /\ call[c].op # "list"
    /\ call' = [call EXCEPT ![c].waits = FALSE]
    /\ UNCHANGED <<dep, ids, box, volume, network, owner, leftover, depFaults>>

\* A docker command fails by itself or is killed when its time is up, a statement
\* or a commit fails, or the API dies.
DepFault == depFaults < MaxDepFaults /\ depFaults' = depFaults + 1

\* An ensure that has loaded no row.
First(c) == call[c].op = "ensure" /\ call[c].seen = NoDep

-----------------------------------------------------------------------------
(* ensure_dev_dep                                                          *)

\* 409 without a network; then the row is loaded.
SelectDep(c) ==
    /\ call[c].op = "ensure"
    /\ \/ ~network /\ Answer(c, "select", "409")
       \/ /\ network /\ call[c].pc = "select"
          /\ call' = [call EXCEPT ![c].seen = dep,
                                  ![c].pc = IF dep = NoDep THEN "volume" ELSE "inspect"]
    /\ UNCHANGED <<dep, ids, box, volume, network, owner, leftover, depFaults>>

\* The fast path.  If the row has been deleted meanwhile the refresh raises.
Inspect(c) ==
    /\ \/ box = "running" /\ dep.id = call[c].seen.id
          /\ Answer(c, "inspect", "ok") /\ dep' = [dep EXCEPT !.status = "running"]
       \/ box = "running" /\ dep.id # call[c].seen.id
          /\ Answer(c, "inspect", "500") /\ UNCHANGED dep
       \/ box # "running" /\ Step(c, "inspect", "rm") /\ UNCHANGED dep
    /\ UNCHANGED <<ids, box, volume, network, owner, leftover, depFaults>>

\* Mutant: the container that has stopped is not removed.
KeepStopped(c) ==
    /\ Step(c, "rm", "volume")
    /\ UNCHANGED <<dep, ids, box, volume, network, owner, leftover, depFaults>>

\* docker rm -f.
RemoveStopped(c) ==
    /\ Step(c, "rm", "volume")
    /\ box' = "none"
    /\ UNCHANGED <<dep, ids, volume, network, owner, leftover, depFaults>>

CreateVolume(c) ==
    /\ Step(c, "volume", "run")
    /\ volume' = TRUE
    /\ UNCHANGED <<dep, ids, box, network, owner, leftover, depFaults>>

\* docker run --name: refused while there is a container of that name, whatever
\* its state.  It may leave a container that does not start, or, when it is killed
\* while it pulls the image, one that does.
RunBox(c) ==
    /\ \/ /\ box # "none" /\ Answer(c, "run", "409")
          /\ UNCHANGED <<box, volume, leftover, depFaults>>
       \/ /\ box = "none" /\ network /\ Step(c, "run", "health")
          /\ box' = "running" /\ volume' = TRUE
          /\ UNCHANGED <<leftover, depFaults>>
       \/ /\ box = "none" /\ Answer(c, "run", "409")
          /\ IF network THEN DepFault ELSE UNCHANGED depFaults
          /\ box' \in {"none", "created"} \cup (IF network THEN {"running"} ELSE {})
          /\ volume' = (volume \/ box' # "none")
          /\ leftover' = (leftover \/ (First(c) /\ box' # "none"))
    /\ UNCHANGED <<dep, ids, network, owner>>

\* A minute of docker inspect; the container stays when it is over.
WaitHealthy(c) ==
    /\ \/ /\ box = "running" /\ Step(c, "health", "upsert")
          /\ UNCHANGED <<leftover, depFaults>>
       \/ /\ Answer(c, "health", "409")
          /\ IF box = "running" THEN DepFault ELSE UNCHANGED depFaults
          /\ leftover' = (leftover \/ First(c))
    /\ UNCHANGED <<dep, ids, box, volume, network, owner>>

\* Mutant: no row for a container that had none.
UpsertExisting(c) ==
    /\ IF call[c].seen.id = dep.id
       THEN /\ Answer(c, "upsert", "ok")
            /\ dep' = IF dep = NoDep THEN dep ELSE [dep EXCEPT !.status = "running"]
       ELSE Answer(c, "upsert", "500") /\ UNCHANGED dep
    /\ UNCHANGED <<ids, box, volume, network, owner, leftover, depFaults>>

\* INSERT or UPDATE.  It raises when the row of this service has been inserted, or
\* the one that was loaded deleted, in the meantime, or the workspace's.
Upsert(c) ==
    /\ IF call[c].seen.id = dep.id /\ owner
       THEN /\ Answer(c, "upsert", "ok")
            /\ ids' = IF dep = NoDep THEN ids + 1 ELSE ids
            /\ dep' = [id |-> IF dep = NoDep THEN ids' ELSE dep.id, status |-> "running"]
       ELSE Answer(c, "upsert", "500") /\ UNCHANGED <<dep, ids>>
    /\ UNCHANGED <<box, volume, network, owner, leftover, depFaults>>

Ensure(c) ==
    \/ SelectDep(c) \/ Inspect(c) \/ RemoveStopped(c) \/ CreateVolume(c)
    \/ RunBox(c) \/ WaitHealthy(c) \/ Upsert(c)

-----------------------------------------------------------------------------
(* remove_dev_dep, cleanup_workspace_dev_deps and delete_project           *)

\* docker compose down: a network in use stays, and delete_project goes on.
StopRuntime(c) ==
    /\ call[c].op = "delete"
    /\ Step(c, "down", "select")
    /\ network' \in {network, network /\ box = "running"}
    /\ UNCHANGED <<dep, ids, box, volume, owner, leftover, depFaults>>

SelectRemoved(c) ==
    /\ Removes(call[c].op) /\ call[c].pc = "select"
    /\ IF dep = NoDep /\ call[c].op = "remove" THEN Answer(c, "select", "ok")
       ELSE call' = [call EXCEPT ![c].seen = dep,
                                 ![c].pc = IF dep = NoDep THEN "cascade" ELSE "drop_box"]
    /\ UNCHANGED <<dep, ids, box, volume, network, owner, leftover, depFaults>>

\* A docker command that takes too long raises: 500, or delete_project logs it.
RemoveFails(c, from) ==
    /\ IF call[c].op = "delete" THEN Step(c, from, "cascade") ELSE Answer(c, from, "500")
    /\ DepFault

RemoveBox(c) ==
    /\ \/ /\ Step(c, "drop_box", "drop_volume") /\ box' = "none"
          /\ UNCHANGED <<leftover, depFaults>>
       \/ /\ RemoveFails(c, "drop_box") /\ box' \in {box, "none"}
          /\ leftover' = (leftover \/ call[c].op = "delete")
    /\ UNCHANGED <<dep, ids, volume, network, owner>>

\* docker volume rm does not remove one that a container uses.
RemoveVolume(c) ==
    /\ \/ /\ Step(c, "drop_volume", "drop_row") /\ volume' = (volume /\ box # "none")
          /\ UNCHANGED depFaults
       \/ RemoveFails(c, "drop_volume") /\ UNCHANGED volume
    /\ UNCHANGED <<dep, ids, box, network, owner, leftover>>

\* DELETE by the id that was loaded: no row of that id is no error.
DeleteDep(c) ==
    /\ IF call[c].op = "delete" THEN Step(c, "drop_row", "cascade") ELSE Answer(c, "drop_row", "ok")
    /\ dep' = IF dep.id = call[c].seen.id THEN NoDep ELSE dep
    /\ UNCHANGED <<ids, box, volume, network, owner, leftover, depFaults>>

\* The workspace's row goes, and with it the rows that refer to it.
DeleteOwner(c) ==
    /\ Answer(c, "cascade", "ok")
    /\ owner' = FALSE /\ dep' = NoDep
    /\ UNCHANGED <<ids, box, volume, network, leftover, depFaults>>

RemoveDep(c) ==
    \/ StopRuntime(c) \/ SelectRemoved(c) \/ RemoveBox(c) \/ RemoveVolume(c)
    \/ DeleteDep(c) \/ DeleteOwner(c)

-----------------------------------------------------------------------------
(* list_dev_deps                                                           *)

\* Of the row, and of the container by docker inspect.
Found == IF box = "none" THEN "stopped" ELSE box
Refresh(c) ==
    /\ call[c].op = "list" /\ call[c].pc = "select"
    /\ IF dep = NoDep THEN Answer(c, "select", "ok")
       ELSE call' = [call EXCEPT ![c].seen = dep, ![c].found = Found, ![c].pc = "refresh"]
    /\ UNCHANGED <<dep, ids, box, volume, network, owner, leftover, depFaults>>

\* Only a status that differs from the one loaded is written, to a row that must
\* still be there.
CommitStatus(c) ==
    /\ LET seen == call[c].seen
           found == call[c].found
       IN  IF found = seen.status THEN Answer(c, "refresh", "ok") /\ UNCHANGED dep
           ELSE IF dep.id # seen.id THEN Answer(c, "refresh", "500") /\ UNCHANGED dep
           ELSE Answer(c, "refresh", "ok") /\ dep' = [dep EXCEPT !.status = found]
    /\ UNCHANGED <<ids, box, volume, network, owner, leftover, depFaults>>

ListDeps(c) == Refresh(c) \/ CommitStatus(c)

-----------------------------------------------------------------------------
(* The workspace's runtime, docker and the operator.                       *)

StartNetwork ==
    /\ ~network /\ owner
    /\ network' = TRUE
    /\ UNCHANGED <<dep, ids, box, volume, owner, call, leftover, depFaults>>

StopNetwork ==
    /\ network /\ box # "running"
    /\ network' = FALSE
    /\ call' = Disturbed
    /\ UNCHANGED <<dep, ids, box, volume, owner, leftover, depFaults>>

\* The container exits; "--restart unless-stopped" starts it again on its network.
BoxExits ==
    /\ box = "running"
    /\ box' = "exited"
    /\ call' = Disturbed
    /\ UNCHANGED <<dep, ids, volume, network, owner, leftover, depFaults>>

BoxRestarts ==
    /\ box = "exited" /\ network
    /\ box' = "running"
    /\ call' = Disturbed
    /\ UNCHANGED <<dep, ids, volume, network, owner, leftover, depFaults>>

\* Somebody removes the container by hand.
ManualCleanup ==
    /\ box # "none"
    /\ box' = "none"
    /\ call' = Disturbed
    /\ UNCHANGED <<dep, ids, volume, network, owner, leftover, depFaults>>

-----------------------------------------------------------------------------
(* A call that ends before its time.                                       *)

\* 409 for a docker command of an ensure, 500 for a statement or a commit and for
\* every command of the others.  delete_project goes on without the commit of its
\* cleanup.
CallRaises(c) ==
    /\ DepFault
    /\ \/ call[c].op = "ensure" /\ call[c].pc \in {"select", "inspect", "rm", "volume"}
          /\ Answer(c, call[c].pc, "409")
       \/ call[c].pc \in {"select", "inspect", "upsert", "drop_row", "cascade", "refresh"}
          /\ Answer(c, call[c].pc, "500")
       \/ call[c].op = "delete" /\ Step(c, "drop_row", "cascade")
    /\ box' \in {box} \cup (IF call[c].pc = "rm" THEN {"none"} ELSE {})
    /\ leftover' = (leftover \/ (First(c) /\ call[c].pc = "upsert"))
    /\ UNCHANGED <<dep, ids, volume, network, owner>>

\* The API dies and comes back.  What a call has not committed is lost, and the
\* docker command it was waiting for may run to its end without it.
Dead(c) == IF Active(c) THEN [Asleep EXCEPT !.op = call[c].op, !.pc = "done", !.answer = "500"]
           ELSE call[c]
CallsDie ==
    LET At(pcs) == {c \in Calls : call[c].pc \in pcs}
    IN  /\ DepFault /\ \E c \in Calls : Active(c)
        /\ call' = [c \in Calls |-> Dead(c)]
        /\ \/ box' = box
           \/ At({"rm", "drop_box"}) # {} /\ box' = "none"
           \/ At({"run"}) # {} /\ box = "none"
              /\ box' \in {"created"} \cup (IF network THEN {"running"} ELSE {})
        /\ volume' = (volume \/ box' # "none")
        /\ leftover' = (leftover \/ \E c \in Calls :
              First(c) /\ (call[c].pc \in {"health", "upsert"} \/ (call[c].pc = "run" /\ box' # box)))
        /\ UNCHANGED <<dep, ids, network, owner>>

-----------------------------------------------------------------------------
CallStep(c) == Ensure(c) \/ RemoveDep(c) \/ ListDeps(c)
DepNext ==
    \/ \E c \in Calls : \/ \E op \in CliOps \cup {"delete"} : Arrive(c, op)
                        \/ GivesUp(c) \/ CallStep(c) \/ CallRaises(c)
    \/ CallsDie \/ StartNetwork \/ StopNetwork \/ BoxExits \/ BoxRestarts \/ ManualCleanup

\* Every docker command has a timeout, and the API's event loop runs every handler.
DepSpec == DepInit /\ [][DepNext]_depVars /\ \A c \in Calls : WF_depVars(CallStep(c))

-----------------------------------------------------------------------------
DepTypeOK ==
    /\ dep \in [id : 0..ids, status : {"none", "running", "stopped", "created", "exited"}]
    /\ ids \in Nat
    /\ box \in Boxes
    /\ {volume, network, owner, leftover} \subseteq BOOLEAN
    /\ call \in [Calls -> [op : CliOps \cup {"delete"}, pc : CallPc, seen : [id : Nat,
                    status : {"none", "running", "stopped", "created", "exited"}],
                    found : Boxes \cup {"stopped"}, answer : {"none", "ok", "409", "500"},
                    waits : BOOLEAN, calm : BOOLEAN]]
    /\ depFaults \in 0..MaxDepFaults
    /\ box # "none" => volume

\* When no call is under way, a container has its row, so that dev-down and the
\* deletion of the project find it: however many ensures overlap after the CLI
\* has given up on them, and although an ensure that found a row may fail, be
\* killed, lose its transaction or die with the API at any step, and a removal may
\* end halfway.  What breaks it, and is all that leftover stands for: a first
\* ensure that ends after its docker run and before its commit (its container
\* never gets healthy, its transaction is lost, the API dies); an ensure next to a
\* removal; a delete_project whose docker rm fails.
NoOrphan ==
    (\A c \in Calls : ~Active(c)) /\ ~leftover => (dep = NoDep => box = "none")

\* "If the row exists but the container is gone, recreates it": an ensure that
\* finds a row, and that nothing disturbs, brings the container up, in whatever
\* state earlier calls have left it.
RowIsRecovered ==
    [][\A c \in Calls :
        /\ call[c].op = "ensure" /\ call[c].seen # NoDep
        /\ call[c].pc # "done" /\ call'[c].pc = "done"
        /\ call[c].calm /\ depFaults' = 0
        => call'[c].answer = "ok"]_depVars

\* dev_deps.py:336: "Stops + removes all dep containers + volumes": the container
\* does not outlive the workspace's row.
DeletedLeavesNothing == (\A c \in Calls : ~Active(c)) /\ ~owner => box = "none"

\* Every call ends, although no docker command need succeed.
CallReturns == \A c \in Calls : Active(c) ~> ~Active(c)

\* dev_deps.py:116: "409 because the caller CAN retry after starting the workspace":
\* without a fault of its own the retry of an ensure succeeds.
RetrySucceeds ==
    \A c, d \in Calls :
        /\ call[c].op = "ensure" /\ call[c].answer = "409"
        /\ call[d].op = "ensure" /\ call[d].pc = "run" /\ call[d].calm
        /\ call[d].seen = NoDep
        => box = "none"
=============================================================================
