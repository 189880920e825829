-------------------------- MODULE WorkspaceRuntime --------------------------
(***************************************************************************)
(* The container runtime of one workspace: the API requests that start,    *)
(* stop, restart and delete it (services/runtime.py, services/compose.py,  *)
(* routes/workspaces.py, routes/browsers.py, routes/projects.py), and the  *)
(* worker's idle scavenger (runner.py), all acting on one docker compose   *)
(* project and one workspaces row.                                         *)
(*                                                                         *)
(* ensure_workspace_runtime holds a lock of the API process.  Stop, the    *)
(* first half of restart, delete and the scavenger do not, so they may     *)
(* run between any two steps of an ensure.                                 *)
(*                                                                         *)
(* A request works on the copy of the row it loaded before it waited for   *)
(* the lock, and a commit writes the columns whose new value differs from  *)
(* that copy (SQLAlchemy's unit of work): a column set to the value it     *)
(* was loaded with is not written, whatever the row holds by then.         *)
(***************************************************************************)
EXTENDS Naturals, Sequences, FiniteSets

CONSTANTS
    Requests,   \* requests to the API, each sent at most once
    Sessions,   \* sessions (prompts) users may post, each at most once
    Kinds,      \* the routes in use, a subset of AllKinds
    MaxFaults,  \* docker commands that may fail of themselves
    None

AllKinds == {"ensure", "restart", "stop", "stopIde", "stopBrowser", "delete"}

ASSUME RuntimeAssumption ==
    /\ Kinds \subseteq AllKinds
    /\ MaxFaults \in Nat
    /\ None \notin Requests

VARIABLES
    row,        \* the workspaces row: ide_status, current browser, token
    browsers,   \* status of each browser_sessions row, oldest first
    ctr,        \* the containers of the compose project
    net,        \* the project's _default network, and who is attached to it
    lock,       \* holder of the API's runtime lock
    req,        \* the API requests
    scav,       \* where the scavenger is
    recent,     \* is the last activity younger than the idle timeout
    sess,       \* the sessions of the workspace
    faults,     \* docker commands that failed so far
    muddle      \* history: an unlocked operation overlapped another one,
                \* or a compose down failed

rtvars == <<row, browsers, ctr, net, lock, req, scav, recent, sess, faults, muddle>>

IdeStatus == {"new", "starting", "ready", "failed", "stopped", "gone"}
Rows == [ide : IdeStatus, cur : Nat, tok : Requests \cup {None}]

\* No network; one for the workspace alone; one with a dev dependency's container
\* attached; one that had such a container attached since it was created.
NetState == {"none", "own", "shared", "left"}

\* ide_status is "gone" when the row has been deleted.
Gone == row.ide = "gone"

LockedPc   == {"prepare", "upnet", "upctr", "recover", "reupnet", "reupctr", "health", "finish", "fail"}
UnlockedPc == {"downctr", "downnet", "downfail", "commit"}

Init ==
    /\ row = [ide |-> "new", cur |-> 0, tok |-> None]
    /\ browsers = <<>>
    /\ ctr = [st |-> "none", inst |-> 0, tok |-> None]
    /\ net = "none"
    /\ lock = None
    /\ req = [r \in Requests |-> [kind |-> "ensure", pc |-> "new", copy |-> row, b |-> 0]]
    /\ scav = "sleep"
    /\ recent = TRUE
    /\ sess = [s \in Sessions |-> "none"]
    /\ faults = 0
    /\ muddle = FALSE

-----------------------------------------------------------------------------
(* Reading and writing the row.                                            *)

Goto(r, pc) == req' = [req EXCEPT ![r].pc = pc]

\* Mutant of CurrentBrowser: only the pointer of the copy is looked at.
CurrentBrowserOfPointer(copy) == copy.cur

\* get_current_browser_session: the row's pointer, else the newest row.
CurrentBrowser(copy) == IF copy.cur # 0 THEN copy.cur ELSE Len(browsers)

\* What the row holds after a request that loaded copy commits new.
Merged(copy, new) ==
    [f \in DOMAIN row |-> IF new[f] = copy[f] THEN row[f] ELSE new[f]]

\* Commit new from r's copy and refresh the copy; an UPDATE moves updated_at.
Commit(r, new, pc) ==
    /\ row' = Merged(req[r].copy, new)
    /\ recent' = (recent \/ new # req[r].copy)
    /\ req' = [req EXCEPT ![r].pc = pc, ![r].copy = row']

SetBrowser(b, st) ==
    browsers' = IF b \in DOMAIN browsers THEN [browsers EXCEPT ![b] = st] ELSE browsers

\* A request that finds its row deleted at a commit fails with a 500.
RowVanished(r) ==
    /\ Gone
    /\ Goto(r, "done")
    /\ UNCHANGED <<row, browsers, recent>>

Fault == faults < MaxFaults /\ faults' = faults + 1

-----------------------------------------------------------------------------
(* The docker commands.                                                    *)

\* Mutant of CreateContainers: running containers are left as they are.
CreateMissingContainers(tok) ==
    /\ net' = IF net = "none" THEN "own" ELSE net
    /\ ctr' = IF ctr.st = "none" THEN [ctr EXCEPT !.st = "created", !.tok = tok] ELSE ctr

\* compose up, first half: the network, then the containers are created, or
\* recreated because their definition (it carries the token) has changed.
CreateContainers(tok) ==
    /\ net' = IF net = "none" THEN "own" ELSE net
    /\ ctr' = IF ctr.st = "none" \/ ctr.tok # tok
              THEN [ctr EXCEPT !.st = "created", !.tok = tok] ELSE ctr

\* Second half: containers that are not running are started on the network.
CanStart == net # "none" /\ ctr.st # "none"
StartContainers ==
    ctr' = IF ctr.st = "up" THEN ctr ELSE [ctr EXCEPT !.st = "up", !.inst = @ + 1]

RemoveContainers == ctr' = [ctr EXCEPT !.st = "none"]

\* compose down leaves a network that is in use where it is, also by a container
\* that is none of its own.
RemoveNetwork == net' = IF net = "shared" \/ ctr.st # "none" THEN net ELSE "none"

-----------------------------------------------------------------------------
(* API requests.                                                           *)

\* A request arrives: project and workspace are loaded, and the browser
\* session for the routes that look it up before they stop anything.
Arrive(r, k) ==
    /\ req[r].pc = "new"
    /\ ~Gone
    /\ k = "stopBrowser" => CurrentBrowser(row) # 0
    /\ req' = [req EXCEPT ![r] = [kind |-> k, copy |-> row, b |-> CurrentBrowser(row),
                                  pc |-> IF k = "ensure" THEN "wait" ELSE "downctr"]]
    /\ UNCHANGED <<row, browsers, ctr, net, lock, scav, recent, sess, faults>>

\* The lock is taken, then the current browser session is looked up.
TakeLock(r) ==
    /\ req[r].pc = "wait"
    /\ lock = None
    /\ lock' = r
    /\ req' = [req EXCEPT ![r].pc = "prepare", ![r].b = CurrentBrowser(req[r].copy)]
    /\ UNCHANGED <<row, browsers, ctr, net, scav, recent, sess, faults>>

\* Mint the token, create the browser session if there is none, say
\* "starting", commit.
Prepare(r) ==
    /\ req[r].pc = "prepare"
    /\ \/ /\ RowVanished(r)
          /\ lock' = None
       \/ LET copy == req[r].copy
              b    == IF req[r].b = 0 THEN Len(browsers) + 1 ELSE req[r].b
              new  == [ide |-> "starting", cur |-> b,
                       tok |-> IF copy.tok = None THEN r ELSE copy.tok]
          IN  /\ ~Gone
              /\ row' = Merged(copy, new)
              /\ recent' = (recent \/ new # copy)
              /\ browsers' = IF req[r].b = 0 THEN Append(browsers, "starting")
                             ELSE [browsers EXCEPT ![b] = "starting"]
              /\ req' = [req EXCEPT ![r] = [@ EXCEPT !.pc = "upnet", !.copy = row', !.b = b]]
              /\ UNCHANGED lock
    /\ UNCHANGED <<ctr, net, scav, sess, faults>>

\* docker compose up, which is tried once more after the recovery.
UpNetwork(r) ==
    /\ req[r].pc \in {"upnet", "reupnet"}
    /\ \/ /\ CreateContainers(req[r].copy.tok)
          /\ Goto(r, IF req[r].pc = "upnet" THEN "upctr" ELSE "reupctr")
          /\ UNCHANGED faults
       \/ /\ Fault
          /\ Goto(r, IF req[r].pc = "upnet" THEN "recover" ELSE "fail")
          /\ UNCHANGED <<net, ctr>>
    /\ UNCHANGED <<row, browsers, lock, scav, recent, sess>>

UpContainers(r) ==
    /\ req[r].pc \in {"upctr", "reupctr"}
    /\ \/ /\ CanStart
          /\ StartContainers
          /\ Goto(r, "health")
          /\ UNCHANGED faults
       \/ /\ ~CanStart \/ faults < MaxFaults
          /\ faults' = IF CanStart THEN faults + 1 ELSE faults
          /\ Goto(r, IF req[r].pc = "upctr" THEN "recover" ELSE "fail")
          /\ UNCHANGED ctr
    /\ UNCHANGED <<row, browsers, net, lock, scav, recent, sess>>

\* compose down --remove-orphans, rm -f what is left, network rm.
Recover(r) ==
    /\ req[r].pc = "recover"
    /\ RemoveContainers
    /\ net' = IF net = "shared" THEN net ELSE "none"
    /\ Goto(r, "reupnet")
    /\ UNCHANGED <<row, browsers, lock, scav, recent, sess, faults>>

\* wait_for_runtime_health: the probes run inside the containers.
Probe(r) ==
    /\ req[r].pc = "health"
    /\ \/ /\ ctr.st = "up"
          /\ Goto(r, "finish")
          /\ UNCHANGED faults
       \/ /\ ctr.st # "up" \/ faults < MaxFaults
          /\ faults' = IF ctr.st = "up" THEN faults + 1 ELSE faults
          /\ Goto(r, "fail")
    /\ UNCHANGED <<row, browsers, ctr, net, lock, scav, recent, sess>>

\* The last commit of an ensure, "ready" or "failed", and the lock is free.
Settle(r, pc, st) ==
    /\ req[r].pc = pc
    /\ \/ RowVanished(r)
       \/ /\ ~Gone
          /\ Commit(r, [req[r].copy EXCEPT !.ide = st], "done")
          /\ SetBrowser(req[r].b, st)
    /\ lock' = None
    /\ UNCHANGED <<ctr, net, scav, sess, faults>>

Finish(r) == Settle(r, "finish", "ready")
GiveUp(r) == Settle(r, "fail", "failed")

\* stop_workspace_runtime on behalf of a request: compose down, no lock.
DownContainers(r) ==
    /\ req[r].pc = "downctr"
    /\ \/ RemoveContainers /\ Goto(r, "downnet") /\ UNCHANGED faults
       \/ Fault /\ Goto(r, "downfail") /\ UNCHANGED ctr
    /\ UNCHANGED <<row, browsers, net, lock, scav, recent, sess>>

DownNetwork(r) ==
    /\ req[r].pc = "downnet"
    /\ \/ RemoveNetwork /\ Goto(r, "commit") /\ UNCHANGED faults
       \/ Fault /\ Goto(r, "downfail") /\ UNCHANGED net
    /\ UNCHANGED <<row, browsers, ctr, lock, scav, recent, sess>>

\* What each route does when compose down raises: delete goes on, the IDE and
\* the browser routes leave a "failed" behind, the others only answer 500.
DownFailed(r) ==
    /\ req[r].pc = "downfail"
    /\ \/ RowVanished(r)
       \/ /\ ~Gone
          /\ CASE req[r].kind = "delete" ->
                    Goto(r, "commit") /\ UNCHANGED <<row, browsers, recent>>
               [] req[r].kind = "stopIde" ->
                    /\ Commit(r, [req[r].copy EXCEPT !.ide = "failed"], "done")
                    /\ UNCHANGED browsers
               [] req[r].kind = "stopBrowser" ->
                    /\ SetBrowser(req[r].b, "failed")
                    /\ Goto(r, "done")
                    /\ UNCHANGED <<row, recent>>
               [] OTHER -> Goto(r, "done") /\ UNCHANGED <<row, browsers, recent>>
    /\ UNCHANGED <<ctr, net, lock, scav, sess, faults>>

\* stop_runtime's commit; a restart then goes through ensure.
StopCommit(r) ==
    /\ req[r].pc = "commit"
    /\ req[r].kind # "delete"
    /\ \/ RowVanished(r)
       \/ /\ ~Gone
          /\ Commit(r, [req[r].copy EXCEPT !.ide = "stopped", !.cur = 0],
                    IF req[r].kind = "restart" THEN "wait" ELSE "done")
          /\ SetBrowser(req[r].b, "stopped")
    /\ UNCHANGED <<ctr, net, lock, scav, sess, faults>>

\* delete_project removes the dev dependencies, as far as it can, then drops the
\* browser sessions, the sessions and the row.
DeleteCommit(r) ==
    /\ req[r].pc = "commit"
    /\ req[r].kind = "delete"
    /\ row' = [ide |-> "gone", cur |-> 0, tok |-> None]
    /\ browsers' = <<>>
    /\ sess' = [s \in Sessions |-> IF sess[s] = "none" THEN "none" ELSE "ended"]
    /\ Goto(r, "done")
    /\ net' \in {net, IF net = "shared" THEN "left" ELSE net}
    /\ UNCHANGED <<ctr, lock, scav, recent, faults>>

-----------------------------------------------------------------------------
(* The worker's scavenger and the sessions.                                *)

Active == {s \in Sessions : sess[s] = "active"}

\* One SELECT: ready, nothing queued or running, last activity too old.
ScavList ==
    /\ scav = "sleep"
    /\ row.ide = "ready"
    /\ Active = {}
    /\ ~recent
    /\ scav' = "downctr"
    /\ UNCHANGED <<row, browsers, ctr, net, lock, req, recent, sess, faults>>

ScavDownContainers ==
    /\ scav = "downctr"
    /\ \/ RemoveContainers /\ scav' = "downnet" /\ UNCHANGED faults
       \/ Fault /\ scav' = "downfail" /\ UNCHANGED ctr
    /\ UNCHANGED <<row, browsers, net, lock, req, recent, sess>>

ScavDownNetwork ==
    /\ scav = "downnet"
    /\ \/ RemoveNetwork /\ scav' = "update" /\ UNCHANGED faults
       \/ Fault /\ scav' = "downfail" /\ UNCHANGED net
    /\ UNCHANGED <<row, browsers, ctr, lock, req, recent, sess>>

\* Mutant of ScavSkip: the error ends the scavenger's task.
ScavDies ==
    /\ scav = "downfail"
    /\ UNCHANGED <<row, browsers, ctr, net, lock, req, scav, recent, sess, faults>>

\* A down that failed is logged, and the workspace is tried again next time.
ScavSkip ==
    /\ scav = "downfail"
    /\ scav' = "sleep"
    /\ UNCHANGED <<row, browsers, ctr, net, lock, req, recent, sess, faults>>

\* A plain UPDATE: it touches neither updated_at nor the browser session.
ScavUpdate ==
    /\ scav = "update"
    /\ row' = IF Gone THEN row ELSE [row EXCEPT !.ide = "stopped"]
    /\ scav' = "drop"
    /\ UNCHANGED <<browsers, ctr, net, lock, req, recent, sess, faults>>

\* _drop_session(workspace_id), the last step for this workspace.
ScavDrop ==
    /\ scav = "drop"
    /\ scav' = "sleep"
    /\ UNCHANGED <<row, browsers, ctr, net, lock, req, recent, sess, faults>>

Scavenger ==
    ScavList \/ ScavDownContainers \/ ScavDownNetwork \/ ScavSkip \/ ScavUpdate \/ ScavDrop

\* A user posts a prompt: the row of a queued session is activity.
PostSession(s) ==
    /\ ~Gone
    /\ sess[s] = "none"
    /\ sess' = [sess EXCEPT ![s] = "active"]
    /\ recent' = TRUE
    /\ UNCHANGED <<row, browsers, ctr, net, lock, req, scav, faults>>

EndSession(s) ==
    /\ sess[s] = "active"
    /\ sess' = [sess EXCEPT ![s] = "ended"]
    /\ UNCHANGED <<row, browsers, ctr, net, lock, req, scav, recent, faults>>

\* The idle timeout passes; no request is as slow as that.
Idle(r) == req[r].pc \in {"new", "done"}
Lapse ==
    /\ recent
    /\ \A r \in Requests : Idle(r)
    /\ recent' = FALSE
    /\ UNCHANGED <<row, browsers, ctr, net, lock, req, scav, sess, faults>>

-----------------------------------------------------------------------------
(* The dev dependencies (module DevDeps), as far as the network is concerned: *)
(* their containers come and go without the lock, and stay through a stop.    *)

rest == <<row, browsers, ctr, lock, req, scav, recent, sess, faults>>

\* docker run --network, if the network is there.
DepAttaches == net \in {"own", "left"} /\ net' = "shared" /\ UNCHANGED rest

\* rm -f, by `dev-down` or by an ensure that replaces a container.
DepDetaches == net = "shared" /\ net' = "left" /\ UNCHANGED rest

-----------------------------------------------------------------------------

RequestSteps(r) ==
    \/ TakeLock(r) \/ Prepare(r) \/ UpNetwork(r) \/ UpContainers(r) \/ Recover(r)
    \/ Probe(r) \/ Finish(r) \/ GiveUp(r) \/ DownContainers(r) \/ DownNetwork(r)
    \/ DownFailed(r) \/ StopCommit(r) \/ DeleteCommit(r)

RuntimeSteps ==
    \/ \E r \in Requests : RequestSteps(r)
    \/ \E r \in Requests, k \in Kinds : Arrive(r, k)
    \/ Scavenger
    \/ \E s \in Sessions : PostSession(s)
    \/ Lapse
    \/ DepAttaches \/ DepDetaches

\* Two operations at once, one of which does not take the lock.
Unlocked(r) == req[r].pc \in UnlockedPc
Overlap ==
    \/ scav # "sleep" /\ \E r \in Requests : ~Idle(r)
    \/ \E q, r \in Requests : q # r /\ Unlocked(q) /\ ~Idle(r)
DownWentWrong == scav = "downfail" \/ \E r \in Requests : req[r].pc = "downfail"
KeepHistory == muddle' = (muddle \/ Overlap' \/ DownWentWrong')

Next ==
    /\ RuntimeSteps \/ \E s \in Sessions : EndSession(s)
    /\ KeepHistory

\* Requests are served, the scavenger is a loop of its own, prompts end.
Fairness ==
    /\ \A r \in Requests : WF_rtvars(RequestSteps(r) /\ KeepHistory)
    /\ WF_rtvars(Scavenger /\ KeepHistory)
    /\ \A s \in Sessions : WF_rtvars(EndSession(s) /\ KeepHistory)

Spec == Init /\ [][Next]_rtvars /\ Fairness

-----------------------------------------------------------------------------
(* Properties.                                                             *)

Quiet == scav = "sleep" /\ \A r \in Requests : Idle(r)

\* The variables have the values the code gives them, and a request past the
\* lock of ensure_workspace_runtime is the one that holds it.
TypeOK ==
    /\ row \in Rows
    /\ browsers \in Seq({"starting", "ready", "failed", "stopped"})
    /\ ctr \in [st : {"none", "created", "up"}, inst : Nat, tok : Requests \cup {None}]
    /\ net \in NetState /\ recent \in BOOLEAN /\ muddle \in BOOLEAN
    /\ lock \in Requests \cup {None}
    /\ req \in [Requests -> [kind : AllKinds, copy : Rows, b : Nat,
                             pc : {"new", "wait", "done"} \cup LockedPc \cup UnlockedPc]]
    /\ scav \in {"sleep", "downctr", "downnet", "downfail", "update", "drop"}
    /\ sess \in [Sessions -> {"none", "active", "ended"}]
    /\ faults \in 0..MaxFaults
    /\ \A r \in Requests : req[r].pc \in LockedPc <=> lock = r

\* When nothing is under way the row tells the truth about the containers:
\* ready means they run with the row's token, stopped and deleted that they
\* are gone, and the network too unless a dev dependency was attached to it.
\* What can break it is an operation that took no lock next to another one, or
\* a compose down that failed (muddle); the stale copies the ensures work on,
\* the second token and the recovery cannot.
RowTellsTruth ==
    Quiet /\ ~muddle =>
        /\ row.ide = "ready" => ctr.st = "up" /\ net # "none" /\ ctr.tok = row.tok
        /\ row.ide \in {"stopped", "gone"} => ctr.st = "none" /\ net # "own"

\* However many requests find a workspace without a browser session, one row
\* is created: the pointer of a stale copy is empty, but the newest row is
\* looked up under the lock.
OneBrowserSession == Len(browsers) <= 1

\* A ready workspace that nobody uses is stopped by the scavenger, or its
\* use begins again.
IdleIsStopped ==
    LET Unused == ~recent /\ \A r \in Requests : Idle(r)
    IN  (row.ide = "ready" /\ Unused) ~> (ctr.st = "none" \/ ~Unused)

\* Every request of the runtime routes returns, so the lock is not kept.
RequestsReturn == \A r \in Requests : (req[r].pc = "wait") ~> (req[r].pc = "done")

\* models.py:87: the token "rotates only when the workspace is recreated".
TokenIsStable == [][row.tok # None /\ row'.ide # "gone" => row'.tok = row.tok]_rtvars

\* runtime.py:179: the lock keeps concurrent ensure, restart and stop calls
\* of a workspace apart: without a docker fault no ensure fails.
NoEnsureFails == \A r \in Requests : faults = 0 => req[r].pc # "fail"

\* runner.py:55: only a workspace that has not seen a session lately is
\* stopped: none has a session when its containers are removed.
ScavengerSparesSessions ==
    [][ScavDownContainers /\ ctr' # ctr => Active = {}]_rtvars
=============================================================================
