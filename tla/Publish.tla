------------------------------- MODULE Publish -------------------------------
(***************************************************************************)
(* Publishing a project: routes/deploy.py and services/publish.py.         *)
(*                                                                         *)
(* A publish is a background task of the API that builds the working tree, *)
(* smoke-tests the image in a preview compose project and promotes it in   *)
(* the one compose project of the site.  A rollback promotes the image of  *)
(* an earlier deployment, in the request itself.  What they share: the     *)
(* rows of the project, the directory with the compose files and archives, *)
(* the preview project of a commit, and the site.  One project; a commit   *)
(* stands for its hash, its image tag and its archive.                     *)
(***************************************************************************)
EXTENDS Naturals, FiniteSets

CONSTANTS
    Publishes,    \* POST /publish requests
    Rollbacks,    \* POST /rollback requests
    MaxEdits,     \* bound: changes of the working tree
    MaxDbFaults,  \* bound: transactions that fail
    MaxDeaths     \* bound: deaths of the API process

NoJob == "none"

ASSUME PublishAssumption ==
    /\ IsFiniteSet(Publishes) /\ IsFiniteSet(Rollbacks)
    /\ Publishes \cap Rollbacks = {} /\ NoJob \notin Publishes \cup Rollbacks
    /\ MaxEdits \in Nat /\ MaxDbFaults \in Nat /\ MaxDeaths \in Nat

Jobs     == Publishes \cup Rollbacks
Commits  == 1..(MaxEdits + 1)
Ended    == {"ready", "failed"}
InFlight == {"queued", "building", "deploying"}

VARIABLES
    tree,       \* the commit that the working tree amounts to
    row,        \* deployments.status as committed, absent for no row
    hash,       \* deployments.git_commit_hash, 0 for null
    superseded, \* deployments.superseded_by_id
    readyAt,    \* deployments.ready_at as a count of ready rows, 0 for null
    at,         \* where the request or its task stands
    prior,      \* the ready rows it has selected to supersede
    archives,   \* commits whose tarball is kept
    preview,    \* commits whose preview project is up
    smoked,     \* commits whose image has answered the smoke probe
    files,      \* compose.prod.yml and compose.polaris.yml of the site
    live,       \* the containers of the site
    disturbed,  \* history: promotes have overlapped, or one has not been recorded
    dbFaults, deaths

rowVars    == <<row, hash, superseded, readyAt>>
jobVars    == <<at, prior>>
siteVars   == <<files, live>>
budgetVars == <<dbFaults, deaths>>
vars == <<tree, rowVars, jobVars, archives, preview, smoked, siteVars, disturbed,
          budgetVars>>

JobState == {"none", "insert", "prepare", "archive", "build", "preview", "probe",
             "down", "give_up", "push", "write", "up", "select", "commit", "except",
             "over", "dead"}
\* The part of a job that must not overlap with that of another.
Promoting == {"up", "select", "commit"}
AtWork    == {j \in Jobs : at[j] \notin {"none", "over", "dead"}}
Ready     == {j \in Jobs : row[j] = "ready"}
Heads     == {j \in Ready : superseded[j] = NoJob}

Nothing == [image |-> 0, hostPorts |-> FALSE]

Goto(j, from, to) == at[j] = from /\ at' = [at EXCEPT ![j] = to]

-----------------------------------------------------------------------------
Init ==
    /\ tree = 1
    /\ row = [j \in Jobs |-> "absent"]
    /\ hash = [j \in Jobs |-> 0]
    /\ superseded = [j \in Jobs |-> NoJob]
    /\ readyAt = [j \in Jobs |-> 0]
    /\ at = [j \in Jobs |-> "none"]
    /\ prior = [j \in Jobs |-> {}]
    /\ archives = {} /\ preview = {} /\ smoked = {}
    /\ files = Nothing /\ live = Nothing
    /\ disturbed = FALSE /\ dbFaults = 0 /\ deaths = 0

-----------------------------------------------------------------------------
(* trigger_publish *)

\* 409 while a row of the project is in flight.
CheckInFlight(j) ==
    /\ Goto(j, "none",
            IF \E k \in Jobs : row[k] \in InFlight THEN "over" ELSE "insert")
    /\ UNCHANGED <<tree, rowVars, prior, archives, preview, smoked, siteVars,
                   disturbed, budgetVars>>

\* INSERT, COMMIT and create_task.
InsertDeployment(j) ==
    /\ Goto(j, "insert", "prepare")
    /\ row' = [row EXCEPT ![j] = "queued"]
    /\ UNCHANGED <<tree, hash, superseded, readyAt, prior, archives, preview,
                   smoked, siteVars, disturbed, budgetVars>>

-----------------------------------------------------------------------------
(* run_publish *)

\* Preflight, auto-scaffold, auto-commit, manifest: the commit is fixed here.
Prepare(j) ==
    /\ Goto(j, "prepare", "archive")
    /\ hash' = [hash EXCEPT ![j] = tree]
    /\ UNCHANGED <<tree, row, superseded, readyAt, prior, archives, preview,
                   smoked, siteVars, disturbed, budgetVars>>

\* The tarball of a commit is written while its job archives it, or fails to be.
ArchivesLeft(j) == {archives} \cup
    (IF at[j] = "archive" THEN {archives \cup {hash[j]}} ELSE {})

\* The frozen tree, its tarball (whose failure is not fatal), status "building".
Archive(j) ==
    /\ Goto(j, "archive", "build")
    /\ archives' \in ArchivesLeft(j)
    /\ row' = [row EXCEPT ![j] = "building"]
    /\ UNCHANGED <<tree, hash, superseded, readyAt, prior, preview, smoked,
                   siteVars, disturbed, budgetVars>>

\* docker build, the secrets file, status "deploying".
Build(j) ==
    /\ Goto(j, "build", "preview")
    /\ row' = [row EXCEPT ![j] = "deploying"]
    /\ UNCHANGED <<tree, hash, superseded, readyAt, prior, archives, preview,
                   smoked, siteVars, disturbed, budgetVars>>

\* smoke_test: compose up of the preview.  If it fails, what has started stays
\* up: the finally reads probe_succeeded, which is not bound yet, and raises
\* before it comes to the compose down.
StartPreview(j) ==
    /\ \/ Goto(j, "preview", "probe") /\ preview' = preview \cup {hash[j]}
       \/ /\ Goto(j, "preview", "except")
          /\ preview' \in {preview, preview \cup {hash[j]}}
    /\ UNCHANGED <<tree, rowVars, prior, archives, smoked, siteVars, disturbed,
                   budgetVars>>

\* Mutant: a probe that never succeeds is only logged.
ProbeLogged(j) ==
    /\ Goto(j, "probe", "down")
    /\ \/ hash[j] \in preview /\ smoked' = smoked \cup {hash[j]}
       \/ UNCHANGED smoked
    /\ UNCHANGED <<tree, rowVars, prior, archives, preview, siteVars, disturbed,
                   budgetVars>>

\* The probe needs the preview, which another publish of the same commit may have
\* torn down; it may fail for reasons of the app as well.
Probe(j) ==
    /\ \/ /\ hash[j] \in preview
          /\ Goto(j, "probe", "down")
          /\ smoked' = smoked \cup {hash[j]}
       \/ Goto(j, "probe", "give_up") /\ UNCHANGED smoked
    /\ UNCHANGED <<tree, rowVars, prior, archives, preview, siteVars, disturbed,
                   budgetVars>>

\* compose down of the preview, whose failure is swallowed.
StopPreview(j) ==
    /\ Goto(j, "down", "push") \/ Goto(j, "give_up", "except")
    /\ preview' \in {preview, preview \ {hash[j]}}
    /\ UNCHANGED <<tree, rowVars, prior, archives, smoked, siteVars, disturbed,
                   budgetVars>>

Push(j) ==
    /\ Goto(j, "push", "write")
    /\ UNCHANGED <<tree, rowVars, prior, archives, preview, smoked, siteVars,
                   disturbed, budgetVars>>

\* A command of the pipeline fails or times out, or a check raises.
CommandFails(j) ==
    /\ \E step \in {"prepare", "archive", "build", "push", "write"} :
          Goto(j, step, "except")
    /\ archives' \in ArchivesLeft(j)
    /\ UNCHANGED <<tree, rowVars, prior, preview, smoked, siteVars, disturbed,
                   budgetVars>>

\* Mutant: the error goes to the log only.
RecordFailureLogged(j) ==
    /\ Goto(j, "except", "over")
    /\ UNCHANGED <<tree, rowVars, prior, archives, preview, smoked, siteVars,
                   disturbed, budgetVars>>

\* The handlers of run_publish.  The row that run_rollback has only flushed is
\* gone with its transaction.
RecordFailure(j) ==
    /\ Goto(j, "except", "over")
    /\ row' = IF j \in Publishes THEN [row EXCEPT ![j] = "failed"] ELSE row
    /\ UNCHANGED <<tree, hash, superseded, readyAt, prior, archives, preview,
                   smoked, siteVars, disturbed, budgetVars>>

-----------------------------------------------------------------------------
(* run_rollback, up to its promote *)

\* A ready deployment of the commit, and its tarball, which is unpacked as it is.
\* Nobody looks whether a publish is in flight.
RollBack(j) ==
    /\ Goto(j, "none", "write")
    /\ \E k \in Ready :
          /\ hash[k] \in archives
          /\ hash' = [hash EXCEPT ![j] = hash[k]]
    /\ UNCHANGED <<tree, row, superseded, readyAt, prior, archives, preview,
                   smoked, siteVars, disturbed, budgetVars>>

-----------------------------------------------------------------------------
(* promote, and the end of both *)

\* Both compose files.  Those of a publish have lost the host ports; those that a
\* rollback takes from its tarball have not.
FilesOf(j) == [image |-> hash[j], hostPorts |-> j \in Rollbacks]

WriteFiles(j) ==
    /\ Goto(j, "write", "up")
    /\ files' = FilesOf(j)
    /\ disturbed' = (disturbed \/ \E k \in Jobs : at[k] \in Promoting)
    /\ UNCHANGED <<tree, rowVars, prior, archives, preview, smoked, live,
                   budgetVars>>

\* compose up --wait takes the files as it finds them, those of the job or those
\* another job has written over them by then.
ComposeUp(j) ==
    /\ Goto(j, "up", "select")
    /\ live' \in {files, FilesOf(j)}
    /\ UNCHANGED <<tree, rowVars, prior, archives, preview, smoked, files,
                   disturbed, budgetVars>>

\* It fails before it has replaced the containers, or because the new ones do not
\* become healthy.
ComposeUpFails(j) ==
    /\ Goto(j, "up", "except")
    /\ live' \in {live, files, FilesOf(j)}
    /\ disturbed' = (disturbed \/ live' # live)
    /\ UNCHANGED <<tree, rowVars, prior, archives, preview, smoked, files,
                   budgetVars>>

\* Mutant: .first() instead of .all().
SelectFirst(j) ==
    /\ Goto(j, "select", "commit")
    /\ IF Ready = {} THEN UNCHANGED prior
       ELSE \E k \in Ready : prior' = [prior EXCEPT ![j] = {k}]
    /\ UNCHANGED <<tree, rowVars, archives, preview, smoked, siteVars, disturbed,
                   budgetVars>>

SelectPrior(j) ==
    /\ Goto(j, "select", "commit")
    /\ prior' = [prior EXCEPT ![j] = Ready]
    /\ UNCHANGED <<tree, rowVars, archives, preview, smoked, siteVars, disturbed,
                   budgetVars>>

\* One transaction: the row is ready and supersedes every ready row selected.
CommitReady(j) ==
    /\ Goto(j, "commit", "over")
    /\ row' = [row EXCEPT ![j] = "ready"]
    /\ readyAt' = [readyAt EXCEPT ![j] = Cardinality(Ready) + 1]
    /\ superseded' = [k \in Jobs |-> IF k \in prior[j] THEN j ELSE superseded[k]]
    /\ UNCHANGED <<tree, hash, prior, archives, preview, smoked, siteVars,
                   disturbed, budgetVars>>

-----------------------------------------------------------------------------
(* The surroundings *)

\* The agent or the user changes the working tree.
Edit ==
    /\ tree < MaxEdits + 1
    /\ tree' = tree + 1
    /\ UNCHANGED <<rowVars, jobVars, archives, preview, smoked, siteVars,
                   disturbed, budgetVars>>

\* A transaction fails.  The handler uses the same session: its own commit may
\* fail too, is rolled back, and the row stays as it is.
DatabaseFails(j) ==
    /\ at[j] \in {"prepare", "archive", "build", "push", "select", "commit", "except"}
    /\ dbFaults < MaxDbFaults /\ dbFaults' = dbFaults + 1
    /\ \/ at[j] # "except" /\ at' = [at EXCEPT ![j] = "except"]
       \/ at' = [at EXCEPT ![j] = "over"]
    /\ disturbed' = (disturbed \/ at[j] \in Promoting)
    /\ archives' \in ArchivesLeft(j)
    /\ UNCHANGED <<tree, rowVars, prior, preview, smoked, siteVars, deaths>>

\* Nothing at the start of the API looks for rows in flight.
ApiDies ==
    /\ AtWork # {}
    /\ deaths < MaxDeaths /\ deaths' = deaths + 1
    /\ at' = [j \in Jobs |-> IF j \in AtWork THEN "dead" ELSE at[j]]
    /\ disturbed' = (disturbed \/ \E j \in Jobs : at[j] \in Promoting)
    /\ UNCHANGED <<tree, rowVars, prior, archives, preview, smoked, siteVars,
                   dbFaults>>

-----------------------------------------------------------------------------
PublishStep(j) ==
    \/ InsertDeployment(j) \/ Prepare(j) \/ Archive(j) \/ Build(j)
    \/ StartPreview(j) \/ Probe(j) \/ StopPreview(j) \/ Push(j)
PromoteStep(j) ==
    \/ WriteFiles(j) \/ ComposeUp(j) \/ ComposeUpFails(j)
    \/ SelectPrior(j) \/ CommitReady(j) \/ CommandFails(j) \/ RecordFailure(j)

Next ==
    \/ \E j \in Publishes : CheckInFlight(j) \/ PublishStep(j)
    \/ \E j \in Rollbacks : RollBack(j)
    \/ \E j \in Jobs : PromoteStep(j) \/ DatabaseFails(j)
    \/ Edit \/ ApiDies

Spec == Init /\ [][Next]_vars

\* The event loop runs every task; each docker command has a timeout, and git ends.
FairSpec ==
    /\ Spec
    /\ \A j \in Publishes : WF_vars(PublishStep(j))
    /\ \A j \in Jobs : WF_vars(PromoteStep(j))

-----------------------------------------------------------------------------
TypeOK ==
    /\ tree \in Commits
    /\ row \in [Jobs -> {"absent"} \cup InFlight \cup Ended]
    /\ hash \in [Jobs -> Commits \cup {0}]
    /\ superseded \in [Jobs -> Jobs \cup {NoJob}]
    /\ readyAt \in [Jobs -> Nat]
    /\ at \in [Jobs -> JobState]
    /\ prior \in [Jobs -> SUBSET Jobs]
    /\ archives \subseteq Commits /\ preview \subseteq Commits /\ smoked \subseteq Commits
    /\ {files, live} \subseteq [image : Commits \cup {0}, hostPorts : BOOLEAN]
    /\ disturbed \in BOOLEAN
    /\ dbFaults \in 0..MaxDbFaults /\ deaths \in 0..MaxDeaths

\* A superseded deployment points to one that became ready later, so that the
\* chain has no cycle and ends in a head, however publishes and rollbacks overlap
\* ("the older row's superseded_by_id points forward").
ChainPointsForward ==
    /\ \A j \in Jobs : superseded[j] # NoJob =>
          /\ {j, superseded[j]} \subseteq Ready
          /\ readyAt[j] < readyAt[superseded[j]]
    /\ Ready # {} => Heads # {}

\* The site only ever runs an image that has answered the smoke probe, although
\* concurrent promotes overwrite each other's compose files and promotes fail.
LiveIsSmoked == live.image \in smoked \cup {0}

\* As long as no two promotes have overlapped and every promote is on record, a site
\* at rest runs the image of the one head of the chain, and of no failed publish.
LiveIsHead ==
    ~disturbed /\ (\A j \in Jobs : at[j] \notin Promoting) =>
        IF Ready = {} THEN live = Nothing
        ELSE \E j \in Jobs : Heads = {j} /\ live.image = hash[j]

\* A deployment does not stay in flight, and block every later publish, whatever
\* command fails, as long as the API lives and its transactions commit.
EveryPublishEnds ==
    \A j \in Publishes :
        row[j] \in InFlight ~> row[j] \in Ended \/ dbFaults > 0 \/ deaths > 0

\* A smoke test that fails does not leave its preview behind without trying to take
\* it down ("Always tear down the preview, even on smoke failure").
PreviewTornDown ==
    [][\A j \in Jobs :
        at[j] \in {"preview", "probe"} /\ at'[j] = "except" =>
            hash[j] \notin preview']_vars

\* At most one deployment of a project is in flight ("Don't let more than one
\* in-flight publish per project").
OneInFlight == Cardinality({j \in Jobs : row[j] \in InFlight}) <= 1

\* A publish that fails leaves the site as it was ("promote compose up failed - old
\* version stays live").
OldVersionStaysLive ==
    [][\A j \in Jobs :
        at[j] = "up" /\ at'[j] = "except" => live' = live]_vars

\* The site publishes no host port ("Strip any host-published ports ... before
\* anything downstream consumes it").
NoHostPorts == ~live.hostPorts

=============================================================================
