------------------------------- MODULE Projects -------------------------------
(***************************************************************************)
(* The projects of one user and their directories: create_project,         *)
(* delete_project (routes/projects.py) and initialize_workspace            *)
(* (services/workspaces.py).  All projects here have the same name, so     *)
(* their slugs are the name with a suffix, and the slug is the directory.  *)
(* Creation commits the rows before it makes the directory; deletion       *)
(* removes the directory before it drops the rows.  Requests interleave at *)
(* their database calls; who has read a project's row writes to its        *)
(* directory later, however far its creation or deletion has come.         *)
(***************************************************************************)
EXTENDS Naturals, FiniteSets

CONSTANTS
    Creates, Deletes,  \* requests; a project has the name of its create request
    NoProject,
    MaxWriters,        \* bound: files that are about to be written
    MaxFaults          \* bound: rmtrees that leave files, system calls and commits
                       \* that fail, deaths of the API

ASSUME ProjectsAssumption ==
    IsFiniteSet(Creates) /\ NoProject \notin Creates /\ {MaxWriters, MaxFaults} \subseteq Nat

VARIABLES
    row,       \* per project: its slug and the status of its workspace
    creating,  \* per create request: where it is
    deleting,  \* per delete request: where it is and its project
    files,     \* per slug: the projects whose files its directory holds
    writing,   \* projects whose row somebody has read to write a file
    leftover,  \* history: slugs whose last rmtree left files, or written to before
               \* the directory was made or after it was removed
    faults

projectVars == <<row, creating, deleting, files, writing, leftover, faults>>

Slugs == 1..Cardinality(Creates)   \* name, name-2, name-3, ...
Ended == {"ready", "slug taken", "failed", "server error", "died"}

ProjectsInit ==
    /\ row = [p \in Creates |-> [slug |-> 1, status |-> "none"]]
    /\ creating = [p \in Creates |-> "off"]
    /\ deleting = [d \in Deletes |-> [at |-> "off", of |-> NoProject]]
    /\ files = [s \in Slugs |-> {}]
    /\ writing = {} /\ leftover = {} /\ faults = 0

Exists(p) == row[p].status \notin {"none", "gone"}
Taken(s)  == \E p \in Creates : Exists(p) /\ row[p].slug = s
At(p, c)  == creating' = [creating EXCEPT ![p] = c]
Leaves(p, status) == row' = [row EXCEPT ![p].status = status]
Fault == faults < MaxFaults /\ faults' = faults + 1

-----------------------------------------------------------------------------
\* allocate_slug, one SELECT a step.
Probe(p) ==
    /\ creating[p] \in {"off", "probing"}
    /\ IF Taken(row[p].slug) THEN row' = [row EXCEPT ![p].slug = @ + 1] /\ At(p, "probing")
                             ELSE At(p, "inserting") /\ UNCHANGED row
    /\ UNCHANGED <<deleting, files, writing, leftover, faults>>

\* uq_projects_user_slug: the loser of a race gets a 500.
InsertRows(p) ==
    /\ creating[p] = "inserting"
    /\ IF Taken(row[p].slug) THEN At(p, "slug taken") /\ UNCHANGED row
                             ELSE At(p, "initializing") /\ Leaves(p, "provisioning")
    /\ UNCHANGED <<deleting, files, writing, leftover, faults>>

\* initialize_workspace has no await.  An OSError is not caught, nor is what the
\* handler of a refused chown raises: the module has no logger.
Initialize(p) ==
    /\ creating[p] = "initializing"
    /\ \/ At(p, IF files[row[p].slug] = {} THEN "finishing" ELSE "refusing") /\ UNCHANGED faults
       \/ Fault /\ At(p, "server error")
    /\ UNCHANGED <<row, deleting, files, writing, leftover>>

\* An UPDATE of a row that is gone raises, and a commit may fail.
Update(p, status) ==
    \/ Exists(p) /\ At(p, status) /\ Leaves(p, status) /\ UNCHANGED faults
    \/ /\ IF Exists(p) THEN Fault ELSE UNCHANGED faults
       /\ At(p, "server error") /\ UNCHANGED row

Refuse(p) ==
    /\ creating[p] = "refusing" /\ Update(p, "failed")
    /\ UNCHANGED <<deleting, files, writing, leftover>>

Finish(p) ==
    /\ creating[p] = "finishing" /\ Update(p, "ready")
    /\ UNCHANGED <<deleting, files, writing, leftover>>

-----------------------------------------------------------------------------
\* A PUT of a file, or an ensure that starts the container of the agent, reads the
\* row, whatever its status.
ReadRow(p) ==
    /\ Exists(p) /\ p \notin writing /\ Cardinality(writing) < MaxWriters
    /\ writing' = writing \cup {p}
    /\ UNCHANGED <<row, creating, deleting, files, leftover, faults>>

\* Outside the time from the making of the directory to its removal.
Untimely(p) ==
    \/ creating[p] = "initializing" \/ ~Exists(p)
    \/ \E d \in Deletes : deleting[d] = [at |-> "removed", of |-> p]

\* write_workspace_file makes the directories that are missing; compose makes a bind
\* mount that is.
WriteFile(p) ==
    /\ p \in writing /\ writing' = writing \ {p}
    /\ files' = [files EXCEPT ![row[p].slug] = @ \cup {p}]
    /\ leftover' = IF Untimely(p) THEN leftover \cup {row[p].slug} ELSE leftover
    /\ UNCHANGED <<row, creating, deleting, faults>>

-----------------------------------------------------------------------------
ReadProject(d, p) ==
    /\ deleting[d].at = "off" /\ Exists(p)
    /\ deleting' = [deleting EXCEPT ![d] = [at |-> "read", of |-> p]]
    /\ UNCHANGED <<row, creating, files, writing, leftover, faults>>

\* Mutant: the rows go first.
RemoveDirLast(d) ==
    /\ deleting[d].at \in {"read", "removed"}
    /\ LET p == deleting[d].of IN
        IF deleting[d].at = "read" THEN Leaves(p, "gone") /\ UNCHANGED files
        ELSE files' = [files EXCEPT ![row[p].slug] = {}] /\ UNCHANGED row
    /\ deleting' = [deleting EXCEPT ![d].at = IF @ = "read" THEN "removed" ELSE "over"]
    /\ UNCHANGED <<creating, writing, leftover, faults>>

\* Mutant: the directory stays.
KeepDir(d) ==
    /\ deleting[d].at = "read"
    /\ deleting' = [deleting EXCEPT ![d].at = "removed"]
    /\ UNCHANGED <<row, creating, files, writing, leftover, faults>>

\* The runtime and the dev-deps are stopped and the directory removed; whatever
\* fails is logged, and rmtree may leave files.
RemoveDir(d) ==
    /\ deleting[d].at = "read"
    /\ deleting' = [deleting EXCEPT ![d].at = "removed"]
    /\ LET s == row[deleting[d].of].slug IN
        \/ /\ files' = [files EXCEPT ![s] = {}] /\ leftover' = leftover \ {s}
           /\ UNCHANGED faults
        \/ /\ Fault /\ files[s] # {}
           /\ leftover' = leftover \cup {s} /\ UNCHANGED files
    /\ UNCHANGED <<row, creating, writing>>

\* A DELETE that is refused, or a commit that fails, leaves the rows.
DropRows(d) ==
    /\ deleting[d].at = "removed"
    /\ deleting' = [deleting EXCEPT ![d].at = "over"]
    /\ \/ Leaves(deleting[d].of, "gone") /\ UNCHANGED faults
       \/ Fault /\ UNCHANGED row
    /\ UNCHANGED <<creating, files, writing, leftover>>

\* The API dies, and with it the requests it was serving; an agent may go on.
ApiDies ==
    /\ Fault
    /\ creating' = [p \in Creates |-> IF creating[p] \in Ended \cup {"off"} THEN creating[p] ELSE "died"]
    /\ deleting' = [d \in Deletes |-> IF deleting[d].at = "off" THEN deleting[d]
                                      ELSE [deleting[d] EXCEPT !.at = "over"]]
    /\ UNCHANGED <<row, files, writing, leftover>>

Create(p) == Probe(p) \/ InsertRows(p) \/ Initialize(p) \/ Refuse(p) \/ Finish(p)
Delete(d) == RemoveDir(d) \/ DropRows(d)

ProjectsNext ==
    \/ \E p \in Creates : Create(p) \/ ReadRow(p) \/ WriteFile(p)
    \/ \E d \in Deletes : Delete(d) \/ \E p \in Creates : ReadProject(d, p)
    \/ ApiDies
=============================================================================
