---------------------------- MODULE Portal_proofs ----------------------------
(***************************************************************************)
(* Proofs about the projects of a user and about signing in, for any       *)
(* requests, tabs and limits.                                              *)
(*                                                                         *)
(* A create request checks, inserts, makes the directory and updates in    *)
(* four steps, a delete request reads, removes and drops in three, several *)
(* may delete one project, whoever has read a row writes to its directory  *)
(* later, and any step may fail or be the last before the API dies.  What  *)
(* holds between the steps is said by CreatesInv and DeletesInv (where a   *)
(* request stands when a row has a status), SlugsInv (who may share a      *)
(* slug) and FilesInv (whose files are where).  The steps are first        *)
(* restated as what they change row by row.                                *)
(***************************************************************************)
EXTENDS Portal, FiniteSetTheorems, TLAPS

Early == {"off", "probing", "inserting"}
Late  == {"initializing", "refusing", "finishing"}

Rows    == [slug : Nat \ {0}, status : {"none", "provisioning", "ready", "failed", "gone"}]
Removal == [at : {"off", "read", "removed", "over"}, of : Creates \cup {NoProject}]

ProjectTypes ==
    /\ row \in [Creates -> Rows]
    /\ creating \in [Creates -> Early \cup Late \cup Ended]
    /\ deleting \in [Deletes -> Removal]
    /\ files \in [Slugs -> SUBSET Creates]

\* A row appears at the INSERT, and leaves provisioning when its request ends, or
\* is deleted.
CreatesInv ==
    \A p \in Creates :
        /\ creating[p] \in Early => row[p].status = "none"
        /\ creating[p] \in Late => row[p].status \in {"provisioning", "gone"}

\* A delete request has found a project's row.
DeletesInv ==
    \A d \in Deletes :
        /\ deleting[d].at = "off" <=> deleting[d].of = NoProject
        /\ deleting[d].of # NoProject => row[deleting[d].of].status # "none"

\* Projects that exist have different slugs; a slug that was passed over was taken.
SlugsInv ==
    /\ \A p, q \in Creates : Exists(p) /\ Exists(q) /\ row[p].slug = row[q].slug => p = q
    /\ \A p \in Creates : \A s \in 1..(row[p].slug - 1) :
        \E q \in Creates \ {p} : row[q].slug = s /\ row[q].status # "none"

RowsInv == ProjectTypes /\ CreatesInv /\ DeletesInv /\ SlugsInv

\* Files that are not left over are those of a project that has the slug, whose
\* directory was looked at before and is not yet removed.
FilesInv ==
    \A s \in Slugs : \A q \in files[s] :
        \/ s \in leftover
        \/ /\ row[q].slug = s /\ Exists(q) /\ creating[q] # "initializing"
           /\ ~\E d \in Deletes : deleting[d].at = "removed" /\ deleting[d].of = q

ProjectsInv == RowsInv /\ FilesInv

-----------------------------------------------------------------------------
\* Every slug passed over was another project's, so that a slug is one of Slugs.
LEMMA SlugInRange ==
    ASSUME ProjectTypes, SlugsInv, NEW p \in Creates
    PROVE  row[p].slug \in Slugs
<1> DEFINE others == Creates \ {p}
           slugs  == {row[q].slug : q \in others}
           passed == 1..(row[p].slug - 1)
<1>1. IsFiniteSet(Creates) /\ row[p].slug \in Nat \ {0}
  BY ProjectsAssumption DEF ProjectTypes, Rows
<1>2. IsFiniteSet(others) /\ Cardinality(others) = Cardinality(Creates) - 1
  BY <1>1, FS_RemoveElement
<1>3. IsFiniteSet(slugs) /\ Cardinality(slugs) <= Cardinality(others)
  <2>1. [q \in others |-> row[q].slug] \in Surjection(others, slugs)
    BY DEF Surjection
  <2> QED
    BY <1>2, <2>1, FS_Surjection
<1>4. passed \subseteq slugs
  BY DEF SlugsInv
<1>5. Cardinality(passed) = row[p].slug - 1
  <2>1. row[p].slug - 1 \in Nat /\ 1 \in Nat
    BY <1>1
  <2> QED
    BY <1>1, <2>1, FS_Interval
<1>6. Cardinality(passed) <= Cardinality(slugs)
  BY <1>3, <1>4, FS_Subset
<1>7. Cardinality(Creates) \in Nat /\ Cardinality(slugs) \in Nat
  BY <1>1, <1>3, FS_CardinalityType
<1> QED
  BY <1>1, <1>2, <1>3, <1>5, <1>6, <1>7 DEF Slugs

-----------------------------------------------------------------------------
(* What each step does, row by row and directory by directory.             *)

RowBecomes(p, slug, status) ==
    /\ row' \in [Creates -> Rows]
    /\ \A q \in Creates \ {p} : row'[q] = row[q]
    /\ row'[p].slug = slug /\ row'[p].status = status

CreateAt(p, c) ==
    /\ creating' \in [Creates -> Early \cup Late \cup Ended]
    /\ \A q \in Creates \ {p} : creating'[q] = creating[q]
    /\ creating'[p] = c

DeleteAt(d, at, p) ==
    /\ deleting' \in [Deletes -> Removal]
    /\ \A e \in Deletes \ {d} : deleting'[e] = deleting[e]
    /\ deleting'[d].at = at /\ deleting'[d].of = p

FilesBecome(s, x) ==
    /\ files' \in [Slugs -> SUBSET Creates]
    /\ \A q \in Slugs \ {s} : files'[q] = files[q]
    /\ files'[s] = x

\* What a change of one row leaves.
LEMMA RowEffect ==
    ASSUME ProjectTypes, NEW p \in Creates
    PROVE  /\ \A st \in {"none", "provisioning", "ready", "failed", "gone"} :
                  Leaves(p, st) => RowBecomes(p, row[p].slug, st)
           /\ row' = [row EXCEPT ![p].slug = @ + 1] => RowBecomes(p, row[p].slug + 1, row[p].status)
           /\ UNCHANGED row => RowBecomes(p, row[p].slug, row[p].status)
BY DEF ProjectTypes, Rows, Leaves, RowBecomes

\* What a change of one create request leaves.
LEMMA CreateEffect ==
    ASSUME ProjectTypes, NEW p \in Creates
    PROVE  /\ \A c \in Early \cup Late \cup Ended : At(p, c) => CreateAt(p, c)
           /\ UNCHANGED creating => CreateAt(p, creating[p])
BY DEF ProjectTypes, At, CreateAt

\* What a change of one delete request leaves.
LEMMA DeleteEffect ==
    ASSUME ProjectTypes, NEW d \in Deletes
    PROVE  /\ \A at \in {"off", "read", "removed", "over"} :
                  deleting' = [deleting EXCEPT ![d].at = at] => DeleteAt(d, at, deleting[d].of)
           /\ \A p \in Creates : deleting' = [deleting EXCEPT ![d] = [at |-> "read", of |-> p]]
                  => DeleteAt(d, "read", p)
           /\ UNCHANGED deleting => DeleteAt(d, deleting[d].at, deleting[d].of)
BY DEF ProjectTypes, Removal, DeleteAt

\* What a change of one directory leaves.
LEMMA FilesEffect ==
    ASSUME ProjectTypes, NEW s \in Slugs
    PROVE  /\ files' = [files EXCEPT ![s] = {}] => FilesBecome(s, {})
           /\ \A p \in Creates : files' = [files EXCEPT ![s] = @ \cup {p}]
                  => FilesBecome(s, files[s] \cup {p})
BY DEF ProjectTypes, FilesBecome

\* The steps of a create request.
ProbeDoes(p) ==
    /\ creating[p] \in {"off", "probing"}
    /\ \/ /\ Taken(row[p].slug)
          /\ RowBecomes(p, row[p].slug + 1, row[p].status) /\ CreateAt(p, "probing")
       \/ RowBecomes(p, row[p].slug, row[p].status) /\ CreateAt(p, "inserting")
    /\ UNCHANGED <<deleting, files, leftover>>

InsertDoes(p) ==
    /\ creating[p] = "inserting"
    /\ \/ RowBecomes(p, row[p].slug, row[p].status) /\ CreateAt(p, "slug taken")
       \/ /\ ~Taken(row[p].slug)
          /\ RowBecomes(p, row[p].slug, "provisioning") /\ CreateAt(p, "initializing")
    /\ UNCHANGED <<deleting, files, leftover>>

InitializeDoes(p) ==
    /\ creating[p] = "initializing"
    /\ \/ files[row[p].slug] # {} /\ CreateAt(p, "refusing")
       \/ CreateAt(p, "finishing")
       \/ CreateAt(p, "server error")
    /\ UNCHANGED <<row, deleting, files, leftover>>

UpdateDoes(p) ==
    /\ \/ /\ Exists(p) /\ creating[p] = "refusing"
          /\ RowBecomes(p, row[p].slug, "failed") /\ CreateAt(p, "failed")
       \/ /\ Exists(p) /\ creating[p] = "finishing"
          /\ RowBecomes(p, row[p].slug, "ready") /\ CreateAt(p, "ready")
       \/ /\ creating[p] \in {"refusing", "finishing"}
          /\ RowBecomes(p, row[p].slug, row[p].status) /\ CreateAt(p, "server error")
    /\ UNCHANGED <<deleting, files, leftover>>

WriteDoes(p) ==
    /\ FilesBecome(row[p].slug, files[row[p].slug] \cup {p})
    /\ leftover \subseteq leftover'
    /\ \/ row[p].slug \in leftover'
       \/ /\ creating[p] # "initializing" /\ Exists(p)
          /\ ~\E d \in Deletes : deleting[d].at = "removed" /\ deleting[d].of = p
    /\ UNCHANGED <<row, creating, deleting>>

\* The steps of a delete request of p.
ReadDoes(d, p) ==
    /\ deleting[d].at = "off" /\ Exists(p) /\ DeleteAt(d, "read", p)
    /\ UNCHANGED <<row, creating, files, leftover>>

RemoveDoes(d, p) ==
    /\ deleting[d].at = "read" /\ deleting[d].of = p /\ DeleteAt(d, "removed", p)
    /\ \/ FilesBecome(row[p].slug, {}) /\ leftover' = leftover \ {row[p].slug}
       \/ leftover' = leftover \cup {row[p].slug} /\ UNCHANGED files
    /\ UNCHANGED <<row, creating>>

DropDoes(d, p) ==
    /\ deleting[d].at = "removed" /\ deleting[d].of = p /\ DeleteAt(d, "over", p)
    /\ RowBecomes(p, row[p].slug, "gone") \/ RowBecomes(p, row[p].slug, row[p].status)
    /\ UNCHANGED <<creating, files, leftover>>

\* The requests that were under way end.
DeathDoes ==
    /\ creating' \in [Creates -> Early \cup Late \cup Ended]
    /\ \A p \in Creates : creating'[p] = creating[p] \/ creating'[p] = "died"
    /\ \A p \in Creates : creating'[p] = creating[p] => creating[p] \in Ended \cup {"off"}
    /\ deleting' \in [Deletes -> Removal]
    /\ \A d \in Deletes :
        /\ deleting'[d].of = deleting[d].of
        /\ deleting'[d].at = IF deleting[d].at = "off" THEN "off" ELSE "over"
    /\ UNCHANGED <<row, files, leftover>>

ProjectsStep ==
    \/ \E p \in Creates : ProbeDoes(p) \/ InsertDoes(p) \/ InitializeDoes(p) \/ UpdateDoes(p) \/ WriteDoes(p)
    \/ \E d \in Deletes, p \in Creates : ReadDoes(d, p) \/ RemoveDoes(d, p) \/ DropDoes(d, p)
    \/ DeathDoes
    \/ UNCHANGED <<row, creating, deleting, files, leftover>>

\* Where slugs, rows and requests lie.
LEMMA Ranges ==
    ASSUME ProjectTypes, SlugsInv
    PROVE  /\ \A p \in Creates : /\ row[p].slug \in Slugs /\ row[p].slug \in Nat \ {0}
                                 /\ creating[p] \in Early \cup Late \cup Ended
                                 /\ p # NoProject
           /\ \A d \in Deletes : deleting[d].of \in Creates \cup {NoProject}
           /\ \A s \in Slugs : files[s] \subseteq Creates
BY SlugInRange, ProjectsAssumption DEF ProjectTypes, Rows, Removal

\* A delete request has a project once it has read it.
LEMMA DeletesOne ==
    ASSUME ProjectTypes, DeletesInv, NEW d \in Deletes, deleting[d].at # "off"
    PROVE  deleting[d].of \in Creates
BY DEF ProjectTypes, DeletesInv, Removal

\* Every step is one of these.
LEMMA StepEffect ==
    ASSUME ProjectTypes, DeletesInv, SlugsInv, [ProjectsNext]_projectVars
    PROVE  ProjectsStep
<1>0. \A p \in Creates : row[p].slug \in Slugs /\ row[p].status \in {"none", "provisioning", "ready", "failed", "gone"}
  BY SlugInRange DEF ProjectTypes, Rows
<1>1. ASSUME NEW p \in Creates, Probe(p) PROVE ProbeDoes(p)
  BY <1>1, RowEffect, CreateEffect DEF Probe, ProbeDoes, Early
<1>2. ASSUME NEW p \in Creates, InsertRows(p) PROVE InsertDoes(p)
  BY <1>2, RowEffect, CreateEffect DEF InsertRows, InsertDoes, Late, Ended
<1>3. ASSUME NEW p \in Creates, Initialize(p) PROVE InitializeDoes(p)
  BY <1>3, CreateEffect DEF Initialize, InitializeDoes, Late, Ended
<1>4. ASSUME NEW p \in Creates, Refuse(p) \/ Finish(p) PROVE UpdateDoes(p)
  BY <1>0, <1>4, RowEffect, CreateEffect DEF Refuse, Finish, Update, UpdateDoes, Ended
<1>5. ASSUME NEW p \in Creates, WriteFile(p) PROVE WriteDoes(p)
  <2>1. FilesBecome(row[p].slug, files[row[p].slug] \cup {p})
    BY <1>0, <1>5, FilesEffect DEF WriteFile
  <2>2. ASSUME NEW d \in Deletes, deleting[d].at = "removed", deleting[d].of = p
        PROVE  Untimely(p)
    <3>1. deleting[d] = [at |-> "removed", of |-> p]
      BY <2>2 DEF ProjectTypes, Removal
    <3> QED
      BY <3>1 DEF Untimely
  <2>3. creating[p] = "initializing" \/ ~Exists(p) => Untimely(p)
    BY DEF Untimely
  <2>4. Untimely(p) => row[p].slug \in leftover'
    BY <1>5 DEF WriteFile
  <2>5. leftover \subseteq leftover' /\ UNCHANGED <<row, creating, deleting>>
    BY <1>5 DEF WriteFile
  <2> QED
    BY <2>1, <2>2, <2>3, <2>4, <2>5 DEF WriteDoes
<1>6. ASSUME NEW d \in Deletes, NEW p \in Creates, ReadProject(d, p) PROVE ReadDoes(d, p)
  BY <1>6, DeleteEffect DEF ReadProject, ReadDoes
<1>7. ASSUME NEW d \in Deletes, RemoveDir(d) PROVE \E p \in Creates : RemoveDoes(d, p)
  <2>1. deleting[d].of \in Creates /\ deleting[d].at = "read"
    BY <1>7, DeletesOne DEF RemoveDir
  <2>2. RemoveDoes(d, deleting[d].of)
    BY <1>0, <1>7, <2>1, DeleteEffect, FilesEffect DEF RemoveDir, RemoveDoes
  <2> QED
    BY <2>1, <2>2
<1>8. ASSUME NEW d \in Deletes, DropRows(d) PROVE \E p \in Creates : DropDoes(d, p)
  <2>1. deleting[d].of \in Creates /\ deleting[d].at = "removed"
    BY <1>8, DeletesOne DEF DropRows
  <2>2. DropDoes(d, deleting[d].of)
    BY <1>0, <1>8, <2>1, DeleteEffect, RowEffect DEF DropRows, DropDoes
  <2> QED
    BY <2>1, <2>2
<1>9. CASE ApiDies
  <2>1. \A d \in Deletes : deleting[d] \in Removal
    BY DEF ProjectTypes
  <2>2. deleting' \in [Deletes -> Removal]
    BY <1>9, <2>1 DEF ApiDies, Removal
  <2>3. \A d \in Deletes :
          /\ deleting'[d].of = deleting[d].of
          /\ deleting'[d].at = IF deleting[d].at = "off" THEN "off" ELSE "over"
    BY <1>9, <2>1 DEF ApiDies, Removal
  <2>4. creating' \in [Creates -> Early \cup Late \cup Ended]
    BY <1>9 DEF ApiDies, ProjectTypes, Ended
  <2>5. \A p \in Creates :
          /\ creating'[p] = creating[p] \/ creating'[p] = "died"
          /\ creating'[p] = creating[p] => creating[p] \in Ended \cup {"off"}
    BY <1>9 DEF ApiDies, Ended
  <2>6. UNCHANGED <<row, files, leftover>>
    BY <1>9 DEF ApiDies
  <2> QED
    BY <2>2, <2>3, <2>4, <2>5, <2>6 DEF DeathDoes, ProjectsStep
<1>10. CASE (\E p \in Creates : ReadRow(p)) \/ UNCHANGED projectVars
  BY <1>10 DEF ReadRow, projectVars, ProjectsStep
<1> QED
  BY <1>1, <1>2, <1>3, <1>4, <1>5, <1>6, <1>7, <1>8, <1>9, <1>10
     DEF ProjectsNext, Create, Delete, ProjectsStep

\* Every step keeps the types.
LEMMA TypesStep ==
    ASSUME RowsInv, ProjectsStep PROVE ProjectTypes'
<1> USE Ranges DEF RowsInv, ProjectTypes, CreatesInv
<1> USE DEF RowBecomes, CreateAt, DeleteAt, FilesBecome
<1>1. ASSUME NEW p \in Creates, ProbeDoes(p) PROVE ProjectTypes'
  BY <1>1 DEF ProbeDoes
<1>2. ASSUME NEW p \in Creates, InsertDoes(p) PROVE ProjectTypes'
  BY <1>2 DEF InsertDoes
<1>3. ASSUME NEW p \in Creates, InitializeDoes(p) PROVE ProjectTypes'
  BY <1>3 DEF InitializeDoes
<1>4. ASSUME NEW p \in Creates, UpdateDoes(p) PROVE ProjectTypes'
  BY <1>4 DEF UpdateDoes
<1>5. ASSUME NEW p \in Creates, WriteDoes(p) PROVE ProjectTypes'
  BY <1>5 DEF WriteDoes
<1>6. ASSUME NEW d \in Deletes, NEW p \in Creates, ReadDoes(d, p) PROVE ProjectTypes'
  BY <1>6 DEF ReadDoes
<1>7. ASSUME NEW d \in Deletes, NEW p \in Creates, RemoveDoes(d, p) PROVE ProjectTypes'
  BY <1>7 DEF RemoveDoes
<1>8. ASSUME NEW d \in Deletes, NEW p \in Creates, DropDoes(d, p) PROVE ProjectTypes'
  BY <1>8 DEF DropDoes
<1>9. CASE DeathDoes
  BY <1>9 DEF DeathDoes
<1>10. CASE UNCHANGED <<row, creating, deleting, files, leftover>>
  BY <1>10
<1> QED
  BY <1>1, <1>2, <1>3, <1>4, <1>5, <1>6, <1>7, <1>8, <1>9, <1>10
     DEF ProjectsStep

\* A request that has begun to create has a row in provisioning, or a deleted one.
LEMMA CreatesStep ==
    ASSUME RowsInv, ProjectsStep PROVE CreatesInv'
<1> USE Ranges DEF RowsInv, CreatesInv, DeletesInv, Exists, Early, Late
<1> USE DEF RowBecomes, CreateAt, DeleteAt, FilesBecome
<1>1. ASSUME NEW p \in Creates, ProbeDoes(p) PROVE CreatesInv'
  BY <1>1 DEF ProbeDoes
<1>2. ASSUME NEW p \in Creates, InsertDoes(p) PROVE CreatesInv'
  BY <1>2 DEF InsertDoes
<1>3. ASSUME NEW p \in Creates, InitializeDoes(p) PROVE CreatesInv'
  BY <1>3 DEF InitializeDoes
<1>4. ASSUME NEW p \in Creates, UpdateDoes(p) PROVE CreatesInv'
  BY <1>4 DEF UpdateDoes
<1>5. ASSUME NEW p \in Creates, WriteDoes(p) PROVE CreatesInv'
  BY <1>5 DEF WriteDoes
<1>6. ASSUME NEW d \in Deletes, NEW p \in Creates, ReadDoes(d, p) PROVE CreatesInv'
  BY <1>6 DEF ReadDoes
<1>7. ASSUME NEW d \in Deletes, NEW p \in Creates, RemoveDoes(d, p) PROVE CreatesInv'
  BY <1>7 DEF RemoveDoes
<1>8. ASSUME NEW d \in Deletes, NEW p \in Creates, DropDoes(d, p) PROVE CreatesInv'
  BY <1>8 DEF DropDoes
<1>9. CASE DeathDoes
  BY <1>9 DEF DeathDoes
<1>10. CASE UNCHANGED <<row, creating, deleting, files, leftover>>
  BY <1>10
<1> QED
  BY <1>1, <1>2, <1>3, <1>4, <1>5, <1>6, <1>7, <1>8, <1>9, <1>10
     DEF ProjectsStep

\* A delete request keeps the project it has read.
LEMMA DeletesStep ==
    ASSUME RowsInv, ProjectsStep PROVE DeletesInv'
<1> USE Ranges DEF RowsInv, DeletesInv, CreatesInv, Exists, Early, Late
<1> USE DEF RowBecomes, CreateAt, DeleteAt, FilesBecome
<1>1. ASSUME NEW p \in Creates, ProbeDoes(p) PROVE DeletesInv'
  BY <1>1 DEF ProbeDoes
<1>2. ASSUME NEW p \in Creates, InsertDoes(p) PROVE DeletesInv'
  BY <1>2 DEF InsertDoes
<1>3. ASSUME NEW p \in Creates, InitializeDoes(p) PROVE DeletesInv'
  BY <1>3 DEF InitializeDoes
<1>4. ASSUME NEW p \in Creates, UpdateDoes(p) PROVE DeletesInv'
  BY <1>4 DEF UpdateDoes
<1>5. ASSUME NEW p \in Creates, WriteDoes(p) PROVE DeletesInv'
  BY <1>5 DEF WriteDoes
<1>6. ASSUME NEW d \in Deletes, NEW p \in Creates, ReadDoes(d, p) PROVE DeletesInv'
  BY <1>6 DEF ReadDoes
<1>7. ASSUME NEW d \in Deletes, NEW p \in Creates, RemoveDoes(d, p) PROVE DeletesInv'
  BY <1>7 DEF RemoveDoes
<1>8. ASSUME NEW d \in Deletes, NEW p \in Creates, DropDoes(d, p) PROVE DeletesInv'
  BY <1>8 DEF DropDoes
<1>9. CASE DeathDoes
  BY <1>9 DEF DeathDoes
<1>10. CASE UNCHANGED <<row, creating, deleting, files, leftover>>
  BY <1>10
<1> QED
  BY <1>1, <1>2, <1>3, <1>4, <1>5, <1>6, <1>7, <1>8, <1>9, <1>10
     DEF ProjectsStep

\* A row that was written keeps its slug; only an INSERT makes a project exist.
LEMMA RowsKept ==
    ASSUME RowsInv, ProjectsStep
    PROVE  /\ \A q \in Creates : row[q].status # "none" =>
                  row'[q].slug = row[q].slug /\ row'[q].status # "none"
           /\ \A q \in Creates : Exists(q)' =>
                  \/ Exists(q)
                  \/ /\ creating[q] = "inserting" /\ ~Taken(row[q].slug)
                     /\ row'[q].slug = row[q].slug
                     /\ \A p \in Creates \ {q} : row'[p] = row[p]
           /\ \A q \in Creates : \/ row'[q].slug = row[q].slug
                                 \/ row'[q].slug = row[q].slug + 1 /\ Taken(row[q].slug)
<1> USE Ranges DEF RowsInv, CreatesInv, DeletesInv, Exists, Early, Late, RowBecomes, CreateAt
<1>1. CASE \E p \in Creates : ProbeDoes(p)
  BY <1>1 DEF ProbeDoes
<1>2. CASE \E p \in Creates : InsertDoes(p)
  BY <1>2 DEF InsertDoes
<1>3. CASE \E p \in Creates : UpdateDoes(p)
  BY <1>3 DEF UpdateDoes
<1>4. CASE \E d \in Deletes, p \in Creates : DropDoes(d, p)
  BY <1>4 DEF DropDoes
<1>5. CASE UNCHANGED row
  BY <1>5
<1> QED
  BY <1>1, <1>2, <1>3, <1>4, <1>5
     DEF ProjectsStep, InitializeDoes, WriteDoes, ReadDoes, RemoveDoes, DeathDoes

\* A new row has a slug no other has; a probe moves past a slug that is taken.
LEMMA SlugsStep ==
    ASSUME RowsInv, ProjectsStep PROVE SlugsInv'
<1>1. ASSUME NEW p \in Creates, NEW q \in Creates,
             Exists(p)', Exists(q)', row'[p].slug = row'[q].slug
      PROVE  p = q
  <2>1. CASE Exists(p) /\ Exists(q)
    <3>1. row[p].slug = row[q].slug
      BY <1>1, <2>1, RowsKept DEF Exists
    <3> QED
      BY <2>1, <3>1 DEF RowsInv, SlugsInv
  <2>2. ASSUME NEW x \in Creates, NEW y \in Creates, ~Exists(x), Exists(x)', Exists(y)',
               row'[x].slug = row'[y].slug, x # y
        PROVE  FALSE
    <3>1. ~Taken(row[x].slug) /\ row'[x].slug = row[x].slug /\ row'[y] = row[y]
      BY <2>2, RowsKept
    <3> QED
      BY <2>2, <3>1 DEF Taken, Exists
  <2> QED
    BY <1>1, <2>1, <2>2
<1>2. ASSUME NEW p \in Creates, NEW s \in 1..(row'[p].slug - 1)
      PROVE  \E q \in Creates \ {p} : row'[q].slug = s /\ row'[q].status # "none"
  <2>1. \E q \in Creates \ {p} : row[q].slug = s /\ row[q].status # "none"
    <3>1. CASE s \in 1..(row[p].slug - 1)
      BY <3>1 DEF RowsInv, SlugsInv
    <3>2. CASE s \notin 1..(row[p].slug - 1)
      <4>1. /\ row[p].slug \in Nat \ {0} /\ row'[p].slug # row[p].slug
            /\ row'[p].slug = row[p].slug + 1 /\ Taken(row[p].slug)
        BY <1>2, <3>2, RowsKept, Ranges DEF RowsInv
      <4>2. s = row[p].slug
        BY <1>2, <3>2, <4>1
      <4>3. row[p].status = "none"
        BY <4>1, RowsKept
      <4> QED
        BY <4>1, <4>2, <4>3 DEF Taken, Exists
    <3> QED
      BY <3>1, <3>2
  <2> QED
    BY <2>1, RowsKept
<1> QED
  BY <1>1, <1>2 DEF SlugsInv, Exists

-----------------------------------------------------------------------------
\* The files of a directory are as they were, or one more, or none at all; a slug
\* ceases to be left over when its directory is removed.
LEMMA FilesKept ==
    ASSUME RowsInv, ProjectsStep, NEW s \in Slugs, NEW q \in files'[s], s \notin leftover'
    PROVE  \/ q \in files[s] /\ s \notin leftover
           \/ WriteDoes(q) /\ row[q].slug = s
<1> USE Ranges DEF RowsInv
<1>1. ASSUME NEW p \in Creates, WriteDoes(p)
      PROVE  (q \in files[s] /\ s \notin leftover) \/ (WriteDoes(q) /\ row[q].slug = s)
  BY <1>1 DEF WriteDoes, FilesBecome
<1>2. ASSUME NEW d \in Deletes, NEW p \in Creates, RemoveDoes(d, p)
      PROVE  q \in files[s] /\ s \notin leftover
  BY <1>2 DEF RemoveDoes, FilesBecome
<1>3. CASE UNCHANGED <<files, leftover>>
  BY <1>3
<1> QED
  BY <1>1, <1>2, <1>3
     DEF ProjectsStep, ProbeDoes, InsertDoes, InitializeDoes, UpdateDoes, ReadDoes, DropDoes, DeathDoes

\* A project keeps its slug, and whoever has files in its place loses its row or its
\* directory only by a delete that has gone as far.
LEMMA PlaceKept ==
    ASSUME RowsInv, ProjectsStep, NEW q \in Creates, NEW s \in Slugs,
           row[q].slug = s, Exists(q), creating[q] # "initializing",
           ~\E d \in Deletes : deleting[d].at = "removed" /\ deleting[d].of = q,
           q \in files'[s], s \notin leftover'
    PROVE  /\ row'[q].slug = s /\ Exists(q)' /\ creating'[q] # "initializing"
           /\ ~\E d \in Deletes : deleting'[d].at = "removed" /\ deleting'[d].of = q
<1> USE Ranges DEF RowsInv
<1>1. row'[q].slug = s
  BY RowsKept DEF Exists
<1>2. Exists(q)'
  <2>1. ASSUME NEW p \in Creates, ProbeDoes(p) \/ InsertDoes(p) \/ UpdateDoes(p)
        PROVE  Exists(q)'
    <3>1. CASE p = q
      BY <2>1, <3>1 DEF ProbeDoes, InsertDoes, UpdateDoes, RowBecomes, Exists
    <3>2. CASE p # q
      BY <2>1, <3>2 DEF ProbeDoes, InsertDoes, UpdateDoes, RowBecomes, Exists
    <3> QED
      BY <3>1, <3>2
  <2>2. ASSUME NEW d \in Deletes, NEW p \in Creates, DropDoes(d, p)
        PROVE  Exists(q)'
    BY <2>2 DEF DropDoes, RowBecomes, Exists
  <2>3. CASE UNCHANGED row
    BY <2>3 DEF Exists
  <2> QED
    BY <2>1, <2>2, <2>3
       DEF ProjectsStep, InitializeDoes, WriteDoes, ReadDoes, RemoveDoes, DeathDoes
<1>3. creating'[q] # "initializing"
  <2>1. ASSUME NEW p \in Creates, ProbeDoes(p) \/ InitializeDoes(p) \/ UpdateDoes(p)
        PROVE  creating'[q] # "initializing"
    BY <2>1 DEF ProbeDoes, InitializeDoes, UpdateDoes, CreateAt
  <2>2. ASSUME NEW p \in Creates, InsertDoes(p)
        PROVE  creating'[q] # "initializing"
    BY <2>2 DEF InsertDoes, CreateAt, CreatesInv, Early, Exists
  <2>3. CASE DeathDoes
    BY <2>3 DEF DeathDoes
  <2>4. CASE UNCHANGED creating
    BY <2>4
  <2> QED
    BY <2>1, <2>2, <2>3, <2>4
       DEF ProjectsStep, WriteDoes, ReadDoes, RemoveDoes, DropDoes
<1>4. ASSUME NEW d \in Deletes, deleting'[d].at = "removed", deleting'[d].of = q
      PROVE  FALSE
  <2>1. ASSUME NEW e \in Deletes, NEW p \in Creates, ReadDoes(e, p) \/ DropDoes(e, p)
        PROVE  FALSE
    BY <1>4, <2>1 DEF ReadDoes, DropDoes, DeleteAt
  <2>2. ASSUME NEW e \in Deletes, NEW p \in Creates, RemoveDoes(e, p)
        PROVE  FALSE
    BY <1>4, <2>2 DEF RemoveDoes, DeleteAt, FilesBecome
  <2>3. CASE DeathDoes
    BY <1>4, <2>3 DEF DeathDoes
  <2>4. CASE UNCHANGED deleting
    BY <1>4, <2>4
  <2> QED
    BY <2>1, <2>2, <2>3, <2>4
       DEF ProjectsStep, ProbeDoes, InsertDoes, InitializeDoes, UpdateDoes, WriteDoes
<1> QED
  BY <1>1, <1>2, <1>3, <1>4

\* Files that are not left over stay those of the project whose directory it is.
LEMMA FilesStep ==
    ASSUME ProjectsInv, ProjectsStep, RowsInv' PROVE FilesInv'
<1> SUFFICES ASSUME NEW s \in Slugs, NEW q \in files'[s], s \notin leftover'
             PROVE  /\ row'[q].slug = s /\ Exists(q)' /\ creating'[q] # "initializing"
                    /\ ~\E d \in Deletes : deleting'[d].at = "removed" /\ deleting'[d].of = q
  BY DEF FilesInv
<1>1. q \in Creates
  BY DEF RowsInv, ProjectTypes
<1>2. CASE q \in files[s] /\ s \notin leftover
  <2>1. /\ row[q].slug = s /\ Exists(q) /\ creating[q] # "initializing"
        /\ ~\E d \in Deletes : deleting[d].at = "removed" /\ deleting[d].of = q
    BY <1>2 DEF ProjectsInv, FilesInv
  <2> QED
    BY <1>1, <2>1, PlaceKept DEF ProjectsInv
<1>3. CASE WriteDoes(q) /\ row[q].slug = s
  BY <1>3 DEF WriteDoes, Exists
<1> QED
  BY <1>2, <1>3, FilesKept DEF ProjectsInv

-----------------------------------------------------------------------------
\* Every step keeps the invariants of the rows, in whichever half of the module it is.
LEMMA RowsInvStep ==
    ASSUME RowsInv, [Next]_vars PROVE ProjectsStep /\ RowsInv'
<1>1. [ProjectsNext]_projectVars
  BY DEF Next, vars
<1>2. ProjectsStep
  BY <1>1, StepEffect DEF RowsInv
<1> QED
  BY <1>2, TypesStep, CreatesStep, DeletesStep, SlugsStep DEF RowsInv

\* The same for the whole invariant.
LEMMA ProjectsInvStep ==
    ASSUME ProjectsInv, [Next]_vars PROVE ProjectsInv'
<1>1. RowsInv
  BY DEF ProjectsInv
<1>2. ProjectsStep /\ RowsInv'
  BY <1>1, RowsInvStep
<1> QED
  BY <1>2, FilesStep DEF ProjectsInv

\* Before any request there is no row.
LEMMA FirstRows ==
    ASSUME Init
    PROVE  /\ RowsInv
           /\ \A p \in Creates : /\ row[p].status = "none" /\ creating[p] = "off"
<1>1. [slug |-> 1, status |-> "none"] \in Rows
  BY DEF Rows
<1>2. row = [p \in Creates |-> [slug |-> 1, status |-> "none"]]
  BY DEF Init, ProjectsInit
<1>3. row \in [Creates -> Rows] /\ \A p \in Creates : row[p] = [slug |-> 1, status |-> "none"]
  BY <1>1, <1>2, Zenon
<1>4. ProjectTypes
  <2>1. deleting \in [Deletes -> Removal]
    BY DEF Init, ProjectsInit, Removal
  <2>2. creating \in [Creates -> Early \cup Late \cup Ended]
    BY DEF Init, ProjectsInit, Early
  <2>3. files \in [Slugs -> SUBSET Creates]
    BY DEF Init, ProjectsInit
  <2> QED
    BY <1>3, <2>1, <2>2, <2>3 DEF ProjectTypes
<1>5. \A p \in Creates : row[p].status = "none" /\ row[p].slug = 1 /\ creating[p] = "off"
  BY <1>3 DEF Init, ProjectsInit
<1>6. \A p \in Creates : ~Exists(p) /\ 1..(row[p].slug - 1) = {}
  BY <1>5 DEF Exists
<1>7. SlugsInv
  BY <1>6 DEF SlugsInv
<1>8. CreatesInv
  BY <1>5 DEF CreatesInv, Late
<1>9. DeletesInv
  BY DEF DeletesInv, Init, ProjectsInit
<1> QED
  BY <1>4, <1>5, <1>7, <1>8, <1>9 DEF RowsInv

\* The inductive invariant of rows and requests.
THEOREM RowsInvHolds == Spec => []RowsInv
<1>1. Init => RowsInv
  BY FirstRows
<1>2. RowsInv /\ [Next]_vars => RowsInv'
  BY RowsInvStep
<1> QED
  BY <1>1, <1>2, PTL DEF Spec

\* The inductive invariant of projects, their files and requests.
THEOREM ProjectsInvHolds == Spec => []ProjectsInv
<1>1. Init => ProjectsInv
  BY FirstRows DEF ProjectsInv, FilesInv, Init, ProjectsInit
<1>2. ProjectsInv /\ [Next]_vars => ProjectsInv'
  BY ProjectsInvStep
<1> QED
  BY <1>1, <1>2, PTL DEF Spec

\* initialize_workspace: whoever creates, deletes, writes and fails, a project that
\* exists is refused its directory only when the last rmtree there left files, or
\* somebody wrote to it before it was made or after it was removed.
THEOREM RefusedOnlyLeftoversHolds == Spec => RefusedOnlyLeftovers
<1> DEFINE Refused == \A p \in Creates :
               creating[p] = "initializing" /\ creating'[p] = "refusing" /\ Exists(p)
               => row[p].slug \in leftover
<1>1. ASSUME ProjectsInv, [Next]_vars PROVE Refused
  <2>1. SUFFICES ASSUME NEW p \in Creates, creating[p] = "initializing",
                        creating'[p] = "refusing", Exists(p), row[p].slug \notin leftover
                 PROVE  FALSE
    OBVIOUS
  <2>2. RowsInv /\ ProjectsStep
    BY <1>1, RowsInvStep DEF ProjectsInv
  <2>3. files[row[p].slug] # {}
    <3>1. ASSUME NEW c \in Creates, ProbeDoes(c) \/ InsertDoes(c) \/ UpdateDoes(c) PROVE FALSE
      BY <2>1, <3>1 DEF ProbeDoes, InsertDoes, UpdateDoes, CreateAt
    <3>2. ASSUME NEW c \in Creates, InitializeDoes(c) PROVE files[row[p].slug] # {}
      BY <2>1, <3>2 DEF InitializeDoes, CreateAt
    <3> QED
      BY <2>1, <2>2, <3>1, <3>2
         DEF ProjectsStep, WriteDoes, ReadDoes, RemoveDoes, DropDoes, DeathDoes
  <2>4. PICK q \in files[row[p].slug] : TRUE
    BY <2>3
  <2>5. row[p].slug \in Slugs /\ q \in Creates
    BY <2>2, <2>4, Ranges DEF RowsInv
  <2>6. row[q].slug = row[p].slug /\ Exists(q) /\ creating[q] # "initializing"
    BY <1>1, <2>1, <2>4, <2>5 DEF ProjectsInv, FilesInv
  <2>7. q = p
    BY <2>1, <2>2, <2>5, <2>6 DEF RowsInv, SlugsInv
  <2> QED
    BY <2>1, <2>6, <2>7
<1>2. ProjectsInv /\ [Next]_vars => [Refused]_vars
  BY <1>1
<1> QED
  BY <1>2, ProjectsInvHolds, PTL DEF Spec, RefusedOnlyLeftovers

\* delete_project: the files of a ready project are removed by a delete of it, or by
\* a delete of an earlier project of its slug that another delete has overtaken.
THEOREM FilesSurviveHolds == Spec => FilesSurvive
<1> DEFINE Survive == \A p \in Creates :
               row[p].status = "ready" /\ p \in files[row[p].slug] /\ p \notin files'[row[p].slug]
               => \E d \in Deletes :
                    /\ deleting[d].at = "read"
                    /\ \/ deleting[d].of = p
                       \/ Overtaken(d) /\ row[deleting[d].of].slug = row[p].slug
<1>1. ASSUME RowsInv, [Next]_vars PROVE Survive
  <2>1. SUFFICES ASSUME NEW p \in Creates, row[p].status = "ready",
                        p \in files[row[p].slug], p \notin files'[row[p].slug]
                 PROVE  \E d \in Deletes :
                          /\ deleting[d].at = "read"
                          /\ \/ deleting[d].of = p
                             \/ Overtaken(d) /\ row[deleting[d].of].slug = row[p].slug
    OBVIOUS
  <2>2. ProjectsStep /\ row[p].slug \in Slugs
    BY <1>1, RowsInvStep, Ranges DEF RowsInv
  <2>3. ASSUME NEW c \in Creates, WriteDoes(c) PROVE FALSE
    <3>1. row[c].slug \in Slugs
      BY <1>1, Ranges DEF RowsInv
    <3> QED
      BY <2>1, <2>2, <2>3, <3>1 DEF WriteDoes, FilesBecome
  <2>4. PICK d \in Deletes, q \in Creates : RemoveDoes(d, q)
    BY <2>1, <2>2, <2>3
       DEF ProjectsStep, ProbeDoes, InsertDoes, InitializeDoes, UpdateDoes, ReadDoes, DropDoes, DeathDoes
  <2>5. deleting[d].at = "read" /\ deleting[d].of = q
    BY <2>4 DEF RemoveDoes
  <2>6. row[q].slug = row[p].slug
    BY <2>1, <2>2, <2>4 DEF RemoveDoes, FilesBecome
  <2>7. CASE Exists(q)
    <3>1. q = p
      BY <1>1, <2>1, <2>6, <2>7 DEF RowsInv, SlugsInv, Exists
    <3> QED
      BY <2>5, <3>1
  <2>8. CASE ~Exists(q)
    BY <2>5, <2>6, <2>8 DEF Overtaken
  <2> QED
    BY <2>7, <2>8
<1>2. RowsInv /\ [Next]_vars => [Survive]_vars
  BY <1>1
<1> QED
  BY <1>2, RowsInvHolds, PTL DEF Spec, FilesSurvive

-----------------------------------------------------------------------------
Code == [made : Nat, used : BOOLEAN]
Tab  == [step : {"email", "invite", "code", "in"},
         doing : {"nothing", "ask", "make", "found", "used", "create", "commit new", "commit old"},
         code : Nat]

CodesInv ==
    /\ now \in Nat /\ codes \in Seq(Code) /\ logins \in Seq(Nat) /\ mailbox \subseteq Nat
    /\ tab \in [Tabs -> Tab]
    /\ UsedCodeLetIn

\* A sign-in commits the code it has used and the answer together.
LEMMA CommitCode ==
    ASSUME CodesInv, NEW t \in Tabs, CommitLogin(t) PROVE CodesInv'
<1> DEFINE k == tab[t].code
<1>0. k \in Nat
  BY DEF CodesInv, Tab
<1>1. /\ Len(codes') = Len(codes) /\ codes' \in Seq(Code)
      /\ \A i \in 1..Len(codes) : i # k => codes'[i] = codes[i]
  <2>0. DOMAIN codes = 1..Len(codes) /\ \A i \in 1..Len(codes) : codes[i] \in Code
    BY DEF CodesInv
  <2>1. codes' = [i \in 1..Len(codes) |-> IF i = k THEN [codes[i] EXCEPT !.used = TRUE] ELSE codes[i]]
    BY <2>0, Zenon DEF CommitLogin
  <2>2. \A c \in Code : [c EXCEPT !.used = TRUE] \in Code
    BY DEF Code
  <2>3. Len(codes) \in Nat
    BY DEF CodesInv
  <2> HIDE DEF k
  <2> QED
    BY <2>0, <2>1, <2>2, <2>3
<1>2. /\ logins' \in Seq(Nat) /\ Len(logins') = Len(logins) + 1
      /\ logins'[Len(logins) + 1] = k
      /\ \A i \in 1..Len(logins) : logins'[i] = logins[i]
  <2>1. logins' = Append(logins, k) /\ logins \in Seq(Nat)
    BY DEF CommitLogin, CodesInv
  <2> HIDE DEF k
  <2> QED
    BY <1>0, <2>1
<1>3. now' \in Nat /\ tab' \in [Tabs -> Tab] /\ mailbox' \subseteq Nat
  <2>1. tab \in [Tabs -> Tab] /\ Put(t, "in", "nothing") /\ UNCHANGED <<now, mailbox>>
    BY DEF CommitLogin, CodesInv
  <2>2. tab' \in [Tabs -> Tab]
    BY <2>1 DEF Put, Tab
  <2> QED
    BY <2>1, <2>2 DEF CodesInv
<1>4. ASSUME NEW i \in DOMAIN codes', codes'[i].used
      PROVE  \E n \in DOMAIN logins' : logins'[n] = i
  <2>0. i \in 1..Len(codes) /\ Len(logins) \in Nat
    BY <1>1 DEF CodesInv
  <2>1. CASE i = k
    BY <1>2, <2>0, <2>1
  <2>2. CASE i # k
    <3>1. PICK n \in DOMAIN logins : logins[n] = i
      BY <1>1, <1>4, <2>0, <2>2 DEF CodesInv, UsedCodeLetIn
    <3>2. n \in 1..Len(logins)
      BY <3>1 DEF CodesInv
    <3>3. n \in DOMAIN logins' /\ logins'[n] = i
      BY <1>2, <2>0, <3>1, <3>2
    <3> QED
      BY <3>3
  <2> QED
    BY <2>1, <2>2
<1> QED
  BY <1>1, <1>2, <1>3, <1>4 DEF CodesInv, UsedCodeLetIn

\* Every other step of a sign-in leaves codes and answers alone, or adds a code.
LEMMA CodesStep == ASSUME CodesInv, [AccountsNext]_accountVars PROVE CodesInv'
<1>1. ASSUME NEW t \in Tabs, MakeCode(t) PROVE CodesInv'
  <2>1. /\ codes' \in Seq(Code) /\ Len(codes') = Len(codes) + 1
        /\ ~codes'[Len(codes) + 1].used
        /\ \A i \in 1..Len(codes) : codes'[i] = codes[i]
    BY <1>1 DEF MakeCode, CodesInv, Code
  <2>2. UNCHANGED <<now, logins>> /\ tab' \in [Tabs -> Tab]
    <3>1. UNCHANGED <<now, logins>> /\ Put(t, "code", "nothing") /\ tab \in [Tabs -> Tab]
      BY <1>1 DEF MakeCode, CodesInv
    <3> QED
      BY <3>1 DEF Put, Tab
  <2>3. mailbox' \subseteq Nat
    BY <1>1, <2>1 DEF MakeCode, CodesInv
  <2>4. ASSUME NEW i \in DOMAIN codes', codes'[i].used
        PROVE  \E n \in DOMAIN logins' : logins'[n] = i
    <3>1. Len(codes) \in Nat /\ DOMAIN codes = 1..Len(codes) /\ DOMAIN codes' = 1..(Len(codes) + 1)
      BY <2>1 DEF CodesInv
    <3>2. i \in 1..Len(codes)
      BY <2>1, <2>4, <3>1
    <3>3. codes[i].used
      BY <2>1, <2>4, <3>2
    <3>4. \E n \in DOMAIN logins : logins[n] = i
      BY <3>1, <3>2, <3>3 DEF CodesInv, UsedCodeLetIn
    <3> QED
      BY <2>2, <3>4
  <2> QED
    BY <2>1, <2>2, <2>3, <2>4 DEF CodesInv, UsedCodeLetIn
<1>2. ASSUME NEW t \in Tabs, CommitLogin(t) PROVE CodesInv'
  BY <1>2, CommitCode
<1>3. ASSUME UNCHANGED <<codes, logins, mailbox>>, now' \in Nat, tab' \in [Tabs -> Tab]
      PROVE  CodesInv'
  BY <1>3 DEF CodesInv, UsedCodeLetIn
<1>4. ASSUME NEW t \in Tabs,
             Ask(t) \/ CheckAsk(t) \/ MarkUsed(t) \/ DevLogin(t) \/ FindAccount(t)
                 \/ CreateAccount(t) \/ SignInFails(t) \/ Logout(t)
      PROVE  CodesInv'
  <2>1. UNCHANGED <<now, codes, mailbox, logins>>
    BY <1>4 DEF Ask, CheckAsk, MarkUsed, DevLogin, FindAccount, CreateAccount, SignInFails, Logout
  <2>2. tab[t] \in Tab /\ tab[t].step \in {"email", "invite", "code", "in"} /\ tab[t].code \in Nat
    BY DEF CodesInv, Tab
  <2>3. ASSUME Ask(t) PROVE tab' \in [Tabs -> Tab]
    BY <2>2, <2>3 DEF Ask, Put, CodesInv, Tab
  <2>4. ASSUME CheckAsk(t) PROVE tab' \in [Tabs -> Tab]
    <3>1. \/ Put(t, "invite", "nothing") \/ Put(t, tab[t].step, "nothing")
          \/ Put(t, tab[t].step, "make")
      BY <2>4 DEF CheckAsk
    <3>2. CASE Put(t, "invite", "nothing")
      BY <2>2, <3>2 DEF Put, CodesInv, Tab
    <3>3. CASE Put(t, tab[t].step, "nothing")
      BY <2>2, <3>3 DEF Put, CodesInv, Tab
    <3>4. CASE Put(t, tab[t].step, "make")
      BY <2>2, <3>4 DEF Put, CodesInv, Tab
    <3> QED
      BY <3>1, <3>2, <3>3, <3>4
  <2>5. ASSUME MarkUsed(t) PROVE tab' \in [Tabs -> Tab]
    BY <2>2, <2>5 DEF MarkUsed, Put, CodesInv, Tab
  <2>6. ASSUME FindAccount(t) PROVE tab' \in [Tabs -> Tab]
    BY <2>2, <2>6 DEF FindAccount, Put, CodesInv, Tab
  <2>7. ASSUME CreateAccount(t) PROVE tab' \in [Tabs -> Tab]
    BY <2>2, <2>7 DEF CreateAccount, Put, CodesInv, Tab
  <2>8. ASSUME DevLogin(t) PROVE tab' \in [Tabs -> Tab]
    BY <2>2, <2>8 DEF DevLogin, CodesInv, Tab
  <2>9. ASSUME Logout(t) PROVE tab' \in [Tabs -> Tab]
    BY <2>2, <2>9 DEF Logout, Blank, CodesInv, Tab
  <2>10. ASSUME SignInFails(t) PROVE tab' \in [Tabs -> Tab]
    BY <2>2, <2>10 DEF SignInFails, Put, CodesInv, Tab
  <2> QED
    BY <1>3, <1>4, <2>1, <2>3, <2>4, <2>5, <2>6, <2>7, <2>8, <2>9, <2>10 DEF CodesInv
<1>5. ASSUME NEW t \in Tabs, NEW k \in mailbox, TypeCode(t, k) PROVE CodesInv'
  <2>1. UNCHANGED <<now, codes, mailbox, logins>> /\ k \in Nat
    BY <1>5 DEF TypeCode, CodesInv
  <2> QED
    BY <1>3, <1>5, <2>1 DEF TypeCode, CodesInv, Tab
<1>6. CASE Tick
  BY <1>3, <1>6 DEF Tick, CodesInv
<1>7. CASE UNCHANGED accountVars
  BY <1>3, <1>7 DEF accountVars, CodesInv
<1> QED
  BY <1>1, <1>2, <1>4, <1>5, <1>6, <1>7 DEF AccountsNext, SignIn

\* verify_code: whatever the tabs do, and whichever statement of a sign-in fails, a
\* code is used up only by a sign-in that was answered ok.
THEOREM UsedCodeLetInHolds == Spec => []UsedCodeLetIn
<1>1. Init => CodesInv
  <2> SUFFICES ASSUME Init PROVE CodesInv
    OBVIOUS
  <2>1. Blank \in Tab
    BY DEF Blank, Tab
  <2>2. tab \in [Tabs -> Tab]
    BY <2>1 DEF Init, AccountsInit
  <2>3. codes = <<>> /\ logins = <<>> /\ mailbox = {} /\ now = 0
    BY DEF Init, AccountsInit
  <2>4. DOMAIN codes = {}
    BY <2>3
  <2> QED
    BY <2>2, <2>3, <2>4 DEF CodesInv, UsedCodeLetIn
<1>2. CodesInv /\ [Next]_vars => CodesInv'
  BY CodesStep DEF Next, vars
<1>3. CodesInv => UsedCodeLetIn
  BY DEF CodesInv
<1> QED
  BY <1>1, <1>2, <1>3, PTL DEF Spec
=============================================================================
