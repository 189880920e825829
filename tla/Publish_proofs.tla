---------------------------- MODULE Publish_proofs ----------------------------
(***************************************************************************)
(* What holds of Publish for any publishes and rollbacks of a project, any *)
(* number of edits, failing transactions and deaths of the API; and of the *)
(* polaris CLI, whose specification implements that of Publish: what the   *)
(* one who follows a publish is shown, the secrets of the site, and the    *)
(* dependency of the workspace, for any calls.                             *)
(***************************************************************************)
EXTENDS PolarisCli, SequenceTheorems, FiniteSetTheorems, WellFoundedInduction, TLAPS

-----------------------------------------------------------------------------
(* The inductive invariant *)

\* A job whose row is ready has nothing left to do, and supersedes only what it
\* has seen ready.
ReadyIsOver ==
    \A j \in Jobs :
        /\ row[j] = "ready" => at[j] = "over"
        /\ prior[j] \subseteq Ready

\* The ready rows are numbered in the order of their commits; the last number is
\* taken, and a row that is superseded points to a greater one.
ChainNumbered ==
    /\ \A j \in Ready : readyAt[j] <= Cardinality(Ready)
    /\ Ready # {} => \E j \in Ready : readyAt[j] = Cardinality(Ready)
    /\ \A j \in Jobs : superseded[j] # NoJob =>
          /\ {j, superseded[j]} \subseteq Ready
          /\ readyAt[j] < readyAt[superseded[j]]

\* A job has its commit before it archives, builds or promotes it.
CommitFixed ==
    \A j \in Jobs :
        \/ row[j] = "ready"
        \/ at[j] \in {"archive", "build", "preview", "probe", "down", "give_up",
                      "push", "write"} \cup Promoting
        => hash[j] # 0

\* An image is smoked before anything may be promoted from it.
SmokedFirst ==
    /\ \A j \in Jobs :
          \/ row[j] = "ready"
          \/ at[j] \in {"down", "push", "write"} \cup Promoting
          => hash[j] \in smoked
    /\ {files.image, live.image} \subseteq smoked \cup {0}

PublishInv == ReadyIsOver /\ ChainNumbered /\ CommitFixed /\ SmokedFirst

-----------------------------------------------------------------------------
(* Types *)

\* What a job writes are compose files.
LEMMA FilesOfType ==
    ASSUME TypeOK, NEW j \in Jobs
    PROVE  FilesOf(j) \in [image : Commits \cup {0}, hostPorts : BOOLEAN]
<1>1. hash[j] \in Commits \cup {0}
  BY DEF TypeOK
<1> QED
  BY <1>1 DEF FilesOf

\* The types are kept, given that a job that archives, builds or promotes has a commit.
LEMMA TypeStep == TypeOK /\ CommitFixed /\ [Next]_vars => TypeOK'
<1> SUFFICES ASSUME TypeOK, CommitFixed, [Next]_vars PROVE TypeOK'
  OBVIOUS
<1> USE PublishAssumption DEF TypeOK, Jobs, Commits, InFlight, Ended, JobState
<1>1. ASSUME NEW j \in Publishes, CheckInFlight(j) PROVE TypeOK'
  BY <1>1 DEF CheckInFlight, Goto, rowVars, siteVars, budgetVars
<1>2. ASSUME NEW j \in Publishes, InsertDeployment(j) PROVE TypeOK'
  BY <1>2 DEF InsertDeployment, Goto, siteVars, budgetVars
<1>3. ASSUME NEW j \in Publishes, Prepare(j) PROVE TypeOK'
  BY <1>3 DEF Prepare, Goto, siteVars, budgetVars
<1>4. ASSUME NEW j \in Publishes, Archive(j) PROVE TypeOK'
  <2>1. hash[j] \in Commits
    BY <1>4 DEF Archive, Goto, CommitFixed
  <2> QED
    BY <1>4, <2>1 DEF Archive, ArchivesLeft, Goto, siteVars, budgetVars
<1>5. ASSUME NEW j \in Publishes, Build(j) PROVE TypeOK'
  BY <1>5 DEF Build, Goto, siteVars, budgetVars
<1>6. ASSUME NEW j \in Publishes, StartPreview(j) PROVE TypeOK'
  <2>1. hash[j] \in Commits
    BY <1>6 DEF StartPreview, Goto, CommitFixed
  <2> QED
    BY <1>6, <2>1 DEF StartPreview, Goto, rowVars, siteVars, budgetVars
<1>7. ASSUME NEW j \in Publishes, Probe(j) PROVE TypeOK'
  <2>1. hash[j] \in Commits
    BY <1>7 DEF Probe, Goto, CommitFixed
  <2> QED
    BY <1>7, <2>1 DEF Probe, Goto, rowVars, siteVars, budgetVars
<1>8. ASSUME NEW j \in Publishes, StopPreview(j) PROVE TypeOK'
  BY <1>8 DEF StopPreview, Goto, rowVars, siteVars, budgetVars
<1>9. ASSUME NEW j \in Publishes, Push(j) PROVE TypeOK'
  BY <1>9 DEF Push, Goto, rowVars, siteVars, budgetVars
<1>10. ASSUME NEW j \in Rollbacks, RollBack(j) PROVE TypeOK'
  BY <1>10 DEF RollBack, Ready, Goto, siteVars, budgetVars
<1>11. ASSUME NEW j \in Jobs, WriteFiles(j) PROVE TypeOK'
  BY <1>11 DEF WriteFiles, FilesOf, Promoting, Goto, rowVars, budgetVars
<1>12. ASSUME NEW j \in Jobs, ComposeUp(j) PROVE TypeOK'
  <2>1. live' \in [image : Commits \cup {0}, hostPorts : BOOLEAN]
    BY <1>12, FilesOfType DEF ComposeUp
  <2> QED
    BY <1>12, <2>1 DEF ComposeUp, Goto, rowVars, budgetVars
<1>13. ASSUME NEW j \in Jobs, ComposeUpFails(j) PROVE TypeOK'
  <2>1. live' \in [image : Commits \cup {0}, hostPorts : BOOLEAN]
    BY <1>13, FilesOfType DEF ComposeUpFails
  <2> QED
    BY <1>13, <2>1 DEF ComposeUpFails, Goto, rowVars, budgetVars
<1>14. ASSUME NEW j \in Jobs, SelectPrior(j) PROVE TypeOK'
  BY <1>14 DEF SelectPrior, Ready, Goto, rowVars, siteVars, budgetVars
<1>15. ASSUME NEW j \in Jobs, CommitReady(j) PROVE TypeOK'
  <2>1. Cardinality(Ready) \in Nat
    BY FS_Union, FS_Subset, FS_CardinalityType DEF Ready
  <2> QED
    BY <1>15, <2>1 DEF CommitReady, Goto, siteVars, budgetVars
<1>16. ASSUME NEW j \in Jobs, CommandFails(j) PROVE TypeOK'
  <2>1. archives' \subseteq Commits
    BY <1>16 DEF CommandFails, ArchivesLeft, CommitFixed
  <2> QED
    BY <1>16, <2>1 DEF CommandFails, Goto, rowVars, siteVars, budgetVars
<1>17. ASSUME NEW j \in Jobs, RecordFailure(j) PROVE TypeOK'
  BY <1>17 DEF RecordFailure, Goto, siteVars, budgetVars
<1>18. ASSUME NEW j \in Jobs, DatabaseFails(j) PROVE TypeOK'
  <2>1. archives' \subseteq Commits
    BY <1>18 DEF DatabaseFails, ArchivesLeft, CommitFixed
  <2> QED
    BY <1>18, <2>1 DEF DatabaseFails, Promoting, rowVars, siteVars
<1>19. CASE Edit
  BY <1>19 DEF Edit, rowVars, jobVars, siteVars, budgetVars
<1>20. CASE ApiDies
  BY <1>20 DEF ApiDies, AtWork, Promoting, rowVars, siteVars
<1>21. CASE UNCHANGED vars
  BY <1>21 DEF vars, rowVars, jobVars, siteVars, budgetVars
<1> QED
  BY <1>1, <1>2, <1>3, <1>4, <1>5, <1>6, <1>7, <1>8, <1>9, <1>10, <1>11, <1>12,
     <1>13, <1>14, <1>15, <1>16, <1>17, <1>18, <1>19, <1>20, <1>21
     DEF Next, PublishStep, PromoteStep

-----------------------------------------------------------------------------
(* Each part is kept by every step. *)

\* Only Prepare and RollBack set the commit of a job, before they go on.
LEMMA CommitFixedStep ==
    TypeOK /\ ReadyIsOver /\ CommitFixed /\ [Next]_vars => CommitFixed'
<1> SUFFICES ASSUME TypeOK, ReadyIsOver, CommitFixed, [Next]_vars PROVE CommitFixed'
  OBVIOUS
<1> USE DEF TypeOK, Jobs, Commits, ReadyIsOver, CommitFixed, Promoting
<1>1. ASSUME NEW j \in Publishes, CheckInFlight(j) PROVE CommitFixed'
  BY <1>1 DEF CheckInFlight, Goto, rowVars, siteVars, budgetVars
<1>2. ASSUME NEW j \in Publishes, InsertDeployment(j) PROVE CommitFixed'
  BY <1>2 DEF InsertDeployment, Goto, siteVars, budgetVars
<1>3. ASSUME NEW j \in Publishes, Prepare(j) PROVE CommitFixed'
  <2>1. tree # 0
    BY PublishAssumption DEF Commits
  <2> QED
    BY <1>3, <2>1 DEF Prepare, Goto, siteVars, budgetVars
<1>4. ASSUME NEW j \in Publishes, Archive(j) PROVE CommitFixed'
  BY <1>4 DEF Archive, Goto, siteVars, budgetVars
<1>5. ASSUME NEW j \in Publishes, Build(j) PROVE CommitFixed'
  BY <1>5 DEF Build, Goto, siteVars, budgetVars
<1>6. ASSUME NEW j \in Publishes, StartPreview(j) PROVE CommitFixed'
  BY <1>6 DEF StartPreview, Goto, rowVars, siteVars, budgetVars
<1>7. ASSUME NEW j \in Publishes, Probe(j) PROVE CommitFixed'
  BY <1>7 DEF Probe, Goto, rowVars, siteVars, budgetVars
<1>8. ASSUME NEW j \in Publishes, StopPreview(j) PROVE CommitFixed'
  BY <1>8 DEF StopPreview, Goto, rowVars, siteVars, budgetVars
<1>9. ASSUME NEW j \in Publishes, Push(j) PROVE CommitFixed'
  BY <1>9 DEF Push, Goto, rowVars, siteVars, budgetVars
<1>10. ASSUME NEW j \in Rollbacks, RollBack(j) PROVE CommitFixed'
  BY <1>10 DEF RollBack, Ready, Goto, siteVars, budgetVars
<1>11. ASSUME NEW j \in Jobs, WriteFiles(j) PROVE CommitFixed'
  BY <1>11 DEF WriteFiles, Goto, rowVars, budgetVars
<1>12. ASSUME NEW j \in Jobs, ComposeUp(j) PROVE CommitFixed'
  BY <1>12 DEF ComposeUp, Goto, rowVars, budgetVars
<1>13. ASSUME NEW j \in Jobs, ComposeUpFails(j) PROVE CommitFixed'
  BY <1>13 DEF ComposeUpFails, Goto, rowVars, budgetVars
<1>14. ASSUME NEW j \in Jobs, SelectPrior(j) PROVE CommitFixed'
  BY <1>14 DEF SelectPrior, Goto, rowVars, siteVars, budgetVars
<1>15. ASSUME NEW j \in Jobs, CommitReady(j) PROVE CommitFixed'
  BY <1>15 DEF CommitReady, Goto, siteVars, budgetVars
<1>16. ASSUME NEW j \in Jobs, CommandFails(j) PROVE CommitFixed'
  BY <1>16 DEF CommandFails, Goto, rowVars, siteVars, budgetVars
<1>17. ASSUME NEW j \in Jobs, RecordFailure(j) PROVE CommitFixed'
  BY <1>17 DEF RecordFailure, Goto, siteVars, budgetVars
<1>18. ASSUME NEW j \in Jobs, DatabaseFails(j) PROVE CommitFixed'
  BY <1>18 DEF DatabaseFails, rowVars, siteVars
<1>19. CASE Edit
  BY <1>19 DEF Edit, rowVars, jobVars, siteVars, budgetVars
<1>20. CASE ApiDies
  BY <1>20 DEF ApiDies, AtWork, rowVars, siteVars
<1>21. CASE UNCHANGED vars
  BY <1>21 DEF vars, rowVars, jobVars, siteVars, budgetVars
<1> QED
  BY <1>1, <1>2, <1>3, <1>4, <1>5, <1>6, <1>7, <1>8, <1>9, <1>10, <1>11, <1>12,
     <1>13, <1>14, <1>15, <1>16, <1>17, <1>18, <1>19, <1>20, <1>21
     DEF Next, PublishStep, PromoteStep

\* CommitReady is the last step of a job, and the rows it selected stay ready.
LEMMA ReadyIsOverStep ==
    TypeOK /\ ReadyIsOver /\ [Next]_vars => ReadyIsOver'
<1> SUFFICES ASSUME TypeOK, ReadyIsOver, [Next]_vars PROVE ReadyIsOver'
  OBVIOUS
<1> USE DEF TypeOK, Jobs, Ready, ReadyIsOver
<1>1. ASSUME NEW j \in Publishes, CheckInFlight(j) PROVE ReadyIsOver'
  BY <1>1 DEF CheckInFlight, Goto, rowVars, siteVars, budgetVars
<1>2. ASSUME NEW j \in Publishes, InsertDeployment(j) PROVE ReadyIsOver'
  BY <1>2 DEF InsertDeployment, Goto, siteVars, budgetVars
<1>3. ASSUME NEW j \in Publishes, Prepare(j) PROVE ReadyIsOver'
  BY <1>3 DEF Prepare, Goto, siteVars, budgetVars
<1>4. ASSUME NEW j \in Publishes, Archive(j) PROVE ReadyIsOver'
  BY <1>4 DEF Archive, Goto, siteVars, budgetVars
<1>5. ASSUME NEW j \in Publishes, Build(j) PROVE ReadyIsOver'
  BY <1>5 DEF Build, Goto, siteVars, budgetVars
<1>6. ASSUME NEW j \in Publishes, StartPreview(j) PROVE ReadyIsOver'
  BY <1>6 DEF StartPreview, Goto, rowVars, siteVars, budgetVars
<1>7. ASSUME NEW j \in Publishes, Probe(j) PROVE ReadyIsOver'
  BY <1>7 DEF Probe, Goto, rowVars, siteVars, budgetVars
<1>8. ASSUME NEW j \in Publishes, StopPreview(j) PROVE ReadyIsOver'
  BY <1>8 DEF StopPreview, Goto, rowVars, siteVars, budgetVars
<1>9. ASSUME NEW j \in Publishes, Push(j) PROVE ReadyIsOver'
  BY <1>9 DEF Push, Goto, rowVars, siteVars, budgetVars
<1>10. ASSUME NEW j \in Rollbacks, RollBack(j) PROVE ReadyIsOver'
  BY <1>10 DEF RollBack, Goto, siteVars, budgetVars
<1>11. ASSUME NEW j \in Jobs, WriteFiles(j) PROVE ReadyIsOver'
  BY <1>11 DEF WriteFiles, Goto, rowVars, budgetVars
<1>12. ASSUME NEW j \in Jobs, ComposeUp(j) PROVE ReadyIsOver'
  BY <1>12 DEF ComposeUp, Goto, rowVars, budgetVars
<1>13. ASSUME NEW j \in Jobs, ComposeUpFails(j) PROVE ReadyIsOver'
  BY <1>13 DEF ComposeUpFails, Goto, rowVars, budgetVars
<1>14. ASSUME NEW j \in Jobs, SelectPrior(j) PROVE ReadyIsOver'
  BY <1>14 DEF SelectPrior, Goto, rowVars, siteVars, budgetVars
<1>15. ASSUME NEW j \in Jobs, CommitReady(j) PROVE ReadyIsOver'
  BY <1>15 DEF CommitReady, Goto, siteVars, budgetVars
<1>16. ASSUME NEW j \in Jobs, CommandFails(j) PROVE ReadyIsOver'
  BY <1>16 DEF CommandFails, Goto, rowVars, siteVars, budgetVars
<1>17. ASSUME NEW j \in Jobs, RecordFailure(j) PROVE ReadyIsOver'
  BY <1>17 DEF RecordFailure, Goto, siteVars, budgetVars
<1>18. ASSUME NEW j \in Jobs, DatabaseFails(j) PROVE ReadyIsOver'
  BY <1>18 DEF DatabaseFails, rowVars, siteVars
<1>19. CASE Edit
  BY <1>19 DEF Edit, rowVars, jobVars, siteVars, budgetVars
<1>20. CASE ApiDies
  BY <1>20 DEF ApiDies, AtWork, rowVars, siteVars
<1>21. CASE UNCHANGED vars
  BY <1>21 DEF vars, rowVars, jobVars, siteVars, budgetVars
<1> QED
  BY <1>1, <1>2, <1>3, <1>4, <1>5, <1>6, <1>7, <1>8, <1>9, <1>10, <1>11, <1>12,
     <1>13, <1>14, <1>15, <1>16, <1>17, <1>18, <1>19, <1>20, <1>21
     DEF Next, PublishStep, PromoteStep

\* Only a probe that was answered leads to a promotion; a rollback takes the image of
\* a ready row.
LEMMA SmokedFirstStep ==
    TypeOK /\ ReadyIsOver /\ SmokedFirst /\ [Next]_vars => SmokedFirst'
<1> SUFFICES ASSUME TypeOK, ReadyIsOver, SmokedFirst, [Next]_vars PROVE SmokedFirst'
  OBVIOUS
<1> USE DEF TypeOK, Jobs, Ready, ReadyIsOver, SmokedFirst, Promoting
<1>1. ASSUME NEW j \in Publishes, CheckInFlight(j) PROVE SmokedFirst'
  BY <1>1 DEF CheckInFlight, Goto, rowVars, siteVars, budgetVars
<1>2. ASSUME NEW j \in Publishes, InsertDeployment(j) PROVE SmokedFirst'
  BY <1>2 DEF InsertDeployment, Goto, siteVars, budgetVars
<1>3. ASSUME NEW j \in Publishes, Prepare(j) PROVE SmokedFirst'
  BY <1>3 DEF Prepare, Goto, siteVars, budgetVars
<1>4. ASSUME NEW j \in Publishes, Archive(j) PROVE SmokedFirst'
  BY <1>4 DEF Archive, Goto, siteVars, budgetVars
<1>5. ASSUME NEW j \in Publishes, Build(j) PROVE SmokedFirst'
  BY <1>5 DEF Build, Goto, siteVars, budgetVars
<1>6. ASSUME NEW j \in Publishes, StartPreview(j) PROVE SmokedFirst'
  BY <1>6 DEF StartPreview, Goto, rowVars, siteVars, budgetVars
<1>7. ASSUME NEW j \in Publishes, Probe(j) PROVE SmokedFirst'
  BY <1>7 DEF Probe, Goto, rowVars, siteVars, budgetVars
<1>8. ASSUME NEW j \in Publishes, StopPreview(j) PROVE SmokedFirst'
  BY <1>8 DEF StopPreview, Goto, rowVars, siteVars, budgetVars
<1>9. ASSUME NEW j \in Publishes, Push(j) PROVE SmokedFirst'
  BY <1>9 DEF Push, Goto, rowVars, siteVars, budgetVars
<1>10. ASSUME NEW j \in Rollbacks, RollBack(j) PROVE SmokedFirst'
  BY <1>10 DEF RollBack, Goto, siteVars, budgetVars
<1>11. ASSUME NEW j \in Jobs, WriteFiles(j) PROVE SmokedFirst'
  BY <1>11 DEF WriteFiles, FilesOf, Goto, rowVars, budgetVars
<1>12. ASSUME NEW j \in Jobs, ComposeUp(j) PROVE SmokedFirst'
  BY <1>12 DEF ComposeUp, FilesOf, Goto, rowVars, budgetVars
<1>13. ASSUME NEW j \in Jobs, ComposeUpFails(j) PROVE SmokedFirst'
  BY <1>13 DEF ComposeUpFails, FilesOf, Goto, rowVars, budgetVars
<1>14. ASSUME NEW j \in Jobs, SelectPrior(j) PROVE SmokedFirst'
  BY <1>14 DEF SelectPrior, Goto, rowVars, siteVars, budgetVars
<1>15. ASSUME NEW j \in Jobs, CommitReady(j) PROVE SmokedFirst'
  BY <1>15 DEF CommitReady, Goto, siteVars, budgetVars
<1>16. ASSUME NEW j \in Jobs, CommandFails(j) PROVE SmokedFirst'
  BY <1>16 DEF CommandFails, Goto, rowVars, siteVars, budgetVars
<1>17. ASSUME NEW j \in Jobs, RecordFailure(j) PROVE SmokedFirst'
  BY <1>17 DEF RecordFailure, Goto, siteVars, budgetVars
<1>18. ASSUME NEW j \in Jobs, DatabaseFails(j) PROVE SmokedFirst'
  BY <1>18 DEF DatabaseFails, rowVars, siteVars
<1>19. CASE Edit
  BY <1>19 DEF Edit, rowVars, jobVars, siteVars, budgetVars
<1>20. CASE ApiDies
  BY <1>20 DEF ApiDies, AtWork, rowVars, siteVars
<1>21. CASE UNCHANGED vars
  BY <1>21 DEF vars, rowVars, jobVars, siteVars, budgetVars
<1> QED
  BY <1>1, <1>2, <1>3, <1>4, <1>5, <1>6, <1>7, <1>8, <1>9, <1>10, <1>11, <1>12,
     <1>13, <1>14, <1>15, <1>16, <1>17, <1>18, <1>19, <1>20, <1>21
     DEF Next, PublishStep, PromoteStep

\* No step but CommitReady adds a ready row or moves a pointer of the chain.
LEMMA ChainUnchanged ==
    ASSUME TypeOK, ReadyIsOver, [Next]_vars, ~\E j \in Jobs : CommitReady(j)
    PROVE  Ready' = Ready /\ UNCHANGED <<superseded, readyAt>>
<1> USE DEF TypeOK, Jobs, Ready, ReadyIsOver
<1>1. ASSUME NEW j \in Publishes, CheckInFlight(j) \/ PublishStep(j)
      PROVE  Ready' = Ready /\ UNCHANGED <<superseded, readyAt>>
  BY <1>1 DEF PublishStep, CheckInFlight, InsertDeployment, Prepare, Archive, Build,
              StartPreview, Probe, StopPreview, Push, Goto, rowVars
<1>2. ASSUME NEW j \in Rollbacks, RollBack(j)
      PROVE  Ready' = Ready /\ UNCHANGED <<superseded, readyAt>>
  BY <1>2 DEF RollBack
<1>3. ASSUME NEW j \in Jobs, PromoteStep(j) \/ DatabaseFails(j)
      PROVE  Ready' = Ready /\ UNCHANGED <<superseded, readyAt>>
  BY <1>3 DEF PromoteStep, WriteFiles, ComposeUp, ComposeUpFails, SelectPrior,
              CommandFails, RecordFailure, DatabaseFails, Goto, rowVars
<1>4. CASE Edit \/ ApiDies \/ UNCHANGED vars
  BY <1>4 DEF Edit, ApiDies, vars, rowVars
<1> QED
  BY <1>1, <1>2, <1>3, <1>4 DEF Next

\* CommitReady takes the next number and points what it has selected to itself.
LEMMA ChainNumberedStep ==
    TypeOK /\ ReadyIsOver /\ ChainNumbered /\ [Next]_vars => ChainNumbered'
<1> SUFFICES ASSUME TypeOK, ReadyIsOver, ChainNumbered, [Next]_vars
             PROVE  ChainNumbered'
  OBVIOUS
<1>1. ASSUME NEW j \in Jobs, CommitReady(j) PROVE ChainNumbered'
  <2> DEFINE n == Cardinality(Ready)
  <2>1. IsFiniteSet(Ready)
    BY PublishAssumption, FS_Union, FS_Subset DEF Ready, Jobs
  <2>2. n \in Nat
    BY <2>1, FS_CardinalityType
  <2>3. j \notin Ready /\ prior[j] \subseteq Ready
    BY <1>1 DEF CommitReady, Goto, ReadyIsOver, Ready
  <2>4. Ready' = Ready \cup {j}
    BY <1>1, <2>3 DEF CommitReady, Ready, TypeOK
  <2>5. Cardinality(Ready') = n + 1
    BY <2>1, <2>3, <2>4, FS_AddElement
  <2>6. readyAt' = [readyAt EXCEPT ![j] = n + 1]
    BY <1>1 DEF CommitReady
  <2>7. readyAt'[j] = n + 1 /\ \A k \in Ready : readyAt'[k] = readyAt[k]
    BY <2>3, <2>6 DEF TypeOK, Ready
  <2>8. \A k \in Ready' : readyAt'[k] <= n + 1
    <3>1. \A k \in Ready : readyAt[k] \in Nat /\ readyAt[k] <= n
      BY DEF ChainNumbered, TypeOK, Ready
    <3> QED
      BY <2>2, <2>4, <2>7, <3>1
  <2>9. ASSUME NEW k \in Jobs, superseded'[k] # NoJob
        PROVE  /\ {k, superseded'[k]} \subseteq Ready'
               /\ readyAt'[k] < readyAt'[superseded'[k]]
    <3>1. superseded' = [i \in Jobs |-> IF i \in prior[j] THEN j ELSE superseded[i]]
      BY <1>1 DEF CommitReady
    <3>2. CASE k \in prior[j]
      <4>1. superseded'[k] = j /\ k \in Ready
        BY <2>3, <3>1, <3>2
      <4>2. readyAt'[k] \in Nat /\ readyAt'[k] <= n
        BY <2>7, <4>1 DEF ChainNumbered, TypeOK, Ready
      <4> QED
        BY <2>2, <2>4, <2>7, <4>1, <4>2
    <3>3. CASE k \notin prior[j]
      <4>1. superseded'[k] = superseded[k]
        BY <3>1, <3>3
      <4>2. {k, superseded[k]} \subseteq Ready /\ readyAt[k] < readyAt[superseded[k]]
        BY <2>9, <4>1 DEF ChainNumbered
      <4> QED
        BY <2>4, <2>7, <4>1, <4>2
    <3> QED
      BY <3>2, <3>3
  <2> QED
    BY <2>4, <2>5, <2>7, <2>8, <2>9 DEF ChainNumbered
<1>2. CASE ~\E j \in Jobs : CommitReady(j)
  BY <1>2, ChainUnchanged DEF ChainNumbered
<1> QED
  BY <1>1, <1>2

-----------------------------------------------------------------------------
(* The site and the head of the chain.                                     *)

HeadLive == IF Ready = {} THEN live = Nothing
            ELSE \E j \in Jobs : Heads = {j} /\ live.image = hash[j]

\* As long as no two promotes have overlapped and each is on record: at most one
\* job promotes; the files are its own when it is about to start them, the site
\* shows what the head says until then, and its own image after; and what it is
\* going to supersede is all that is ready.
SiteInv ==
    ~disturbed =>
        /\ \A j, k \in Jobs : at[j] \in Promoting /\ at[k] \in Promoting => j = k
        /\ \A j \in Jobs : at[j] = "up" => files = FilesOf(j)
        /\ \A j \in Jobs : at[j] \in {"select", "commit"} => live.image = hash[j]
        /\ \A j \in Jobs : at[j] = "commit" => prior[j] = Ready
        /\ (\A j \in Jobs : at[j] \notin {"select", "commit"}) => HeadLive

\* A step that is none of the promote, or with which a promote gives up before it
\* has replaced the containers.
LEMMA SiteAside ==
    ASSUME SiteInv,
           ~disturbed' =>
              /\ ~disturbed
              /\ UNCHANGED <<files, live, superseded>> /\ Ready' = Ready
              /\ \A k \in Jobs :
                    /\ at'[k] \in Promoting => at'[k] = at[k] /\ hash'[k] = hash[k] /\ prior'[k] = prior[k]
                    /\ at[k] \in {"select", "commit"} => at'[k] = at[k]
                    /\ k \in Ready => hash'[k] = hash[k]
    PROVE  SiteInv'
<1> SUFFICES ASSUME ~disturbed' PROVE SiteInv'
  BY DEF SiteInv
<1>1. ~disturbed
  OBVIOUS
<1>2. /\ UNCHANGED <<files, live, superseded>> /\ Ready' = Ready
      /\ \A k \in Jobs :
            /\ at'[k] \in Promoting => at'[k] = at[k] /\ hash'[k] = hash[k] /\ prior'[k] = prior[k]
            /\ at[k] \in {"select", "commit"} => at'[k] = at[k]
            /\ k \in Ready => hash'[k] = hash[k]
  OBVIOUS
<1>3. Heads' = Heads
  BY <1>2 DEF Heads, Ready
<1>4. HeadLive => HeadLive'
  <2> SUFFICES ASSUME HeadLive PROVE HeadLive'
    OBVIOUS
  <2>1. CASE Ready = {}
    BY <1>2, <2>1 DEF HeadLive
  <2>2. CASE Ready # {}
    <3>1. PICK j \in Jobs : Heads = {j} /\ live.image = hash[j]
      BY <2>2 DEF HeadLive
    <3>2. j \in Ready
      BY <3>1 DEF Heads
    <3>3. Heads' = {j} /\ live'.image = hash'[j]
      BY <1>2, <1>3, <3>1, <3>2
    <3> QED
      BY <1>2, <2>2, <3>3 DEF HeadLive
  <2> QED
    BY <2>1, <2>2
<1>5. \A j, k \in Jobs : at'[j] \in Promoting /\ at'[k] \in Promoting => j = k
  BY <1>1, <1>2 DEF SiteInv
<1>6. \A j \in Jobs : at'[j] = "up" => files' = FilesOf(j)'
  BY <1>1, <1>2 DEF SiteInv, FilesOf, Promoting
<1>7. \A j \in Jobs : at'[j] \in {"select", "commit"} => live'.image = hash'[j]
  BY <1>1, <1>2 DEF SiteInv, Promoting
<1>8. \A j \in Jobs : at'[j] = "commit" => prior'[j] = Ready'
  BY <1>1, <1>2 DEF SiteInv, Promoting
<1>9. (\A j \in Jobs : at'[j] \notin {"select", "commit"}) => HeadLive'
  BY <1>1, <1>2, <1>4 DEF SiteInv
<1> QED
  BY <1>5, <1>6, <1>7, <1>8, <1>9 DEF SiteInv

\* Every step of a publish before its promote, and what ends a job early.
LEMMA SiteOtherSteps ==
    ASSUME TypeOK, TypeOK', ReadyIsOver, SiteInv, [Next]_vars,
           ~\E j \in Jobs : WriteFiles(j) \/ ComposeUp(j) \/ SelectPrior(j) \/ CommitReady(j)
    PROVE  SiteInv'
<1> DEFINE Aside ==
      /\ UNCHANGED <<files, live>>
      /\ \A k \in Jobs :
            /\ at'[k] \in Promoting => at'[k] = at[k] /\ hash'[k] = hash[k] /\ prior'[k] = prior[k]
            /\ at[k] \in {"select", "commit"} => at'[k] = at[k]
            /\ k \in Ready => hash'[k] = hash[k]
      /\ disturbed' = disturbed
<1>0. \A j \in Jobs : j \in Ready => at[j] = "over"
  BY DEF ReadyIsOver, Ready
<1>1. at \in [Jobs -> JobState] /\ hash \in [Jobs -> Commits \cup {0}]
  BY DEF TypeOK
<1> USE <1>0, <1>1 DEF Promoting
<1>2. ASSUME NEW j \in Publishes, CheckInFlight(j) PROVE Aside
  BY <1>2 DEF CheckInFlight, Goto, rowVars, siteVars
<1>3. ASSUME NEW j \in Publishes, PublishStep(j) PROVE Aside
  <2>1. CASE Prepare(j)
    BY <2>1 DEF Prepare, Goto, siteVars
  <2>2. CASE InsertDeployment(j) \/ Archive(j) \/ Build(j)
    BY <2>2 DEF InsertDeployment, Archive, Build, Goto, siteVars
  <2>3. CASE StartPreview(j)
    BY <2>3 DEF StartPreview, Goto, rowVars, siteVars
  <2>4. CASE Probe(j)
    BY <2>4 DEF Probe, Goto, rowVars, siteVars
  <2>5. CASE StopPreview(j) \/ Push(j)
    BY <2>5 DEF StopPreview, Push, Goto, rowVars, siteVars
  <2> QED
    BY <1>3, <2>1, <2>2, <2>3, <2>4, <2>5 DEF PublishStep
<1>4. ASSUME NEW j \in Rollbacks, RollBack(j) PROVE Aside
  BY <1>4 DEF RollBack, Goto, siteVars
<1>5. ASSUME NEW j \in Jobs, CommandFails(j) \/ RecordFailure(j) PROVE Aside
  BY <1>5 DEF CommandFails, RecordFailure, Goto, rowVars, siteVars
<1>6. ASSUME Edit \/ UNCHANGED vars PROVE Aside
  BY <1>6 DEF Edit, vars, rowVars, jobVars, siteVars
<1> DEFINE Early ==
      ~disturbed' =>
          /\ ~disturbed
          /\ UNCHANGED <<files, live>>
          /\ \A k \in Jobs :
                /\ at'[k] \in Promoting => at'[k] = at[k] /\ hash'[k] = hash[k] /\ prior'[k] = prior[k]
                /\ at[k] \in {"select", "commit"} => at'[k] = at[k]
                /\ k \in Ready => hash'[k] = hash[k]
<1>7. ASSUME NEW j \in Jobs, ComposeUpFails(j) PROVE Early
  <2>1. ~disturbed' => ~disturbed /\ live' = live
    BY <1>7, Zenon DEF ComposeUpFails
  <2> QED
    BY <1>7, <2>1 DEF ComposeUpFails, Goto, rowVars
<1>8. ASSUME NEW j \in Jobs, DatabaseFails(j) PROVE Early
  <2>1. ~disturbed' => ~disturbed /\ at[j] \notin Promoting
    BY <1>8, Zenon DEF DatabaseFails
  <2> QED
    BY <1>8, <2>1 DEF DatabaseFails, rowVars, siteVars
<1>9. ASSUME ApiDies PROVE Early
  <2>1. ~disturbed' => ~disturbed /\ \A j \in Jobs : at[j] \notin Promoting
    BY <1>9, Zenon DEF ApiDies
  <2> QED
    BY <1>9, <2>1 DEF ApiDies, AtWork, rowVars, siteVars
<1>10. Early
  BY <1>2, <1>3, <1>4, <1>5, <1>6, <1>7, <1>8, <1>9 DEF Next, PromoteStep
<1>11. Ready' = Ready /\ UNCHANGED superseded
  BY ChainUnchanged
<1> QED
  BY <1>10, <1>11, SiteAside

\* A promote: its files, its containers, its selection, its commit.
LEMMA SiteStep ==
    TypeOK /\ TypeOK' /\ ReadyIsOver /\ ChainNumbered /\ SiteInv /\ [Next]_vars => SiteInv'
<1> SUFFICES ASSUME TypeOK, TypeOK', ReadyIsOver, ChainNumbered, SiteInv, [Next]_vars PROVE SiteInv'
  OBVIOUS
<1>1. at \in [Jobs -> JobState] /\ prior \in [Jobs -> SUBSET Jobs] /\ disturbed \in BOOLEAN
  BY DEF TypeOK
<1>2. ASSUME NEW j \in Jobs, WriteFiles(j) PROVE SiteInv'
  <2> SUFFICES ASSUME ~disturbed' PROVE SiteInv'
    BY DEF SiteInv
  <2>1. ~disturbed /\ \A k \in Jobs : at[k] \notin Promoting
    BY <1>2 DEF WriteFiles
  <2>2. /\ at' = [at EXCEPT ![j] = "up"] /\ files' = FilesOf(j)
        /\ UNCHANGED <<row, hash, superseded, prior, live>>
    BY <1>2 DEF WriteFiles, Goto, rowVars
  <2>3. HeadLive
    BY <2>1 DEF SiteInv, Promoting
  <2>4. HeadLive'
    BY <2>2, <2>3 DEF HeadLive, Heads, Ready
  <2>5. FilesOf(j)' = FilesOf(j)
    BY <2>2 DEF FilesOf
  <2>6. \A k \in Jobs : at'[k] = IF k = j THEN "up" ELSE at[k]
    BY <1>1, <2>2
  <2> QED
    BY <2>1, <2>2, <2>4, <2>5, <2>6 DEF SiteInv, Promoting
<1>3. ASSUME NEW j \in Jobs, ComposeUp(j) PROVE SiteInv'
  <2> SUFFICES ASSUME ~disturbed' PROVE SiteInv'
    BY DEF SiteInv
  <2>1. /\ ~disturbed /\ at[j] = "up" /\ at' = [at EXCEPT ![j] = "select"]
        /\ UNCHANGED <<row, hash, superseded, prior, files>> /\ live' \in {files, FilesOf(j)}
    BY <1>3 DEF ComposeUp, Goto, rowVars
  <2>2. live'.image = hash[j]
    BY <2>1 DEF SiteInv, FilesOf
  <2>3. \A k \in Jobs : at'[k] = IF k = j THEN "select" ELSE at[k]
    BY <1>1, <2>1
  <2>4. \A k \in Jobs \ {j} : at[k] \notin Promoting
    BY <2>1 DEF SiteInv, Promoting
  <2> QED
    BY <2>1, <2>2, <2>3, <2>4 DEF SiteInv, Promoting
<1>4. ASSUME NEW j \in Jobs, SelectPrior(j) PROVE SiteInv'
  <2> SUFFICES ASSUME ~disturbed' PROVE SiteInv'
    BY DEF SiteInv
  <2>1. /\ ~disturbed /\ at[j] = "select" /\ at' = [at EXCEPT ![j] = "commit"]
        /\ UNCHANGED <<row, hash, superseded, files, live>>
        /\ prior' = [prior EXCEPT ![j] = Ready]
    BY <1>4 DEF SelectPrior, Goto, rowVars, siteVars
  <2>2. \A k \in Jobs : at'[k] = IF k = j THEN "commit" ELSE at[k]
    BY <1>1, <2>1
  <2>3. \A k \in Jobs \ {j} : at[k] \notin Promoting
    BY <2>1 DEF SiteInv, Promoting
  <2>4. prior'[j] = Ready /\ Ready' = Ready
    BY <1>1, <2>1 DEF Ready
  <2>5. live'.image = hash'[j]
    BY <2>1 DEF SiteInv
  <2> QED
    BY <2>1, <2>2, <2>3, <2>4, <2>5 DEF SiteInv, Promoting
<1>5. ASSUME NEW j \in Jobs, CommitReady(j) PROVE SiteInv'
  <2> SUFFICES ASSUME ~disturbed' PROVE SiteInv'
    BY DEF SiteInv
  <2>1. /\ ~disturbed /\ at[j] = "commit" /\ at' = [at EXCEPT ![j] = "over"]
        /\ row' = [row EXCEPT ![j] = "ready"]
        /\ superseded' = [k \in Jobs |-> IF k \in prior[j] THEN j ELSE superseded[k]]
        /\ UNCHANGED <<hash, prior, files, live>>
    BY <1>5 DEF CommitReady, Goto, siteVars
  <2>2. \A k \in Jobs : at'[k] = IF k = j THEN "over" ELSE at[k]
    BY <1>1, <2>1
  <2>3. \A k \in Jobs : at'[k] \notin Promoting
    BY <2>1, <2>2 DEF SiteInv, Promoting
  <2>4. live'.image = hash'[j] /\ prior[j] = Ready
    BY <2>1 DEF SiteInv
  <2>5. j \notin Ready
    BY <2>1 DEF ReadyIsOver, Ready
  <2>6. Ready' = Ready \cup {j}
    BY <2>1, <2>5 DEF Ready, TypeOK
  <2>7. superseded'[j] = NoJob
    BY <2>1, <2>4, <2>5 DEF ChainNumbered, TypeOK
  <2>8. \A k \in Ready : superseded'[k] = j
    BY <2>1, <2>4 DEF Ready
  <2>9. j # NoJob
    BY PublishAssumption DEF Jobs
  <2>10. Heads' = {j}
    BY <2>6, <2>7, <2>8, <2>9 DEF Heads
  <2>11. HeadLive'
    BY <2>4, <2>6, <2>10 DEF HeadLive
  <2> QED
    BY <2>3, <2>11 DEF SiteInv, Promoting
<1>6. CASE ~\E j \in Jobs : WriteFiles(j) \/ ComposeUp(j) \/ SelectPrior(j) \/ CommitReady(j)
  BY <1>6, SiteOtherSteps
<1> QED
  BY <1>2, <1>3, <1>4, <1>5, <1>6

-----------------------------------------------------------------------------
(* The theorems *)

\* The inductive invariant of the publish pipeline.
THEOREM PublishInvHolds == Spec => [](TypeOK /\ PublishInv)
<1>1. Init => TypeOK /\ PublishInv
  <2> SUFFICES ASSUME Init PROVE TypeOK /\ PublishInv
    OBVIOUS
  <2>1. Ready = {}
    BY DEF Init, Ready
  <2>2. TypeOK
    <3>1. 1 \in Commits /\ 0 \in 0..MaxDbFaults /\ 0 \in 0..MaxDeaths
      BY PublishAssumption DEF Commits
    <3>2. Nothing \in [image : Commits \cup {0}, hostPorts : BOOLEAN]
      BY DEF Nothing
    <3> QED
      BY <3>1, <3>2 DEF Init, TypeOK, JobState
  <2>3. ReadyIsOver
    BY DEF Init, ReadyIsOver
  <2>4. ChainNumbered
    BY <2>1 DEF Init, ChainNumbered
  <2>5. CommitFixed
    BY DEF Init, CommitFixed, Promoting
  <2>6. SmokedFirst
    BY DEF Init, SmokedFirst, Promoting, Nothing
  <2> QED
    BY <2>2, <2>3, <2>4, <2>5, <2>6 DEF PublishInv
<1>2. TypeOK /\ PublishInv /\ [Next]_vars => (TypeOK /\ PublishInv)'
  BY TypeStep, CommitFixedStep, ReadyIsOverStep, SmokedFirstStep, ChainNumberedStep
     DEF PublishInv
<1> QED
  BY <1>1, <1>2, PTL DEF Spec

\* Every reachable state of the pipeline is well typed.
THEOREM TypeCorrect == Spec => []TypeOK
  BY PublishInvHolds, PTL

\* However publishes and rollbacks of a project overlap, fail and die, the chain of
\* its deployments points forward in time and has a head.
THEOREM ChainForwardHolds == Spec => []ChainPointsForward
<1>1. TypeOK /\ PublishInv => ChainPointsForward
  <2> SUFFICES ASSUME TypeOK, PublishInv PROVE ChainPointsForward
    OBVIOUS
  <2>1. ASSUME Ready # {} PROVE Heads # {}
    <3>1. PICK k \in Ready : readyAt[k] = Cardinality(Ready)
      BY <2>1 DEF PublishInv, ChainNumbered
    <3>2. k \in Jobs
      BY DEF Ready
    <3>3. ASSUME superseded[k] # NoJob PROVE FALSE
      <4>1. superseded[k] \in Ready /\ readyAt[k] < readyAt[superseded[k]]
        BY <3>2, <3>3 DEF PublishInv, ChainNumbered
      <4>2. readyAt[superseded[k]] <= Cardinality(Ready)
        BY <4>1 DEF PublishInv, ChainNumbered
      <4>3. readyAt[k] \in Nat /\ readyAt[superseded[k]] \in Nat
        BY <3>2, <4>1 DEF TypeOK, Ready
      <4> QED
        BY <3>1, <4>1, <4>2, <4>3
    <3> QED
      BY <3>1, <3>3 DEF Heads
  <2> QED
    BY <2>1 DEF PublishInv, ChainNumbered, ChainPointsForward
<1> QED
  BY <1>1, PublishInvHolds, PTL

\* The site never runs an image that no probe has reached, whatever overlaps.
THEOREM LiveIsSmokedHolds == Spec => []LiveIsSmoked
<1>1. PublishInv => LiveIsSmoked
  BY DEF PublishInv, SmokedFirst, LiveIsSmoked
<1> QED
  BY <1>1, PublishInvHolds, PTL

\* The site and the head of the chain, as long as promotes have kept apart.
THEOREM SiteInvHolds == Spec => []SiteInv
<1>1. Init => SiteInv
  BY DEF Init, SiteInv, HeadLive, Ready, Promoting
<1>2. (TypeOK /\ PublishInv) /\ (TypeOK /\ PublishInv)' /\ SiteInv /\ [Next]_vars => SiteInv'
  BY SiteStep DEF PublishInv
<1> QED
  BY <1>1, <1>2, PublishInvHolds, PTL DEF Spec

\* While no job promotes, the site runs the image of the one deployment that
\* nothing supersedes, and no other: for any number of publishes, rollbacks,
\* failures and deaths, as long as no two promotes have overlapped and none has
\* been left unrecorded.
THEOREM LiveIsHeadHolds == Spec => []LiveIsHead
<1>1. SiteInv => LiveIsHead
  BY DEF SiteInv, LiveIsHead, HeadLive, Promoting
<1> QED
  BY <1>1, SiteInvHolds, PTL

-----------------------------------------------------------------------------
(* The CLI and the panel.  Whatever they do, Publish is left as its own    *)
(* steps leave it: all that is proved of Spec holds next to them.          *)

\* A step of the stream or of its reader is one of Publish or a stutter.
LEMMA FollowStepPublishes == ASSUME [FollowNext]_allVars PROVE [Next]_vars
<1>1. CASE PipelineStep
  BY <1>1 DEF PipelineStep
<1>2. CASE Follow \/ Poll \/ Reconnect
  BY <1>2 DEF Follow, Poll, Reconnect
<1>3. CASE DieWithApi
  BY <1>3 DEF DieWithApi, Next
<1>4. CASE UNCHANGED allVars
  BY <1>4 DEF allVars
<1> QED
  BY <1>1, <1>2, <1>3, <1>4 DEF FollowNext

\* What a step of the CLI is for each of its parts.
LEMMA CliStep ==
    [CliNext]_cliVars => [FollowNext]_allVars /\ [DepNext]_depVars /\ [SiteNext \/ Audit]_siteConfigVars
BY DEF CliNext, cliVars, Publishing, Asking, Auditing, Preparing

\* The pipeline with the CLI, its event stream and its readers implements the
\* pipeline alone.
THEOREM CliPublishes == CliSpec => Spec
<1>1. CliInit => Init
  BY DEF CliInit, FollowInit
<1> QED
  BY <1>1, CliStep, FollowStepPublishes, PTL DEF CliSpec, Spec

-----------------------------------------------------------------------------
(* The log that is followed.                                               *)

\* The followed publish has not built.
Unbuilt == {"none", "insert", "prepare", "archive", "build"}

\* How the followed job and its row move.
LEMMA FollowedMoves ==
    ASSUME TypeOK, [Next]_vars
    PROVE  /\ at'[Followed] \in Unbuilt => at[Followed] \in Unbuilt
           /\ at[Followed] \in {"over", "dead"} => at'[Followed] = at[Followed]
           /\ row[Followed] # "absent" => row'[Followed] # "absent"
           /\ row'[Followed] \in Ended => row'[Followed] = row[Followed] \/ at'[Followed] = "over"
<1> DEFINE f == Followed
           Moves == /\ at'[f] \in Unbuilt => at[f] \in Unbuilt
                    /\ at[f] \in {"over", "dead"} => at'[f] = at[f]
                    /\ row[f] # "absent" => row'[f] # "absent"
                    /\ row'[f] \in Ended => row'[f] = row[f] \/ at'[f] = "over"
<1>1. /\ f \in Publishes /\ f \in Jobs /\ f \notin Rollbacks /\ Publishes \subseteq Jobs
      /\ Rollbacks \subseteq Jobs /\ at \in [Jobs -> JobState] /\ DOMAIN row = Jobs
  BY FollowAssumption, PublishAssumption DEF TypeOK, Jobs
<1> HIDE DEF f
<1> USE <1>1 DEF Unbuilt, Ended
<1>2. ASSUME NEW j \in Publishes, CheckInFlight(j) PROVE Moves
  BY <1>2 DEF CheckInFlight, Goto, rowVars
<1>3. ASSUME NEW j \in Publishes, InsertDeployment(j) \/ Prepare(j) \/ Archive(j) \/ Build(j) PROVE Moves
  BY <1>3 DEF InsertDeployment, Prepare, Archive, Build, Goto
<1>4. ASSUME NEW j \in Publishes, StartPreview(j) \/ Probe(j) \/ StopPreview(j) \/ Push(j) PROVE Moves
  BY <1>4 DEF StartPreview, Probe, StopPreview, Push, Goto, rowVars
<1>5. ASSUME NEW j \in Rollbacks, RollBack(j) PROVE Moves
  BY <1>5 DEF RollBack, Goto
<1>6. ASSUME NEW j \in Jobs, WriteFiles(j) \/ ComposeUp(j) \/ ComposeUpFails(j) \/ SelectPrior(j) PROVE Moves
  BY <1>6 DEF WriteFiles, ComposeUp, ComposeUpFails, SelectPrior, Goto, rowVars
<1>7. ASSUME NEW j \in Jobs, CommandFails(j) PROVE Moves
  BY <1>7 DEF CommandFails, Goto, rowVars
<1>8. ASSUME NEW j \in Jobs, CommitReady(j) \/ RecordFailure(j) PROVE Moves
  BY <1>8 DEF CommitReady, RecordFailure, Goto
<1>9. ASSUME NEW j \in Jobs, DatabaseFails(j) PROVE Moves
  BY <1>9 DEF DatabaseFails, rowVars
<1>10. ASSUME Edit \/ ApiDies \/ UNCHANGED vars PROVE Moves
  BY <1>10 DEF Edit, ApiDies, AtWork, vars, rowVars, jobVars
<1> QED
  BY <1>2, <1>3, <1>4, <1>5, <1>6, <1>7, <1>8, <1>9, <1>10 DEF Next, PublishStep, PromoteStep, f

Lines == Seq({"line"})

\* Two logs of lines are the same when they have as many.
LEMMA SameLines ==
    ASSUME NEW s \in Lines, NEW t \in Lines, Len(s) = Len(t) PROVE s = t
BY SeqEqual DEF Lines

\* _sanitize_log leaves a log of lines alone.
LEMMA LinesSanitized ==
    ASSUME NEW t \in Lines PROVE Sanitized(t) = t
<1>1. ~IsPrefix(HostPath, t)
  <2> SUFFICES ASSUME 2 <= Len(t), SubSeq(HostPath, 1, 2) = SubSeq(t, 1, 2) PROVE FALSE
    BY DEF IsPrefix, HostPath
  <2>1. HostPath \in Seq({"host", "path"}) /\ Len(HostPath) = 2 /\ HostPath[1] = "host"
    BY DEF HostPath
  <2>2. SubSeq(HostPath, 1, 2)[1] = "host"
    BY <2>1, SubSeqProperties
  <2>3. SubSeq(t, 1, 2)[1] = t[1]
    BY SubSeqProperties DEF Lines
  <2>4. t[1] = "line"
    BY DEF Lines
  <2> QED
    BY <2>2, <2>3, <2>4
<1> QED
  BY <1>1 DEF Sanitized

Pieces == {"line", "host", "path", "alias"}

\* Sanitized logs are logs.
LEMMA SanitizedType ==
    ASSUME NEW t \in Seq(Pieces) PROVE Sanitized(t) \in Seq(Pieces)
<1>1. CASE IsPrefix(HostPath, t)
  <2>1. <<"alias">> \in Seq(Pieces) /\ Len(t) \in Nat
    BY DEF Pieces
  <2>2. SubSeq(t, 3, Len(t)) \in Seq(Pieces)
    <3>1. \A i \in 3..Len(t) : t[i] \in Pieces
      BY ElementOfSeq
    <3> QED
      BY <2>1, <3>1, SubSeqProperties
  <2>3. <<"alias">> \o SubSeq(t, 3, Len(t)) \in Seq(Pieces)
    BY <2>1, <2>2, ConcatProperties
  <2> QED
    BY <1>1, <2>3 DEF Sanitized
<1>2. CASE ~IsPrefix(HostPath, t)
  BY <1>2 DEF Sanitized
<1> QED
  BY <1>1, <1>2

\* What docker build prints.
LEMMA OutputFacts ==
    /\ \A o \in {<<>>} \cup Outputs : o \in Seq(Pieces) /\ o \o Line \in Seq(Pieces)
    /\ \A o \in {<<>>} \cup Outputs : o # HostPath \o Line <=> o \in Lines
    /\ Line \in Lines /\ Len(Line) = 1 /\ Lines \subseteq Seq(Pieces)
<1>1. Line \in Lines /\ Len(Line) = 1 /\ Line \in Seq(Pieces)
  BY DEF Line, Lines, Pieces
<1>2. HostPath \in Seq(Pieces) /\ Len(HostPath) = 2 /\ HostPath[1] = "host"
  BY DEF HostPath, Pieces
<1>3. HostPath \o Line \in Seq(Pieces) /\ (HostPath \o Line)[1] = "host" /\ Len(HostPath \o Line) = 3
  <2> HIDE DEF HostPath, Line
  <2>1. HostPath \o Line \in Seq(Pieces) /\ Len(HostPath \o Line) = Len(HostPath) + Len(Line)
    BY <1>1, <1>2, ConcatProperties
  <2>2. (HostPath \o Line)[1] = HostPath[1]
    <3>1. 1 \in 1..(Len(HostPath) + Len(Line)) /\ 1 <= Len(HostPath)
      BY <1>1, <1>2
    <3>2. HostPath \in Seq(Pieces) /\ Line \in Seq(Pieces)
      BY <1>1, <1>2
    <3> QED
      BY <3>1, <3>2, ConcatProperties
  <2> QED
    BY <2>1, <2>2, <1>1, <1>2
<1>4. HostPath \o Line \notin Lines
  BY <1>3 DEF Lines
<1>5. <<>> \in Lines /\ <<>> \in Seq(Pieces)
  BY DEF Lines
<1>6. \A o \in {<<>>} \cup Outputs : o = <<>> \/ o = Line \/ o = HostPath \o Line
  BY DEF Outputs
<1>7. \A o \in {<<>>} \cup Outputs : o \in Seq(Pieces)
  BY <1>1, <1>3, <1>5, <1>6
<1>8. \A o \in {<<>>} \cup Outputs : o \o Line \in Seq(Pieces)
  BY <1>1, <1>7, ConcatProperties
<1>9. Lines \subseteq Seq(Pieces)
  BY DEF Lines, Pieces
<1>10. \A o \in {<<>>} \cup Outputs : o # HostPath \o Line <=> o \in Lines
  BY <1>1, <1>4, <1>5, <1>6
<1> QED
  BY <1>1, <1>7, <1>8, <1>9, <1>10

\* The row has its end when the task does, a publish that has not built has no
\* log, and a stream is open from when the deployment is followed.
TailType ==
    /\ row[Followed] \in Ended => at[Followed] = "over"
    /\ output \in {<<>>} \cup Outputs /\ log \in Seq(Pieces)
    /\ at[Followed] \in Unbuilt => output = <<>> /\ log = <<>>
    /\ stream \in [status : {""} \cup InFlight \cup Ended, sent : Nat]
    /\ reader \in [st : {"idle", "open", "lost", "done"}, shown : Seq(Pieces),
                   ends : 0..MaxStreams, opened : 0..MaxStreams]
    /\ reader.st # "open" => stream = NoStream /\ reader.ends <= reader.opened
    /\ reader.st = "open" => reader.ends < reader.opened
    /\ reader.st \in {"open", "lost"} => row[Followed] # "absent"
    /\ reader.st = "idle" => reader.shown = <<>> /\ reader.ends = 0
    /\ reader.st = "done" => ~Reconnects
    /\ reader.st = "lost" => Reconnects

\* As long as no path of the workspace is printed, the reader has been shown the
\* first lines of the log, as many as the stream has sent; what is written to the
\* column until the task is over is never shorter than what it had.
TailLines ==
    ~Reconnects /\ output \in Lines =>
        /\ log \in Lines /\ reader.shown \in Lines
        /\ at[Followed] \notin {"over", "dead"} => Len(log) <= Len(output)
        /\ reader.st = "open" => reader.ends = 0 /\ stream.sent = Len(reader.shown)
        /\ Len(reader.shown) <= Len(log)
        /\ reader.st = "done" /\ reader.ends # 0 =>
              reader.shown = log /\ at[Followed] = "over"

\* What the stream sends of the log.
LEMMA NewType ==
    ASSUME log \in Seq(Pieces), stream.sent \in Nat
    PROVE  New \in Seq(Pieces) /\ Len(New) \in Nat
<1>1. Len(log) \in Nat /\ \A i \in (stream.sent + 1)..Len(log) : log[i] \in Pieces
  BY ElementOfSeq
<1>2. New \in Seq(Pieces)
  BY <1>1, SubSeqProperties DEF New
<1> QED
  BY <1>2

\* What a step of the pipeline does to the log.
LEMMA LogStep ==
    ASSUME TypeOK, TailType, TailLines, [Next]_vars, WriteLog \/ UNCHANGED <<log, output>>
    PROVE  /\ output' \in {<<>>} \cup Outputs /\ log' \in Seq(Pieces)
           /\ at'[Followed] \in Unbuilt => output' = <<>> /\ log' = <<>>
           /\ at[Followed] = "over" => UNCHANGED <<log, output>>
           /\ ~Reconnects /\ output' \in Lines =>
                 /\ output \in Lines /\ log' \in Lines
                 /\ at'[Followed] \notin {"over", "dead"} => Len(log') <= Len(output')
                 /\ Len(log) <= Len(log')
<1> DEFINE a == at[Followed]
           b == at'[Followed]
           once == ~Reconnects
           Goal == /\ output' \in {<<>>} \cup Outputs /\ log' \in Seq(Pieces)
                   /\ b \in Unbuilt => output' = <<>> /\ log' = <<>>
                   /\ a = "over" => log' = log /\ output' = output
                   /\ once /\ output' \in Lines =>
                         /\ output \in Lines /\ log' \in Lines
                         /\ b \notin {"over", "dead"} => Len(log') <= Len(output')
                         /\ Len(log) <= Len(log')
<1>1. /\ output \in {<<>>} \cup Outputs /\ output \in Seq(Pieces)
      /\ output \o Line \in Seq(Pieces) /\ log \in Seq(Pieces)
      /\ <<>> \in Lines /\ Len(<<>>) = 0 /\ <<>> \in Seq(Pieces)
      /\ Len(log) \in Nat /\ Len(output) \in Nat
  <2>1. output \in {<<>>} \cup Outputs /\ log \in Seq(Pieces)
    BY DEF TailType
  <2>2. output \in Seq(Pieces) /\ output \o Line \in Seq(Pieces)
    BY <2>1, OutputFacts
  <2>3. <<>> \in Lines /\ Len(<<>>) = 0 /\ <<>> \in Seq(Pieces)
    BY DEF Lines
  <2>4. Len(log) \in Nat /\ Len(output) \in Nat
    BY <2>1, <2>2
  <2> QED
    BY <2>1, <2>2, <2>3, <2>4
<1>2. /\ b \in Unbuilt => a \in Unbuilt
      /\ a \in {"over", "dead"} => b = a
      /\ row'[Followed] \in Ended => row'[Followed] = row[Followed] \/ b = "over"
      /\ row[Followed] \in Ended => a = "over"
      /\ a \in Unbuilt => output = <<>> /\ log = <<>>
  BY FollowedMoves DEF TailType
<1>3. once /\ output \in Lines =>
         log \in Lines /\ (a \notin {"over", "dead"} => Len(log) <= Len(output))
  BY DEF TailLines
<1> HIDE DEF a, b, once
<1>4. ASSUME log' = log, output' = output PROVE Goal
  BY <1>1, <1>2, <1>3, <1>4
<1>5. ASSUME a = "build" /\ b = "preview" /\ LogBuild PROVE Goal
  <2>1. output' \in Outputs /\ log' = output' /\ output = <<>> /\ log = <<>>
    BY <1>2, <1>5 DEF LogBuild, Unbuilt
  <2>2. output' \in Seq(Pieces)
    BY <2>1, OutputFacts
  <2>3. Len(output') \in Nat
    BY <2>2
  <2> QED
    BY <1>1, <1>5, <2>1, <2>2, <2>3 DEF Unbuilt
<1>6. ASSUME a = "build" /\ b = "except" /\ LogFailedBuild PROVE Goal
  <2>1. output' \in {<<>>} \cup Outputs /\ log' = <<>> /\ output = <<>> /\ log = <<>>
    BY <1>2, <1>6 DEF LogFailedBuild, Unbuilt
  <2>2. output' \in Seq(Pieces)
    BY <2>1, OutputFacts
  <2>3. Len(output') \in Nat
    BY <2>2
  <2> QED
    BY <1>1, <1>6, <2>1, <2>2, <2>3 DEF Unbuilt
<1>7. ASSUME a = "commit" /\ row'[Followed] = "ready" /\ LogReady PROVE Goal
  <2>1. b = "over" /\ log' = Sanitized(output \o Line) /\ output' = output
    BY <1>2, <1>7 DEF LogReady, Ended
  <2>2. log' \in Seq(Pieces)
    BY <1>1, <2>1, SanitizedType
  <2>3. ASSUME once, output \in Lines PROVE log' \in Lines /\ Len(log) <= Len(log')
    <3> DEFINE more == output \o Line
    <3>1. more \in Lines /\ Len(more) = Len(output) + 1
      <4> HIDE DEF more
      <4>1. Line \in Seq({"line"}) /\ Len(Line) = 1 /\ output \in Seq({"line"})
        BY <2>3, OutputFacts DEF Lines
      <4>2. more \in Seq({"line"}) /\ Len(more) = Len(output) + Len(Line)
        BY <4>1, ConcatProperties DEF more
      <4> QED
        BY <4>1, <4>2 DEF Lines
    <3> HIDE DEF more
    <3>2. Sanitized(more) = more
      BY <3>1, LinesSanitized
    <3>3. log' = more
      BY <2>1, <3>2 DEF more
    <3> QED
      BY <1>1, <1>3, <1>7, <2>3, <3>1, <3>3
  <2> QED
    BY <1>1, <1>7, <2>1, <2>2, <2>3 DEF Unbuilt
<1>8. ASSUME a = "except" /\ row'[Followed] = "failed" /\ LogFailure PROVE Goal
  <2>1. b = "over" /\ log' \in {log, Sanitized(output)} /\ output' = output
    BY <1>2, <1>8 DEF LogFailure, Ended
  <2>2. Sanitized(output) \in Seq(Pieces)
    BY <1>1, SanitizedType
  <2>3. output \in Lines => Sanitized(output) = output
    BY LinesSanitized
  <2> QED
    BY <1>1, <1>3, <1>8, <2>1, <2>2, <2>3 DEF Unbuilt
<1> QED
  <2>1. Goal
    BY <1>4, <1>5, <1>6, <1>7, <1>8 DEF WriteLog, a, b
  <2> QED
    BY <2>1 DEF a, b, once

\* Each step of the pipeline, the stream, the readers and a death keep both.
LEMMA TailTypeStep ==
    ASSUME TypeOK, TailType, TailLines, [FollowNext]_allVars PROVE TailType'
<1> DEFINE again == Reconnects
<1>14. MaxStreams \in Nat /\ 1 \in 0..MaxStreams
  BY FollowAssumption
<1>15. [Next]_vars
  BY FollowStepPublishes
<1>1. row[Followed] \in {"absent"} \cup InFlight \cup Ended
  <2>1. Followed \in Jobs
    BY FollowAssumption DEF Jobs
  <2> QED
    BY <2>1 DEF TypeOK
<1>2. /\ at[Followed] = "over" => at'[Followed] = "over"
      /\ row[Followed] # "absent" => row'[Followed] # "absent"
      /\ row'[Followed] \in Ended => row'[Followed] = row[Followed] \/ at'[Followed] = "over"
  BY <1>15, FollowedMoves
<1>3. WriteLog \/ UNCHANGED <<log, output>>
  BY DEF FollowNext, PipelineStep, Follow, Poll, Reconnect, DieWithApi, allVars, followVars
<1>4. /\ output' \in {<<>>} \cup Outputs /\ log' \in Seq(Pieces)
      /\ at'[Followed] \in Unbuilt => output' = <<>> /\ log' = <<>>
  BY <1>15, <1>3, LogStep
<1>5. row'[Followed] \in Ended => at'[Followed] = "over"
  BY <1>2 DEF TailType
<1> DEFINE Readers == [st : {"idle", "open", "lost", "done"}, shown : Seq(Pieces),
                       ends : 0..MaxStreams, opened : 0..MaxStreams]
           ReaderOK ==
              /\ stream \in [status : {""} \cup InFlight \cup Ended, sent : Nat]
              /\ reader \in Readers
              /\ reader.st # "open" => stream = NoStream /\ reader.ends <= reader.opened
              /\ reader.st = "open" => reader.ends < reader.opened
              /\ reader.st \in {"open", "lost"} => row[Followed] # "absent"
              /\ reader.st = "idle" => reader.shown = <<>> /\ reader.ends = 0
              /\ reader.st = "done" => ~again
              /\ reader.st = "lost" => again
<1>6. ReaderOK
  BY DEF TailType
<1>16. /\ reader \in Readers /\ stream.sent \in Nat
      /\ reader.ends \in 0..MaxStreams /\ reader.opened \in 0..MaxStreams
  BY <1>6
<1>17. StreamOver \in {"lost", "done"} /\ (StreamOver = "lost" <=> again)
  BY FollowAssumption DEF StreamOver
<1> HIDE DEF again
<1>7. NoStream \in [status : {""} \cup InFlight \cup Ended, sent : Nat]
  BY DEF NoStream
<1>8. ASSUME UNCHANGED <<stream, reader>> PROVE ReaderOK'
  BY <1>2, <1>6, <1>8
<1>9. ASSUME Follow PROVE ReaderOK'
  <2>1. /\ reader.st = "idle" /\ row[Followed] \in InFlight
        /\ reader' = [reader EXCEPT !.st = "open", !.opened = 1] /\ stream' = stream
    BY <1>9 DEF Follow
  <2>2. /\ reader'.st = "open" /\ reader'.opened = 1 /\ reader'.ends = 0
        /\ reader' \in Readers
    <3>1. reader.ends = 0
      BY <1>6, <2>1
    <3> QED
      BY <1>14, <1>16, <2>1, <3>1
  <2> HIDE DEF Readers
  <2>3. row'[Followed] # "absent" /\ stream' \in [status : {""} \cup InFlight \cup Ended, sent : Nat]
    BY <1>2, <1>6, <2>1 DEF InFlight
  <2>4. reader'.ends < reader'.opened
    BY <2>2
  <2> HIDE DEF Readers
  <2> QED
    BY <2>2, <2>3, <2>4
<1>10. ASSUME Poll PROVE ReaderOK'
  <2>1. /\ reader.st = "open" /\ UNCHANGED row
        /\ stream' = IF LastEvent THEN NoStream
                     ELSE [stream EXCEPT !.sent = @ + Len(New), !.status = row[Followed]]
        /\ reader' = [reader EXCEPT !.shown = @ \o New,
                                    !.st = IF LastEvent THEN StreamOver ELSE @,
                                    !.ends = IF LastEvent THEN @ + 1 ELSE @]
    BY <1>10 DEF Poll, vars, rowVars
  <2>2. New \in Seq(Pieces) /\ Len(New) \in Nat
    BY NewType DEF TailType
  <2> DEFINE shown == reader.shown \o New
  <2>3. shown \in Seq(Pieces)
    BY <1>6, <2>2, ConcatProperties
  <2> HIDE DEF shown
  <2>4. CASE LastEvent
    <3>1. stream' = NoStream
          /\ reader' = [reader EXCEPT !.shown = shown, !.st = StreamOver, !.ends = @ + 1]
      BY <2>1, <2>4 DEF shown
    <3>2. /\ reader'.st = StreamOver /\ reader'.ends = reader.ends + 1
          /\ reader'.opened = reader.opened
      BY <1>6, <3>1
    <3>3. reader.ends + 1 \in 0..MaxStreams /\ reader.ends + 1 <= reader.opened
      <4>1. reader.ends < reader.opened
        BY <1>6, <2>1
      <4> QED
        BY <1>14, <1>16, <4>1
    <3>4. reader' \in Readers
      BY <1>17, <1>6, <2>3, <3>1, <3>3
    <3> HIDE DEF Readers
    <3>5. row'[Followed] # "absent"
      BY <1>2, <1>6, <2>1
    <3>6. reader'.ends <= reader'.opened /\ stream' = NoStream
      BY <3>1, <3>2, <3>3
    <3> QED
      BY <1>17, <1>7, <3>2, <3>4, <3>5, <3>6
  <2>5. CASE ~LastEvent
    <3>1. stream' = [stream EXCEPT !.sent = @ + Len(New), !.status = row[Followed]]
          /\ reader' = [reader EXCEPT !.shown = shown]
      BY <2>1, <2>5, <1>6 DEF shown
    <3>2. /\ reader'.st = "open" /\ reader'.ends = reader.ends
          /\ reader'.opened = reader.opened /\ reader' \in Readers
      BY <1>6, <2>1, <2>3, <3>1
    <3>3. stream' \in [status : {""} \cup InFlight \cup Ended, sent : Nat]
      <4>1. stream \in [status : {""} \cup InFlight \cup Ended, sent : Nat]
            /\ row[Followed] \in {""} \cup InFlight \cup Ended
        BY <1>1, <1>6, <2>1
      <4>2. stream.sent + Len(New) \in Nat
        BY <1>16, <2>2
      <4> QED
        BY <3>1, <4>1, <4>2
    <3> HIDE DEF Readers
    <3> QED
      BY <1>6, <2>1, <3>2, <3>3
  <2> QED
    BY <2>4, <2>5
<1>11. ASSUME Reconnect PROVE ReaderOK'
  <2>1. /\ reader.st = "lost" /\ reader.opened < MaxStreams
        /\ reader' = [reader EXCEPT !.st = "open", !.opened = @ + 1] /\ stream' = stream
    BY <1>11 DEF Reconnect
  <2>2. /\ reader'.st = "open" /\ reader'.opened = reader.opened + 1
        /\ reader'.ends = reader.ends /\ reader' \in Readers
    <3>1. reader.opened + 1 \in 0..MaxStreams
      BY <1>14, <1>16, <2>1
    <3> QED
      BY <1>16, <2>1, <3>1
  <2>3. reader.ends < reader.opened + 1
    <3>1. reader.ends <= reader.opened
      BY <1>6, <2>1
    <3> QED
      BY <1>14, <1>16, <3>1
  <2> HIDE DEF Readers
  <2> QED
    BY <1>2, <1>6, <2>1, <2>2, <2>3
<1>12. ASSUME DieWithApi PROVE ReaderOK'
  <2>1. /\ stream' = NoStream
        /\ reader' = IF reader.st = "open" THEN [reader EXCEPT !.st = StreamOver] ELSE reader
    BY <1>12 DEF DieWithApi
  <2>2. CASE reader.st = "open"
    <3>1. /\ reader'.st = StreamOver /\ reader'.ends = reader.ends
          /\ reader'.opened = reader.opened /\ reader' \in Readers
      BY <1>17, <1>6, <2>1, <2>2
    <3>2. reader.ends <= reader.opened
      <4>1. reader.ends < reader.opened
        BY <1>6, <2>2
      <4> QED
        BY <1>14, <1>16, <4>1
    <3> HIDE DEF Readers
    <3> QED
      BY <1>17, <1>2, <1>6, <1>7, <2>1, <2>2, <3>1, <3>2
  <2>3. CASE reader.st # "open"
    BY <1>2, <1>6, <1>7, <2>1, <2>3
  <2> QED
    BY <2>2, <2>3
<1>13. ReaderOK'
  BY <1>8, <1>9, <1>10, <1>11, <1>12 DEF FollowNext, PipelineStep, allVars, followVars
<1> QED
  BY <1>4, <1>5, <1>13 DEF TailType, again

\* So they do what has been shown of the log.
LEMMA TailLinesStep ==
    ASSUME TypeOK, TailType, TailLines, [FollowNext]_allVars PROVE TailLines'
<1> SUFFICES ASSUME ~Reconnects, output' \in Lines
             PROVE  /\ log' \in Lines /\ reader'.shown \in Lines
                    /\ at'[Followed] \notin {"over", "dead"} => Len(log') <= Len(output')
                    /\ reader'.st = "open" => reader'.ends = 0 /\ stream'.sent = Len(reader'.shown)
                    /\ Len(reader'.shown) <= Len(log')
                    /\ reader'.st = "done" /\ reader'.ends # 0 =>
                          reader'.shown = log' /\ at'[Followed] = "over"
  BY DEF TailLines
<1>1. [Next]_vars
  BY FollowStepPublishes
<1>2. at[Followed] = "over" => at'[Followed] = "over"
  BY <1>1, FollowedMoves
<1>3. WriteLog \/ UNCHANGED <<log, output>>
  BY DEF FollowNext, PipelineStep, Follow, Poll, Reconnect, DieWithApi, allVars, followVars
<1>4. /\ at[Followed] = "over" => UNCHANGED <<log, output>>
      /\ output \in Lines /\ log' \in Lines
      /\ at'[Followed] \notin {"over", "dead"} => Len(log') <= Len(output')
      /\ Len(log) <= Len(log')
  BY <1>1, <1>3, LogStep
<1>5. /\ log \in Lines /\ reader.shown \in Lines /\ log \in Seq({"line"})
      /\ reader.st = "open" => reader.ends = 0 /\ stream.sent = Len(reader.shown)
      /\ Len(reader.shown) <= Len(log)
      /\ reader.st = "done" /\ reader.ends # 0 => reader.shown = log /\ at[Followed] = "over"
  BY <1>4 DEF TailLines, Lines
<1>6. Len(log) \in Nat /\ Len(log') \in Nat /\ Len(reader.shown) \in Nat
  BY <1>4, <1>5 DEF Lines
<1>7. reader \in [st : {"idle", "open", "lost", "done"}, shown : Seq(Pieces),
                  ends : 0..MaxStreams, opened : 0..MaxStreams]
  BY DEF TailType
<1> DEFINE Shown == /\ reader'.shown \in Lines
                    /\ reader'.st = "open" => reader'.ends = 0 /\ stream'.sent = Len(reader'.shown)
                    /\ Len(reader'.shown) <= Len(log')
                    /\ reader'.st = "done" /\ reader'.ends # 0 =>
                          reader'.shown = log' /\ at'[Followed] = "over"
<1>8. ASSUME UNCHANGED <<stream, reader>> PROVE Shown
  BY <1>2, <1>4, <1>5, <1>6, <1>8
<1>9. ASSUME Follow PROVE Shown
  <2>1. /\ reader.st = "idle" /\ reader' = [reader EXCEPT !.st = "open", !.opened = 1]
        /\ stream' = stream /\ log' = log
    BY <1>9 DEF Follow
  <2>2. reader.shown = <<>> /\ reader.ends = 0 /\ stream.sent = 0
    <3>1. reader.shown = <<>> /\ reader.ends = 0 /\ stream = NoStream
      BY <2>1 DEF TailType
    <3> QED
      BY <3>1 DEF NoStream
  <2>3. reader'.st = "open" /\ reader'.shown = <<>> /\ reader'.ends = 0
    BY <1>7, <2>1, <2>2
  <2> QED
    BY <1>5, <1>6, <2>1, <2>2, <2>3
<1>10. ASSUME Poll PROVE Shown
  <2>1. /\ reader.st = "open" /\ log' = log /\ at' = at
        /\ stream' = IF LastEvent THEN NoStream
                     ELSE [stream EXCEPT !.sent = @ + Len(New), !.status = row[Followed]]
        /\ reader' = [reader EXCEPT !.shown = @ \o New,
                                    !.st = IF LastEvent THEN StreamOver ELSE @,
                                    !.ends = IF LastEvent THEN @ + 1 ELSE @]
    BY <1>10 DEF Poll, vars, jobVars
  <2> DEFINE more == reader.shown \o New
  <2>2. New \in Seq({"line"}) /\ Len(New) = Len(log) - Len(reader.shown)
    BY <1>5, <1>6, <2>1, SubSeqProperties, ElementOfSeq DEF New
  <2>3. more \in Lines /\ Len(more) = Len(log)
    <3>1. reader.shown \in Seq({"line"})
      BY <1>5 DEF Lines
    <3>2. more \in Seq({"line"}) /\ Len(more) = Len(reader.shown) + Len(New)
      BY <2>2, <3>1, ConcatProperties
    <3> QED
      BY <1>6, <2>2, <3>2 DEF Lines
  <2>4. more = log
    BY <1>5, <2>3, SameLines
  <2>5. reader'.shown = log
    BY <1>7, <2>1, <2>4
  <2>6. CASE LastEvent
    <3>1. at[Followed] = "over"
      BY <2>6 DEF LastEvent, TailType
    <3>2. reader'.st # "open"
      BY <1>7, <2>1, <2>6 DEF StreamOver
    <3>3. at'[Followed] = "over" /\ log' = log /\ Len(reader'.shown) <= Len(log')
      BY <1>6, <2>1, <2>5, <3>1
    <3>4. reader'.shown \in Lines
      BY <1>5, <2>5
    <3> QED
      BY <2>5, <3>2, <3>3, <3>4
  <2>7. CASE ~LastEvent
    <3>1. stream' = [stream EXCEPT !.sent = @ + Len(New), !.status = row[Followed]]
          /\ reader'.st = "open" /\ reader'.ends = reader.ends
      BY <1>7, <2>1, <2>7
    <3>2. stream'.sent = stream.sent + Len(New)
      BY <3>1 DEF TailType
    <3>3. stream'.sent = Len(log)
      BY <1>5, <1>6, <2>1, <2>2, <3>2
    <3>4. log' = log /\ Len(reader'.shown) <= Len(log') /\ stream'.sent = Len(reader'.shown)
      BY <1>6, <2>1, <2>5, <3>3
    <3>5. reader'.shown \in Lines /\ reader'.ends = 0
      BY <1>5, <2>1, <2>5, <3>1
    <3> QED
      BY <3>1, <3>4, <3>5
  <2> QED
    BY <2>6, <2>7
<1>11. ASSUME Reconnect PROVE Shown
  BY <1>11 DEF Reconnect, TailType
<1>12. ASSUME DieWithApi PROVE Shown
  <2>1. /\ stream' = NoStream /\ log' = log
        /\ reader' = IF reader.st = "open" THEN [reader EXCEPT !.st = StreamOver] ELSE reader
    BY <1>12 DEF DieWithApi
  <2>2. reader'.shown = reader.shown /\ reader'.ends = reader.ends
    BY <1>7, <2>1
  <2>3. reader'.st # "open"
    BY <1>7, <2>1 DEF StreamOver
  <2>4. reader'.st = "done" /\ reader'.ends # 0 => reader.st = "done"
    BY <1>5, <1>7, <2>1, <2>2
  <2> QED
    BY <1>2, <1>5, <1>6, <2>1, <2>2, <2>3, <2>4
<1>13. Shown
  BY <1>8, <1>9, <1>10, <1>11, <1>12 DEF FollowNext, PipelineStep, allVars, followVars
<1> QED
  BY <1>4, <1>13

\* TailType and TailLines hold whatever the pipeline, its log and its readers do.
THEOREM TailInvHolds == CliSpec => [](TailType /\ TailLines)
<1>1. CliInit => TailType /\ TailLines
  <2> SUFFICES ASSUME CliInit PROVE TailType /\ TailLines
    OBVIOUS
  <2>1. /\ row[Followed] = "absent" /\ at[Followed] = "none"
        /\ log = <<>> /\ output = <<>> /\ stream = NoStream
        /\ reader = [st |-> "idle", shown |-> <<>>, ends |-> 0, opened |-> 0]
    BY FollowAssumption DEF CliInit, FollowInit, Init, Jobs
  <2>2. <<>> \in Lines /\ <<>> \in Seq(Pieces) /\ Len(<<>>) = 0 /\ 0 \in 0..MaxStreams
    BY FollowAssumption DEF Lines
  <2>3. reader.st = "idle" /\ reader.shown = <<>> /\ reader.ends = 0 /\ reader.opened = 0
    BY <2>1
  <2>4. TailLines
    BY <2>1, <2>2, <2>3 DEF TailLines
  <2>5. stream \in [status : {""} \cup InFlight \cup Ended, sent : Nat]
    BY <2>1 DEF NoStream
  <2>6. reader \in [st : {"idle", "open", "lost", "done"}, shown : Seq(Pieces),
                    ends : 0..MaxStreams, opened : 0..MaxStreams]
    BY <2>1, <2>2
  <2>7. TailType
    <3>1. row[Followed] \notin Ended /\ output \in {<<>>} \cup Outputs /\ log \in Seq(Pieces)
      BY <2>1, <2>2 DEF Ended
    <3>2. reader.st \notin {"open", "lost", "done"} /\ stream = NoStream /\ reader.ends <= reader.opened
      BY <2>1, <2>3
    <3> QED
      BY <2>1, <2>3, <2>5, <2>6, <3>1, <3>2 DEF TailType
  <2> QED
    BY <2>4, <2>7
<1>2. ASSUME TypeOK, TailType, TailLines, [CliNext]_cliVars PROVE TailType' /\ TailLines'
  BY <1>2, CliStep, TailTypeStep, TailLinesStep
<1> QED
  BY <1>1, <1>2, CliPublishes, TypeCorrect, PTL DEF CliSpec

\* `polaris publish` shows its user the whole log, each line once.
THEOREM TailCompleteHolds == CliSpec => []TailComplete
<1>1. ASSUME TailType, TailLines PROVE TailComplete
  <2> SUFFICES ASSUME reader.st = "done", reader.ends = 1, output # HostPath \o Line
               PROVE  reader.shown = log
    BY DEF TailComplete
  <2>1. ~Reconnects
    BY <1>1 DEF TailType
  <2>2. output \in Lines
    BY <1>1, OutputFacts DEF TailType
  <2> QED
    BY <1>1, <2>1, <2>2 DEF TailLines
<1> QED
  BY <1>1, TailInvHolds, PTL

-----------------------------------------------------------------------------
(* secrets.env.                                                            *)

Secrets == [src : {"none", "random", "composed", "static"}, n : Nat, escaped : Nat]

\* The password of the database is a generated one, and a composed URL holds it.
SecretsInv ==
    /\ {manifest} \cup deployed \subseteq Manifests \cup {NoManifest}
    /\ rounds \in Nat /\ vault \in [Keys -> Secrets]
    /\ vault["POSTGRES_PASSWORD"] = Absent \/ vault["POSTGRES_PASSWORD"].src = "random"
    /\ vault["DATABASE_URL"].src = "composed" =>
          /\ vault["POSTGRES_PASSWORD"].src = "random"
          /\ vault["DATABASE_URL"].n = vault["POSTGRES_PASSWORD"].n

\* What a publish keeps of secrets.env.
Kept ==
    /\ \A k \in Keys : vault[k].src \in {"random", "composed"} => vault'[k] = vault[k]
    /\ vault'["DATABASE_URL"].src = "composed" =>
          vault'["DATABASE_URL"].n = vault'["POSTGRES_PASSWORD"].n

\* What is declared is generated once.
LEMMA DeclaredFacts ==
    ASSUME SecretsInv, NEW m \in Manifests \cup {NoManifest}
    PROVE  /\ \A k \in Keys : Declared(m, k) \in Secrets
           /\ Password(m) = Absent \/ Password(m).src = "random"
           /\ Declared(m, "POSTGRES_PASSWORD") = Password(m)
           /\ \A k \in Keys : vault[k].src \in {"random", "composed"} => Declared(m, k) = vault[k]
           /\ Declared(m, "DATABASE_URL").src = "composed" =>
                 /\ Password(m).src = "random"
                 /\ Declared(m, "DATABASE_URL").n = Password(m).n
<1> DEFINE pp == vault["POSTGRES_PASSWORD"]
<1>1. /\ pp = Absent \/ pp.src = "random"
      /\ vault["DATABASE_URL"].src = "composed" => pp.src = "random" /\ vault["DATABASE_URL"].n = pp.n
      /\ pp \in Secrets /\ \A k \in Keys : vault[k] \in Secrets
  BY DEF SecretsInv, Keys
<1>2. Random \in Secrets /\ Random.src = "random"
  BY DEF Random, Secrets, SecretsInv
<1>3. \A k \in Keys : vault[k].src \in {"random", "composed"} => Exists(k)
  BY DEF Exists, Absent
<1>4. /\ Password(m) \in Secrets
      /\ Password(m) = Absent \/ Password(m).src = "random"
      /\ "postgres" \in m.deps => Password(m).src = "random"
      /\ pp.src = "random" => Password(m) = pp
  BY <1>1, <1>2, <1>3 DEF Password, Exists, Keys
<1>5. UrlOf(Password(m)) \in Secrets /\ UrlOf(Password(m)).n = Password(m).n
  BY <1>4 DEF UrlOf, Secrets
<1>6. ASSUME NEW k \in Keys
      PROVE  /\ Declared(m, k) \in Secrets
             /\ vault[k].src \in {"random", "composed"} => Declared(m, k) = vault[k]
  <2>1. CASE k = "POSTGRES_PASSWORD"
    BY <1>1, <1>4, <2>1 DEF Declared, Absent
  <2>2. CASE k # "POSTGRES_PASSWORD" /\ (k \notin m.secrets \/ Exists(k))
    BY <1>1, <2>2 DEF Declared
  <2>3. CASE k # "POSTGRES_PASSWORD" /\ ~(k \notin m.secrets \/ Exists(k))
    BY <1>2, <1>3, <1>5, <2>3 DEF Declared
  <2> QED
    BY <2>1, <2>2, <2>3
<1>7. Declared(m, "POSTGRES_PASSWORD") = Password(m)
  BY DEF Declared
<1>8. ASSUME Declared(m, "DATABASE_URL").src = "composed"
      PROVE  Password(m).src = "random" /\ Declared(m, "DATABASE_URL").n = Password(m).n
  <2> DEFINE k == "DATABASE_URL"
  <2>1. CASE k \notin m.secrets \/ Exists(k)
    <3>1. Declared(m, k) = vault[k]
      BY <2>1 DEF Declared
    <3> QED
      BY <1>1, <1>4, <1>8, <3>1
  <2>2. CASE ~(k \notin m.secrets \/ Exists(k))
    <3>1. Declared(m, k) = IF "postgres" \in m.deps THEN UrlOf(Password(m)) ELSE Random
      BY <2>2 DEF Declared
    <3> QED
      BY <1>2, <1>4, <1>5, <1>8, <3>1
  <2> QED
    BY <2>1, <2>2
<1> QED
  BY <1>4, <1>6, <1>7, <1>8

\* A deployment keeps the secrets.
LEMMA DeployKeeps ==
    ASSUME SecretsInv, NEW m \in Manifests \cup {NoManifest}, Deploy(m), manifest' \in Manifests \cup {NoManifest}
    PROVE  SecretsInv' /\ Kept
<1> DEFINE d == [k \in Keys |-> Declared(m, k)]
           pp == "POSTGRES_PASSWORD"
           db == "DATABASE_URL"
           new == [k \in Keys |-> IF k = "SETTING" /\ m.env # 0 /\ ~Exists(k) THEN Static(m.env)
                                  ELSE Written(d[k])]
<1>1. rounds' \in Nat /\ deployed' = deployed \cup {m} /\ {manifest'} \cup deployed' \subseteq Manifests \cup {NoManifest}
  BY DEF Deploy, SecretsInv
<1>2. vault' = vault \/ vault' = new
  BY DEF Deploy, Materialize
<1>3. CASE vault' = vault
  BY <1>1, <1>3 DEF SecretsInv, Kept
<1>4. CASE vault' = new
  <2>1. /\ \A k \in Keys : d[k] \in Secrets
        /\ d[pp] = Absent \/ d[pp].src = "random"
        /\ \A k \in Keys : vault[k].src \in {"random", "composed"} => d[k] = vault[k]
        /\ d[db].src = "composed" => d[pp].src = "random" /\ d[db].n = d[pp].n
    BY DeclaredFacts DEF Keys
  <2>2. m.env \in Nat
    BY DEF Manifests, NoManifest
  <2>3. Static(m.env) \in Secrets
    BY <2>2 DEF Static, Secrets
  <2> HIDE DEF d
  <2>4. \A k \in Keys : /\ Written(d[k]) \in Secrets /\ Written(d[k]).src = d[k].src
                        /\ d[k].src # "static" => Written(d[k]) = d[k]
    BY <2>1 DEF Written, Secrets
  <2>5. vault' \in [Keys -> Secrets]
    BY <1>4, <2>3, <2>4
  <2>6. vault'[pp] = Written(d[pp]) /\ vault'[db] = Written(d[db])
    BY <1>4 DEF Keys
  <2>7. pp \in Keys /\ db \in Keys
    BY DEF Keys
  <2>8. vault'[pp] = d[pp] /\ (d[db].src = "composed" => vault'[db] = d[db]) /\ vault'[db].src = d[db].src
    BY <2>1, <2>4, <2>6, <2>7 DEF Absent
  <2>9. ASSUME NEW k \in Keys, vault[k].src \in {"random", "composed"} PROVE vault'[k] = vault[k]
    <3>1. Exists(k) /\ d[k] = vault[k]
      BY <2>1, <2>9 DEF Exists, Absent
    <3>2. vault'[k] = Written(d[k])
      BY <1>4, <3>1
    <3> QED
      BY <2>4, <2>9, <3>1, <3>2
  <2>10. Kept
    BY <2>1, <2>8, <2>9 DEF Kept
  <2>11. vault'[pp] = Absent \/ vault'[pp].src = "random"
    BY <2>1, <2>8
  <2>12. vault'[db].src = "composed" => vault'[pp].src = "random" /\ vault'[db].n = vault'[pp].n
    BY <2>1, <2>8
  <2> HIDE DEF new
  <2>13. SecretsInv'
    BY <1>1, <2>5, <2>11, <2>12 DEF SecretsInv, Absent
  <2> QED
    BY <2>10, <2>13
<1> QED
  BY <1>2, <1>3, <1>4

\* So does every other step of the site.
LEMMA SecretsStep ==
    ASSUME SecretsInv, [SiteNext \/ Audit]_siteConfigVars PROVE SecretsInv' /\ Kept
<1>1. Plain \in Manifests
  BY DEF Plain, Manifests
<1>2. ASSUME UNCHANGED <<deployed, vault, rounds>>, manifest' \in Manifests \cup {NoManifest}
      PROVE  SecretsInv' /\ Kept
  BY <1>2 DEF SecretsInv, Kept, Absent
<1>3. ASSUME NEW repo \in Markers, PublishSite(repo) PROVE SecretsInv' /\ Kept
  <2>1. manifest' \in Manifests \cup {NoManifest} /\ Deploy(manifest')
    BY <1>1, <1>3 DEF PublishSite, SecretsInv
  <2> QED
    BY <2>1, DeployKeeps
<1>4. ASSUME RollBackSite PROVE SecretsInv' /\ Kept
  <2>1. PICK m \in deployed : Deploy(m)
    BY <1>4 DEF RollBackSite
  <2>2. m \in Manifests \cup {NoManifest} /\ manifest' \in Manifests \cup {NoManifest}
    BY <1>4 DEF RollBackSite, SecretsInv
  <2> QED
    BY <2>1, <2>2, DeployKeeps
<1>5. ASSUME NEW stack \in CliStacks, NEW force \in BOOLEAN, Scaffold(stack, force) PROVE SecretsInv' /\ Kept
  BY <1>1, <1>2, <1>5 DEF Scaffold
<1>6. ASSUME NEW m \in Manifests, WriteManifest(m) PROVE SecretsInv' /\ Kept
  BY <1>2, <1>6 DEF WriteManifest
<1>7. ASSUME Audit \/ UNCHANGED siteConfigVars PROVE SecretsInv' /\ Kept
  BY <1>2, <1>7 DEF Audit, siteConfigVars, SecretsInv
<1> QED
  BY <1>3, <1>4, <1>5, <1>6, <1>7 DEF SiteNext

\* The secrets that the publishes of a project share stay what they are, and a URL
\* that was composed opens the database.
THEOREM SiteKeepsSecretsHolds == CliSpec => SiteKeepsSecrets
<1>1. CliInit => SecretsInv
  BY DEF CliInit, SiteInit, SecretsInv, Secrets, Absent, Keys
<1>2. ASSUME SecretsInv, [CliNext]_cliVars PROVE SecretsInv' /\ [Kept]_siteConfigVars
  BY <1>2, CliStep, SecretsStep
<1> QED
  BY <1>1, <1>2, PTL DEF CliSpec, SiteKeepsSecrets, Kept

-----------------------------------------------------------------------------
(* The dependency of a workspace.                                          *)

Ensuring(c) == Active(c) /\ call[c].op = "ensure"
Removing(c) == Active(c) /\ Removes(call[c].op)

\* A call that has not loaded the row knows of none, and a call only goes where
\* its operation takes it.
CallsInv ==
    /\ dep.id = 0 => dep = NoDep
    /\ \A c \in Calls :
          /\ call[c].seen.id = 0 => call[c].seen = NoDep
          /\ call[c].pc \in {"new", "select", "down"} => call[c].seen = NoDep
          /\ call[c].pc \in {"inspect", "refresh"} => call[c].seen # NoDep
          /\ call[c].pc \in {"inspect", "rm", "volume", "run", "health", "upsert"} =>
                call[c].op = "ensure"
          /\ call[c].pc \in {"drop_box", "drop_volume", "drop_row", "cascade", "down"} =>
                Removes(call[c].op)
          /\ call[c].pc = "refresh" => call[c].op = "list"

\* As long as nothing is left over, ensures and removals do not overlap: the row
\* that an ensure has loaded is there, a removal that has removed the container
\* does not see another, and a container without a row is that of an ensure which
\* is about to write it.
OrphanInv ==
    ~leftover =>
        /\ \A c, d \in Calls : ~(Ensuring(c) /\ Removing(d))
        /\ \A c \in Calls : Ensuring(c) =>
              owner /\ (call[c].seen # NoDep => dep.id = call[c].seen.id)
        /\ box # "none" /\ dep = NoDep =>
              \E c \in Calls : Ensuring(c) /\ call[c].pc \in {"health", "upsert"}
        /\ \A c \in Calls :
              Removing(c) /\ call[c].pc \in {"drop_volume", "drop_row", "cascade"} => box = "none"

\* An ensure that nothing has disturbed is alone, and finds what it left.
CalmInv ==
    \A c \in Calls : Ensuring(c) /\ call[c].calm =>
        /\ owner /\ \A d \in Calls : Active(d) => d = c
        /\ call[c].pc # "select" => network
        /\ call[c].seen # NoDep =>
              /\ dep.id = call[c].seen.id
              /\ call[c].pc \in {"volume", "run"} => box = "none"
        /\ call[c].pc = "health" => box = "running"

Statuses == {"none", "running", "stopped", "created", "exited"}
CallRecs == [op : CliOps \cup {"delete"}, pc : CallPc, seen : [id : Nat, status : Statuses],
             found : Boxes \cup {"stopped"}, answer : {"none", "ok", "409", "500"},
             waits : BOOLEAN, calm : BOOLEAN]

\* Nothing changes of a call.
Same(d) == call'[d] = call[d]

\* A call goes on, loads the row, or answers.
LEMMA StepFacts ==
    ASSUME call \in [Calls -> CallRecs], NEW c \in Calls, NEW from, NEW to \in CallPc, Step(c, from, to)
    PROVE  /\ call' \in [Calls -> CallRecs] /\ \A d \in Calls : d # c => Same(d)
           /\ call[c].pc = from /\ call'[c].pc = to /\ call'[c].op = call[c].op
           /\ call'[c].seen = call[c].seen /\ call'[c].calm = call[c].calm
BY DEF Step, Same, CallRecs

\* What an answer leaves of a call.
LEMMA AnswerFacts ==
    ASSUME call \in [Calls -> CallRecs], NEW c \in Calls, NEW from, NEW a \in {"ok", "409", "500"},
           Answer(c, from, a)
    PROVE  /\ call' \in [Calls -> CallRecs] /\ \A d \in Calls : d # c => Same(d)
           /\ call[c].pc = from /\ call'[c].pc = "done" /\ call'[c].op = call[c].op
           /\ call'[c].seen = NoDep /\ call'[c].answer = a
<1> DEFINE r == [Asleep EXCEPT !.op = call[c].op, !.pc = "done", !.answer = a]
<1>1. call[c].op \in CliOps \cup {"delete"} /\ "done" \in CallPc
  BY DEF CallRecs, CallPc
<1>2. r \in CallRecs /\ r.pc = "done" /\ r.op = call[c].op /\ r.seen = NoDep /\ r.answer = a
  BY <1>1 DEF CallRecs, Asleep, NoDep, Boxes, Statuses
<1> HIDE DEF r
<1>3. call[c].pc = from /\ call' = [call EXCEPT ![c] = r]
  BY DEF Answer, r
<1> QED
  BY <1>2, <1>3 DEF Same

\* What loading the row leaves of a call.
LEMMA LoadFacts ==
    ASSUME call \in [Calls -> CallRecs], NEW c \in Calls, NEW to \in CallPc,
           dep \in [id : Nat, status : Statuses],
           NEW f \in Boxes \cup {"stopped"},
           \/ call' = [call EXCEPT ![c].seen = dep, ![c].found = f, ![c].pc = to]
           \/ call' = [call EXCEPT ![c].seen = dep, ![c].pc = to]
    PROVE  /\ call' \in [Calls -> CallRecs] /\ \A d \in Calls : d # c => Same(d)
           /\ call'[c].pc = to /\ call'[c].op = call[c].op
           /\ call'[c].seen = dep /\ call'[c].calm = call[c].calm
<1>1. CASE call' = [call EXCEPT ![c].seen = dep, ![c].found = f, ![c].pc = to]
  <2> DEFINE x == call[c]
             r == [x EXCEPT !.seen = dep, !.found = f, !.pc = to]
  <2>1. r \in CallRecs /\ r.pc = to /\ r.op = x.op /\ r.seen = dep /\ r.calm = x.calm
    <3>1. x \in CallRecs
      OBVIOUS
    <3> HIDE DEF x
    <3> QED
      BY <3>1 DEF CallRecs
  <2>2. call' = [call EXCEPT ![c] = r]
    BY <1>1
  <2> HIDE DEF r
  <2> QED
    BY <2>1, <2>2 DEF Same
<1>2. CASE call' = [call EXCEPT ![c].seen = dep, ![c].pc = to]
  <2> DEFINE x == call[c]
             r == [x EXCEPT !.seen = dep, !.pc = to]
  <2>1. r \in CallRecs /\ r.pc = to /\ r.op = x.op /\ r.seen = dep /\ r.calm = x.calm
    <3>1. x \in CallRecs
      OBVIOUS
    <3> HIDE DEF x
    <3> QED
      BY <3>1 DEF CallRecs
  <2>2. call' = [call EXCEPT ![c] = r]
    BY <1>2
  <2> HIDE DEF r
  <2> QED
    BY <2>1, <2>2 DEF Same
<1> QED
  BY <1>1, <1>2

\* What calls under way notice of something else.
LEMMA DisturbedFacts ==
    ASSUME call \in [Calls -> CallRecs]
    PROVE  /\ Disturbed \in [Calls -> CallRecs]
           /\ \A d \in Calls : /\ Disturbed[d].pc = call[d].pc /\ Disturbed[d].op = call[d].op
                               /\ Disturbed[d].seen = call[d].seen
                               /\ Active(d) => ~Disturbed[d].calm
<1>1. ASSUME NEW d \in Calls
      PROVE  /\ Disturbed[d] \in CallRecs /\ Disturbed[d].pc = call[d].pc
             /\ Disturbed[d].op = call[d].op /\ Disturbed[d].seen = call[d].seen
             /\ Active(d) => ~Disturbed[d].calm
  <2> DEFINE x == call[d]
             r == [x EXCEPT !.calm = FALSE]
  <2>1. x \in CallRecs
    OBVIOUS
  <2>2. Disturbed[d] = IF Active(d) THEN r ELSE x
    BY DEF Disturbed
  <2>3. r \in CallRecs /\ r.pc = x.pc /\ r.op = x.op /\ r.seen = x.seen /\ ~r.calm
    <3> HIDE DEF x
    <3> QED
      BY <2>1 DEF CallRecs
  <2> HIDE DEF r
  <2> QED
    BY <2>1, <2>2, <2>3
<1> DEFINE D(d) == IF Active(d) THEN [call[d] EXCEPT !.calm = FALSE] ELSE call[d]
<1>2. Disturbed = [d \in Calls |-> D(d)]
  BY DEF Disturbed
<1>3. \A d \in Calls : D(d) = Disturbed[d]
  BY DEF Disturbed
<1> HIDE DEF D
<1> QED
  BY <1>1, <1>2, <1>3

\* A call arrives.
LEMMA ArriveFacts ==
    ASSUME call \in [Calls -> CallRecs], NEW c \in Calls, NEW op \in CliOps \cup {"delete"}, Arrive(c, op)
    PROVE  /\ call' \in [Calls -> CallRecs] /\ call[c].pc = "new" /\ call'[c].op = op
           /\ call'[c].pc \in {"down", "select"} /\ (call'[c].pc = "down" => op = "delete")
           /\ call'[c].seen = call[c].seen /\ (call'[c].calm => \A d \in Calls : ~Active(d))
           /\ \A d \in Calls : d # c =>
                 /\ call'[d].pc = call[d].pc /\ call'[d].op = call[d].op
                 /\ call'[d].seen = call[d].seen /\ (Active(d) => ~call'[d].calm)
<1> DEFINE w == op \in CliOps
           q == \A d \in Calls : ~Active(d)
           p == IF op = "delete" THEN "down" ELSE "select"
           x == Disturbed[c]
           r == [x EXCEPT !.op = op, !.pc = p, !.waits = w, !.calm = q]
<1>1. call[c].pc = "new" /\ call' = [Disturbed EXCEPT ![c] = r]
  BY DEF Arrive
<1>2. /\ Disturbed \in [Calls -> CallRecs]
      /\ \A d \in Calls : /\ Disturbed[d].pc = call[d].pc /\ Disturbed[d].op = call[d].op
                          /\ Disturbed[d].seen = call[d].seen
                          /\ Active(d) => ~Disturbed[d].calm
  BY DisturbedFacts
<1>3. w \in BOOLEAN /\ q \in BOOLEAN /\ p \in {"down", "select"} /\ p \in CallPc /\ (p = "down" => op = "delete")
  BY DEF CallPc
<1> HIDE DEF w, q, p
<1>4. r \in CallRecs /\ r.pc = p /\ r.op = op /\ r.seen = x.seen /\ r.calm = q
  <2>1. x \in CallRecs
    BY <1>2
  <2> HIDE DEF x
  <2> QED
    BY <1>3, <2>1 DEF CallRecs
<1> HIDE DEF r
<1>5. call' \in [Calls -> CallRecs] /\ call'[c] = r /\ \A d \in Calls : d # c => call'[d] = Disturbed[d]
  BY <1>1, <1>2, <1>4
<1> QED
  BY <1>1, <1>2, <1>3, <1>4, <1>5 DEF q

\* The type of the state.
DepType ==
    /\ dep \in [id : Nat, status : Statuses] /\ dep.id \in 0..ids /\ ids \in Nat
    /\ box \in Boxes /\ {volume, network, owner, leftover} \subseteq BOOLEAN
    /\ call \in [Calls -> CallRecs] /\ depFaults \in 0..MaxDepFaults
    /\ box # "none" => volume

DepInv == DepType /\ CallsInv /\ OrphanInv /\ CalmInv

\* A call that ends leaves the container with its row, or without one the call has
\* not made: the row that an ensure has loaded is still there.
LEMMA EndedLeaves ==
    ASSUME DepInv, NEW c \in Calls, \A d \in Calls : d # c => Same(d), call'[c].pc = "done",
           UNCHANGED <<dep, owner>>, box' = box \/ box' = "none",
           leftover => leftover',
           First(c) /\ Active(c) /\ call[c].pc \in {"health", "upsert"} => leftover'
    PROVE  OrphanInv'
<1> SUFFICES ASSUME ~leftover' PROVE OrphanInv'
  BY DEF OrphanInv
<1>1. OrphanInv /\ CallsInv /\ ~leftover /\ ~Active(c)'
  BY DEF DepInv, Active
<1>2. \A d \in Calls : /\ Ensuring(d)' => d # c /\ Ensuring(d)
                       /\ Removing(d)' => d # c /\ Removing(d)
  BY <1>1 DEF Ensuring, Removing, Active, Same
<1>3. ASSUME box' # "none", dep' = NoDep
      PROVE  \E e \in Calls : Ensuring(e)' /\ call'[e].pc \in {"health", "upsert"}
  <2>1. PICK e \in Calls : Ensuring(e) /\ call[e].pc \in {"health", "upsert"}
    BY <1>1, <1>3 DEF OrphanInv
  <2>2. First(e)
    BY <1>1, <1>3, <2>1 DEF OrphanInv, CallsInv, First, Ensuring, NoDep
  <2>3. e # c
    BY <2>1, <2>2 DEF Ensuring
  <2> QED
    BY <2>1, <2>3 DEF Ensuring, Active, Same
<1> QED
  BY <1>1, <1>2, <1>3 DEF OrphanInv, Same

\* The network is there when the row is loaded.
LEMMA SelectDepStep == ASSUME DepInv, NEW c \in Calls, SelectDep(c) PROVE DepInv'
<1>1. /\ call' \in [Calls -> CallRecs] /\ \A d \in Calls : d # c => Same(d)
      /\ UNCHANGED <<dep, ids, box, volume, network, owner, leftover, depFaults>>
      /\ call[c].pc = "select" /\ call[c].op = "ensure" /\ call'[c].op = "ensure"
      /\ \/ call'[c].pc = "done" /\ call'[c].seen = NoDep
         \/ /\ network /\ call'[c].seen = dep /\ call'[c].calm = call[c].calm
            /\ call'[c].pc = IF dep = NoDep THEN "volume" ELSE "inspect"
  <2> DEFINE to == IF dep = NoDep THEN "volume" ELSE "inspect"
  <2>1. /\ call[c].op = "ensure" /\ call \in [Calls -> CallRecs] /\ dep \in [id : Nat, status : Statuses]
        /\ UNCHANGED <<dep, ids, box, volume, network, owner, leftover, depFaults>>
    BY DEF SelectDep, DepInv, DepType
  <2>2. CASE Answer(c, "select", "409")
    BY <2>1, <2>2, AnswerFacts
  <2>3. CASE network /\ call[c].pc = "select" /\ call' = [call EXCEPT ![c].seen = dep, ![c].pc = to]
    <3>1. to \in CallPc /\ "none" \in Boxes \cup {"stopped"}
      BY DEF CallPc, Boxes
    <3> HIDE DEF to
    <3>2. /\ call' \in [Calls -> CallRecs] /\ \A d \in Calls : d # c => Same(d)
          /\ call'[c].pc = to /\ call'[c].op = call[c].op
          /\ call'[c].seen = dep /\ call'[c].calm = call[c].calm
      BY <2>1, <2>3, <3>1, LoadFacts
    <3> QED
      BY <2>1, <2>3, <3>2 DEF to
  <2> QED
    BY <2>2, <2>3 DEF SelectDep
<1>2. DepType'
  BY <1>1 DEF DepInv, DepType
<1>3. CallsInv'
  BY <1>1 DEF DepInv, DepType, CallsInv, Same, Removes
<1>4. OrphanInv'
  BY <1>1 DEF DepInv, DepType, OrphanInv, CallsInv, Same, Ensuring, Removing, Active, Removes
<1>5. CalmInv'
  BY <1>1 DEF DepInv, DepType, CalmInv, CallsInv, Same, Ensuring, Active
<1> QED
  BY <1>2, <1>3, <1>4, <1>5 DEF DepInv

\* The fast path writes the row it has loaded, or none.
LEMMA InspectStep == ASSUME DepInv, NEW c \in Calls, Inspect(c) PROVE DepInv'
<1>1. /\ call' \in [Calls -> CallRecs] /\ \A d \in Calls : d # c => Same(d)
      /\ UNCHANGED <<ids, box, volume, network, owner, leftover, depFaults>>
      /\ call[c].pc = "inspect" /\ call'[c].op = call[c].op
      /\ \/ call'[c].pc = "done" /\ call'[c].seen = NoDep
         \/ call'[c].pc = "rm" /\ call'[c].seen = call[c].seen /\ call'[c].calm = call[c].calm
      /\ \/ dep' = dep
         \/ dep.id = call[c].seen.id /\ dep' = [dep EXCEPT !.status = "running"]
  BY AnswerFacts, StepFacts DEF Inspect, DepInv, DepType, CallPc
<1>2. /\ dep' \in [id : Nat, status : Statuses] /\ dep'.id = dep.id
      /\ (dep' = NoDep => dep = NoDep) /\ (dep.id = 0 => dep' = NoDep)
  BY <1>1 DEF DepInv, DepType, CallsInv, NoDep, Statuses
<1>3. DepType'
  BY <1>1, <1>2 DEF DepInv, DepType
<1>4. CallsInv'
  BY <1>1, <1>2 DEF DepInv, DepType, CallsInv, Same, Removes
<1>5. OrphanInv'
  BY <1>1, <1>2 DEF DepInv, DepType, OrphanInv, CallsInv, Same, Ensuring, Removing, Active, Removes
<1>6. CalmInv'
  BY <1>1, <1>2 DEF DepInv, DepType, CalmInv, CallsInv, Same, Ensuring, Active
<1> QED
  BY <1>3, <1>4, <1>5, <1>6 DEF DepInv

\* docker rm -f of an ensure: no removal is under way.
LEMMA RemoveStoppedStep == ASSUME DepInv, NEW c \in Calls, RemoveStopped(c) PROVE DepInv'
<1>1. /\ call' \in [Calls -> CallRecs] /\ \A d \in Calls : d # c => Same(d)
      /\ call'[c].op = call[c].op
      /\ UNCHANGED <<dep, ids, volume, network, owner, leftover, depFaults>> /\ box' = "none"
      /\ call[c].pc = "rm" /\ call'[c].pc = "volume"
      /\ call'[c].seen = call[c].seen /\ call'[c].calm = call[c].calm
  BY StepFacts DEF RemoveStopped, DepInv, DepType, CallPc
<1>2. DepType'
  BY <1>1 DEF DepInv, DepType, Boxes
<1>3. CallsInv'
  BY <1>1 DEF DepInv, DepType, CallsInv, Same, Removes
<1>4. OrphanInv'
  BY <1>1 DEF DepInv, DepType, OrphanInv, CallsInv, Same, Ensuring, Removing, Active, Removes
<1>5. CalmInv'
  BY <1>1 DEF DepInv, DepType, CalmInv, CallsInv, Same, Ensuring, Active
<1> QED
  BY <1>2, <1>3, <1>4, <1>5 DEF DepInv

\* The volume comes before the container.
LEMMA CreateVolumeStep == ASSUME DepInv, NEW c \in Calls, CreateVolume(c) PROVE DepInv'
<1>1. /\ call' \in [Calls -> CallRecs] /\ \A d \in Calls : d # c => Same(d)
      /\ call'[c].op = call[c].op
      /\ UNCHANGED <<dep, ids, box, network, owner, leftover, depFaults>> /\ volume' = TRUE
      /\ call[c].pc = "volume" /\ call'[c].pc = "run"
      /\ call'[c].seen = call[c].seen /\ call'[c].calm = call[c].calm
  BY StepFacts DEF CreateVolume, DepInv, DepType, CallPc
<1>2. DepType'
  BY <1>1 DEF DepInv, DepType
<1>3. CallsInv'
  BY <1>1 DEF DepInv, DepType, CallsInv, Same, Removes
<1>4. OrphanInv'
  BY <1>1 DEF DepInv, DepType, OrphanInv, CallsInv, Same, Ensuring, Removing, Active, Removes
<1>5. CalmInv'
  BY <1>1 DEF DepInv, DepType, CalmInv, CallsInv, Same, Ensuring, Active
<1> QED
  BY <1>2, <1>3, <1>4, <1>5 DEF DepInv

\* Faults are counted up to their bound.
LEMMA FaultBounded ==
    ASSUME depFaults \in 0..MaxDepFaults, DepFault \/ UNCHANGED depFaults
    PROVE  depFaults' \in 0..MaxDepFaults
BY DepAssumption DEF DepFault

\* A container that docker run leaves is that of its call, or left over.
LEMMA RunBoxStep == ASSUME DepInv, NEW c \in Calls, RunBox(c) PROVE DepInv'
<1>1. /\ call' \in [Calls -> CallRecs] /\ \A d \in Calls : d # c => Same(d)
      /\ call'[c].op = call[c].op
      /\ UNCHANGED <<dep, ids, network, owner>> /\ call[c].pc = "run"
      /\ leftover \in BOOLEAN /\ leftover' \in BOOLEAN /\ volume' \in BOOLEAN
      /\ depFaults' \in 0..MaxDepFaults /\ box' \in Boxes /\ (box' # "none" => volume')
      /\ \/ /\ box # "none" /\ box' = box /\ call'[c].pc = "done" /\ call'[c].seen = NoDep
            /\ leftover' = leftover
         \/ /\ call'[c].pc = "health" /\ box' = "running" /\ leftover' = leftover
            /\ call'[c].seen = call[c].seen /\ call'[c].calm = call[c].calm
         \/ /\ box = "none" /\ call'[c].pc = "done" /\ call'[c].seen = NoDep
            /\ leftover' = (leftover \/ (First(c) /\ box' # "none"))
  <2>1. /\ call \in [Calls -> CallRecs] /\ box \in Boxes /\ volume \in BOOLEAN /\ leftover \in BOOLEAN
        /\ depFaults \in 0..MaxDepFaults /\ (box # "none" => volume) /\ "health" \in CallPc
    BY DEF DepInv, DepType, CallPc
  <2>2. UNCHANGED <<dep, ids, network, owner>>
    BY DEF RunBox
  <2>3. CASE box # "none" /\ Answer(c, "run", "409") /\ UNCHANGED <<box, volume, leftover, depFaults>>
    BY <2>1, <2>2, <2>3, AnswerFacts
  <2>4. CASE /\ Step(c, "run", "health") /\ box' = "running" /\ volume' = TRUE
             /\ UNCHANGED <<leftover, depFaults>>
    BY <2>1, <2>2, <2>4, StepFacts DEF Boxes
  <2>5. CASE /\ box = "none" /\ Answer(c, "run", "409")
             /\ IF network THEN DepFault ELSE UNCHANGED depFaults
             /\ box' \in {"none", "created"} \cup (IF network THEN {"running"} ELSE {})
             /\ volume' = (volume \/ box' # "none")
             /\ leftover' = (leftover \/ (First(c) /\ box' # "none"))
    <3>1. /\ call' \in [Calls -> CallRecs] /\ \A d \in Calls : d # c => Same(d)
          /\ call[c].pc = "run" /\ call'[c].pc = "done" /\ call'[c].op = call[c].op /\ call'[c].seen = NoDep
      BY <2>1, <2>5, AnswerFacts
    <3>2. depFaults' \in 0..MaxDepFaults
      BY <2>1, <2>5, FaultBounded
    <3>3. box' \in Boxes /\ volume' \in BOOLEAN /\ leftover' \in BOOLEAN /\ (box' # "none" => volume')
      BY <2>1, <2>5 DEF Boxes
    <3> QED
      BY <2>1, <2>2, <2>5, <3>1, <3>2, <3>3
  <2> QED
    BY <2>3, <2>4, <2>5 DEF RunBox
<1>2. DepType'
  BY <1>1 DEF DepInv, DepType
<1>3. CallsInv'
  BY <1>1 DEF DepInv, DepType, CallsInv, Same, Removes
<1>4. OrphanInv'
  <2>1. CASE call'[c].pc = "health"
    BY <1>1, <2>1 DEF DepInv, DepType, OrphanInv, CallsInv, Same, Ensuring, Removing, Active, Removes
  <2>2. CASE box' = box /\ call'[c].pc = "done"
    BY <1>1, <2>2, EndedLeaves
  <2>3. CASE box' # box /\ call'[c].pc = "done"
    <3>1. box = "none" /\ box' # "none" /\ leftover' = (leftover \/ First(c)) /\ call[c].op = "ensure"
      BY <1>1, <2>3 DEF DepInv, CallsInv
    <3>2. ASSUME ~leftover' PROVE dep # NoDep
      BY <1>1, <3>1, <3>2 DEF DepInv, DepType, OrphanInv, CallsInv, First, Ensuring, Active, NoDep
    <3> QED
      BY <1>1, <2>3, <3>1, <3>2
         DEF DepInv, DepType, OrphanInv, CallsInv, Same, Ensuring, Removing, Active, Removes
  <2> QED
    BY <1>1, <2>1, <2>2, <2>3
<1>5. CalmInv'
  BY <1>1 DEF DepInv, DepType, CalmInv, CallsInv, Same, Ensuring, Active
<1> QED
  BY <1>2, <1>3, <1>4, <1>5 DEF DepInv

\* A container that does not become healthy is left over.
LEMMA WaitHealthyStep == ASSUME DepInv, NEW c \in Calls, WaitHealthy(c) PROVE DepInv'
<1>1. /\ call' \in [Calls -> CallRecs] /\ \A d \in Calls : d # c => Same(d)
      /\ call'[c].op = call[c].op
      /\ UNCHANGED <<dep, ids, box, volume, network, owner>> /\ call[c].pc = "health"
      /\ leftover \in BOOLEAN /\ leftover' \in BOOLEAN /\ depFaults' \in 0..MaxDepFaults
      /\ \/ /\ call'[c].pc = "upsert" /\ leftover' = leftover
            /\ call'[c].seen = call[c].seen /\ call'[c].calm = call[c].calm
         \/ /\ call'[c].pc = "done" /\ call'[c].seen = NoDep
            /\ leftover' = (leftover \/ First(c))
  <2>1. /\ call \in [Calls -> CallRecs] /\ leftover \in BOOLEAN /\ depFaults \in 0..MaxDepFaults
        /\ "upsert" \in CallPc /\ UNCHANGED <<dep, ids, box, volume, network, owner>>
    BY DEF DepInv, DepType, CallPc, WaitHealthy
  <2>2. CASE Step(c, "health", "upsert") /\ UNCHANGED <<leftover, depFaults>>
    BY <2>1, <2>2, StepFacts
  <2>3. CASE /\ Answer(c, "health", "409") /\ leftover' = (leftover \/ First(c))
             /\ IF box = "running" THEN DepFault ELSE UNCHANGED depFaults
    <3>1. depFaults' \in 0..MaxDepFaults
      BY <2>1, <2>3, FaultBounded
    <3> QED
      BY <2>1, <2>3, <3>1, AnswerFacts
  <2> QED
    BY <2>2, <2>3 DEF WaitHealthy
<1>2. DepType'
  BY <1>1 DEF DepInv, DepType
<1>3. CallsInv'
  BY <1>1 DEF DepInv, DepType, CallsInv, Same, Removes
<1>4. OrphanInv'
  <2>1. CASE call'[c].pc = "upsert"
    BY <1>1, <2>1 DEF DepInv, DepType, OrphanInv, CallsInv, Same, Ensuring, Removing, Active, Removes
  <2>2. CASE call'[c].pc = "done"
    BY <1>1, <2>2, EndedLeaves
  <2> QED
    BY <1>1, <2>1, <2>2
<1>5. CalmInv'
  BY <1>1 DEF DepInv, DepType, CalmInv, CallsInv, Same, Ensuring, Active
<1> QED
  BY <1>2, <1>3, <1>4, <1>5 DEF DepInv

\* The row is written, or was already.
LEMMA UpsertStep == ASSUME DepInv, NEW c \in Calls, Upsert(c) PROVE DepInv'
<1>1. /\ call' \in [Calls -> CallRecs] /\ \A d \in Calls : d # c => Same(d)
      /\ call'[c].op = call[c].op
      /\ UNCHANGED <<box, volume, network, owner, leftover, depFaults>> /\ call[c].pc = "upsert"
      /\ call'[c].pc = "done" /\ call'[c].seen = NoDep
      /\ ids' \in Nat /\ dep'.id \in 0..ids' /\ dep' \in [id : Nat, status : Statuses]
      /\ \/ dep' = dep /\ ~(call[c].seen.id = dep.id /\ owner)
         \/ /\ call[c].seen.id = dep.id /\ dep' # NoDep /\ dep'.id # 0
            /\ (dep # NoDep => dep'.id = dep.id)
  BY AnswerFacts DEF Upsert, DepInv, DepType, CallsInv, NoDep, Statuses
<1>2. DepType'
  BY <1>1 DEF DepInv, DepType
<1>3. CallsInv'
  BY <1>1 DEF DepInv, DepType, CallsInv, Same, Removes
<1>4. ASSUME ~leftover PROVE OrphanInv'
  <2>1. OrphanInv /\ Ensuring(c) /\ (call[c].seen.id = 0 => call[c].seen = NoDep) /\ (dep.id = 0 => dep = NoDep)
    BY <1>1 DEF DepInv, CallsInv, Ensuring, Active
  <2>2. owner /\ (call[c].seen # NoDep => dep.id = call[c].seen.id)
    BY <1>4, <2>1 DEF OrphanInv
  <2>3. dep' # NoDep
    BY <1>1, <2>1, <2>2
  <2>4. ASSUME NEW d \in Calls, Ensuring(d)' PROVE owner' /\ (call'[d].seen # NoDep => dep'.id = call'[d].seen.id)
    <3>1. d # c /\ Same(d) /\ Ensuring(d)
      BY <1>1, <2>4 DEF Ensuring, Active, Same
    <3>2. owner /\ (call[d].seen # NoDep => dep.id = call[d].seen.id /\ dep.id # 0)
      BY <1>4, <2>1, <3>1 DEF OrphanInv, DepInv, CallsInv
    <3> QED
      BY <1>1, <3>1, <3>2 DEF Same, NoDep
  <2> QED
    BY <1>1, <1>4, <2>1, <2>3, <2>4 DEF OrphanInv, Same, Ensuring, Removing, Active, Removes
<1>5. CalmInv'
  BY <1>1 DEF DepInv, DepType, CalmInv, CallsInv, Same, Ensuring, Active
<1> QED
  <2>1. leftover => OrphanInv'
    BY <1>1 DEF OrphanInv
  <2> QED
    BY <1>2, <1>3, <1>4, <1>5, <2>1 DEF DepInv

\* docker compose down: no ensure is calm next to it.
LEMMA StopRuntimeStep == ASSUME DepInv, NEW c \in Calls, StopRuntime(c) PROVE DepInv'
<1>1. /\ call' \in [Calls -> CallRecs] /\ \A d \in Calls : d # c => Same(d)
      /\ call'[c].op = call[c].op
      /\ UNCHANGED <<dep, ids, box, volume, owner, leftover, depFaults>> /\ network' \in BOOLEAN
      /\ call[c].pc = "down" /\ call'[c].pc = "select" /\ call[c].op = "delete"
      /\ call'[c].seen = call[c].seen /\ call'[c].calm = call[c].calm
  BY StepFacts DEF StopRuntime, DepInv, DepType, CallPc
<1>2. DepType'
  BY <1>1 DEF DepInv, DepType
<1>3. CallsInv'
  BY <1>1 DEF DepInv, DepType, CallsInv, Same, Removes
<1>4. OrphanInv'
  BY <1>1 DEF DepInv, DepType, OrphanInv, CallsInv, Same, Ensuring, Removing, Active, Removes
<1>5. CalmInv'
  BY <1>1 DEF DepInv, DepType, CalmInv, CallsInv, Same, Ensuring, Active
<1> QED
  BY <1>2, <1>3, <1>4, <1>5 DEF DepInv

\* The container goes first, or is left over.
LEMMA RemoveBoxStep == ASSUME DepInv, NEW c \in Calls, RemoveBox(c) PROVE DepInv'
<1>1. /\ call' \in [Calls -> CallRecs] /\ \A d \in Calls : d # c => Same(d)
      /\ call'[c].op = call[c].op
      /\ UNCHANGED <<dep, ids, volume, network, owner>> /\ call[c].pc = "drop_box"
      /\ depFaults' \in 0..MaxDepFaults /\ leftover' \in BOOLEAN
      /\ \/ /\ call'[c].pc = "drop_volume" /\ box' = "none" /\ leftover' = leftover
            /\ call'[c].seen = call[c].seen /\ call'[c].calm = call[c].calm
         \/ /\ box' \in {box, "none"} /\ leftover' = leftover
            /\ call'[c].pc = "done" /\ call'[c].seen = NoDep
         \/ /\ box' \in {box, "none"} /\ leftover' /\ call'[c].pc = "cascade"
            /\ call'[c].seen = call[c].seen /\ call'[c].calm = call[c].calm
  <2>1. /\ call \in [Calls -> CallRecs] /\ leftover \in BOOLEAN /\ depFaults \in 0..MaxDepFaults
        /\ volume \in BOOLEAN /\ (box # "none" => volume)
        /\ {"drop_volume", "cascade"} \subseteq CallPc /\ UNCHANGED <<dep, ids, volume, network, owner>>
    BY DEF DepInv, DepType, CallPc, RemoveBox
  <2>2. CASE /\ Step(c, "drop_box", "drop_volume") /\ box' = "none"
             /\ UNCHANGED <<leftover, depFaults>>
    BY <2>1, <2>2, StepFacts
  <2>3. CASE /\ RemoveFails(c, "drop_box") /\ box' \in {box, "none"}
             /\ leftover' = (leftover \/ call[c].op = "delete")
    <3>1. depFaults' \in 0..MaxDepFaults
      BY <2>1, <2>3, FaultBounded DEF RemoveFails
    <3>2. \/ leftover' = TRUE /\ Step(c, "drop_box", "cascade")
          \/ leftover' = leftover /\ Answer(c, "drop_box", "500")
      BY <2>1, <2>3 DEF RemoveFails
    <3>3. CASE leftover' = TRUE /\ Step(c, "drop_box", "cascade")
      <4>1. /\ call' \in [Calls -> CallRecs] /\ \A d \in Calls : d # c => Same(d)
            /\ call[c].pc = "drop_box" /\ call'[c].pc = "cascade" /\ call'[c].op = call[c].op
            /\ call'[c].seen = call[c].seen /\ call'[c].calm = call[c].calm
        BY <2>1, <3>3, StepFacts
      <4> QED
        BY <2>1, <2>3, <3>1, <3>3, <4>1
    <3>4. CASE leftover' = leftover /\ Answer(c, "drop_box", "500")
      <4>1. /\ call' \in [Calls -> CallRecs] /\ \A d \in Calls : d # c => Same(d)
            /\ call[c].pc = "drop_box" /\ call'[c].pc = "done" /\ call'[c].op = call[c].op
            /\ call'[c].seen = NoDep
        BY <2>1, <3>4, AnswerFacts
      <4> QED
        BY <2>1, <2>3, <3>1, <3>4, <4>1
    <3> QED
      BY <3>2, <3>3, <3>4
  <2> QED
    BY <2>2, <2>3 DEF RemoveBox
<1>2. DepType'
  BY <1>1 DEF DepInv, DepType, Boxes
<1>3. CallsInv'
  BY <1>1 DEF DepInv, DepType, CallsInv, Same, Removes
<1>4. OrphanInv'
  <2>1. CASE call'[c].pc = "done"
    BY <1>1, <2>1, EndedLeaves DEF First
  <2>2. CASE call'[c].pc \in {"drop_volume", "cascade"}
    BY <1>1, <2>2 DEF DepInv, DepType, OrphanInv, CallsInv, Same, Ensuring, Removing, Active, Removes
  <2> QED
    BY <1>1, <2>1, <2>2
<1>5. CalmInv'
  BY <1>1 DEF DepInv, DepType, CalmInv, CallsInv, Same, Ensuring, Active
<1> QED
  BY <1>2, <1>3, <1>4, <1>5 DEF DepInv

\* Then the volume.
LEMMA RemoveVolumeStep == ASSUME DepInv, NEW c \in Calls, RemoveVolume(c) PROVE DepInv'
<1>1. /\ call' \in [Calls -> CallRecs] /\ \A d \in Calls : d # c => Same(d)
      /\ call'[c].op = call[c].op
      /\ UNCHANGED <<dep, ids, box, network, owner, leftover>> /\ call[c].pc = "drop_volume"
      /\ depFaults' \in 0..MaxDepFaults
      /\ volume' \in BOOLEAN /\ (box # "none" => volume')
      /\ \/ /\ call'[c].pc \in {"drop_row", "cascade"}
            /\ call'[c].seen = call[c].seen /\ call'[c].calm = call[c].calm
         \/ call'[c].pc = "done" /\ call'[c].seen = NoDep
  <2>1. /\ call \in [Calls -> CallRecs] /\ depFaults \in 0..MaxDepFaults
        /\ volume \in BOOLEAN /\ (box # "none" => volume)
        /\ {"drop_row", "cascade"} \subseteq CallPc /\ UNCHANGED <<dep, ids, box, network, owner, leftover>>
    BY DEF DepInv, DepType, CallPc, RemoveVolume
  <2>2. CASE /\ Step(c, "drop_volume", "drop_row") /\ volume' = (volume /\ box # "none")
             /\ UNCHANGED depFaults
    BY <2>1, <2>2, StepFacts
  <2>3. CASE RemoveFails(c, "drop_volume") /\ volume' = volume
    <3>1. depFaults' \in 0..MaxDepFaults
      BY <2>1, <2>3, FaultBounded DEF RemoveFails
    <3>2. Step(c, "drop_volume", "cascade") \/ Answer(c, "drop_volume", "500")
      BY <2>3 DEF RemoveFails
    <3>3. CASE Step(c, "drop_volume", "cascade")
      <4>1. /\ call' \in [Calls -> CallRecs] /\ \A d \in Calls : d # c => Same(d)
            /\ call[c].pc = "drop_volume" /\ call'[c].pc = "cascade" /\ call'[c].op = call[c].op
            /\ call'[c].seen = call[c].seen /\ call'[c].calm = call[c].calm
        BY <2>1, <3>3, StepFacts
      <4> QED
        BY <2>1, <2>3, <3>1, <4>1
    <3>4. CASE Answer(c, "drop_volume", "500")
      <4>1. /\ call' \in [Calls -> CallRecs] /\ \A d \in Calls : d # c => Same(d)
            /\ call[c].pc = "drop_volume" /\ call'[c].pc = "done" /\ call'[c].op = call[c].op
            /\ call'[c].seen = NoDep
        BY <2>1, <3>4, AnswerFacts
      <4> QED
        BY <2>1, <2>3, <3>1, <4>1
    <3> QED
      BY <3>2, <3>3, <3>4
  <2> QED
    BY <2>2, <2>3 DEF RemoveVolume
<1>2. DepType'
  BY <1>1 DEF DepInv, DepType
<1>3. CallsInv'
  BY <1>1 DEF DepInv, DepType, CallsInv, Same, Removes
<1>4. OrphanInv'
  BY <1>1 DEF DepInv, DepType, OrphanInv, CallsInv, Same, Ensuring, Removing, Active, Removes
<1>5. CalmInv'
  BY <1>1 DEF DepInv, DepType, CalmInv, CallsInv, Same, Ensuring, Active
<1> QED
  BY <1>2, <1>3, <1>4, <1>5 DEF DepInv

\* Then the row: there is no container any more.
LEMMA DeleteDepStep == ASSUME DepInv, NEW c \in Calls, DeleteDep(c) PROVE DepInv'
<1>1. /\ call' \in [Calls -> CallRecs] /\ \A d \in Calls : d # c => Same(d)
      /\ call'[c].op = call[c].op
      /\ UNCHANGED <<ids, box, volume, network, owner, leftover, depFaults>> /\ call[c].pc = "drop_row"
      /\ dep' \in {dep, NoDep} /\ NoDep \in [id : Nat, status : Statuses] /\ NoDep.id = 0
      /\ \/ call'[c].pc = "done" /\ call'[c].seen = NoDep
         \/ /\ call'[c].pc = "cascade"
            /\ call'[c].seen = call[c].seen /\ call'[c].calm = call[c].calm
  BY StepFacts, AnswerFacts DEF DeleteDep, DepInv, DepType, CallPc, NoDep, Statuses
<1>2. DepType'
  BY <1>1 DEF DepInv, DepType
<1>3. CallsInv'
  BY <1>1 DEF DepInv, DepType, CallsInv, Same, Removes
<1>4. OrphanInv'
  BY <1>1 DEF DepInv, DepType, OrphanInv, CallsInv, Same, Ensuring, Removing, Active, Removes
<1>5. CalmInv'
  BY <1>1 DEF DepInv, DepType, CalmInv, CallsInv, Same, Ensuring, Active, Removes
<1> QED
  BY <1>2, <1>3, <1>4, <1>5 DEF DepInv

\* And with the owner every row.
LEMMA DeleteOwnerStep == ASSUME DepInv, NEW c \in Calls, DeleteOwner(c) PROVE DepInv'
<1>1. /\ call' \in [Calls -> CallRecs] /\ \A d \in Calls : d # c => Same(d)
      /\ call'[c].op = call[c].op
      /\ UNCHANGED <<ids, box, volume, network, leftover, depFaults>> /\ call[c].pc = "cascade"
      /\ owner' = FALSE /\ dep' = NoDep /\ 0 \in 0..ids /\ NoDep \in [id : Nat, status : Statuses] /\ NoDep.id = 0
      /\ call'[c].pc = "done" /\ call'[c].seen = NoDep
  BY AnswerFacts DEF DeleteOwner, DepInv, DepType, NoDep, Statuses
<1>2. DepType'
  BY <1>1 DEF DepInv, DepType
<1>3. CallsInv'
  BY <1>1 DEF DepInv, DepType, CallsInv, Same, Removes
<1>4. OrphanInv'
  BY <1>1 DEF DepInv, DepType, OrphanInv, CallsInv, Same, Ensuring, Removing, Active, Removes
<1>5. CalmInv'
  BY <1>1 DEF DepInv, DepType, CalmInv, CallsInv, Same, Ensuring, Active
<1> QED
  BY <1>2, <1>3, <1>4, <1>5 DEF DepInv

\* A list only writes to the row it has loaded.
LEMMA CommitStatusStep == ASSUME DepInv, NEW c \in Calls, CommitStatus(c) PROVE DepInv'
<1>1. /\ call' \in [Calls -> CallRecs] /\ \A d \in Calls : d # c => Same(d)
      /\ call'[c].op = call[c].op
      /\ UNCHANGED <<ids, box, volume, network, owner, leftover, depFaults>> /\ call[c].pc = "refresh"
      /\ call'[c].pc = "done" /\ call'[c].seen = NoDep
      /\ \/ dep' = dep
         \/ dep' \in [id : Nat, status : Statuses] /\ dep'.id = dep.id /\ dep.id # 0
  BY AnswerFacts DEF CommitStatus, DepInv, DepType, CallsInv, CallRecs, Boxes, Statuses, NoDep
<1>2. DepType'
  BY <1>1 DEF DepInv, DepType
<1>3. CallsInv'
  BY <1>1 DEF DepInv, DepType, CallsInv, Same, Removes
<1>4. OrphanInv'
  BY <1>1 DEF DepInv, DepType, OrphanInv, CallsInv, Same, Ensuring, Removing, Active, Removes, NoDep
<1>5. CalmInv'
  BY <1>1 DEF DepInv, DepType, CalmInv, CallsInv, Same, Ensuring, Active
<1> QED
  BY <1>2, <1>3, <1>4, <1>5 DEF DepInv

\* A removal that finds no row finds no container.
LEMMA SelectRemovedStep == ASSUME DepInv, NEW c \in Calls, SelectRemoved(c) PROVE DepInv'
<1>1. /\ call' \in [Calls -> CallRecs] /\ \A d \in Calls : d # c => Same(d)
      /\ call'[c].op = call[c].op
      /\ UNCHANGED <<dep, ids, box, volume, network, owner, leftover, depFaults>>
      /\ call[c].pc = "select" /\ Removes(call[c].op)
      /\ \/ call'[c].pc = "done" /\ call'[c].seen = NoDep
         \/ /\ call'[c].seen = dep /\ call'[c].calm = call[c].calm
            /\ call'[c].pc = IF dep = NoDep THEN "cascade" ELSE "drop_box"
  <2> DEFINE to == IF dep = NoDep THEN "cascade" ELSE "drop_box"
  <2>1. /\ call \in [Calls -> CallRecs] /\ dep \in [id : Nat, status : Statuses]
        /\ UNCHANGED <<dep, ids, box, volume, network, owner, leftover, depFaults>>
        /\ call[c].pc = "select" /\ Removes(call[c].op)
    BY DEF SelectRemoved, DepInv, DepType
  <2>2. CASE Answer(c, "select", "ok")
    BY <2>1, <2>2, AnswerFacts
  <2>3. CASE call' = [call EXCEPT ![c].seen = dep, ![c].pc = to]
    <3>1. to \in CallPc /\ "none" \in Boxes \cup {"stopped"}
      BY DEF CallPc, Boxes
    <3> HIDE DEF to
    <3>2. /\ call' \in [Calls -> CallRecs] /\ \A d \in Calls : d # c => Same(d)
          /\ call'[c].pc = to /\ call'[c].op = call[c].op
          /\ call'[c].seen = dep /\ call'[c].calm = call[c].calm
      BY <2>1, <2>3, <3>1, LoadFacts
    <3> QED
      BY <2>1, <3>2 DEF to
  <2> QED
  BY <2>2, <2>3 DEF SelectRemoved
<1>2. DepType'
  BY <1>1 DEF DepInv, DepType
<1>3. CallsInv'
  BY <1>1 DEF DepInv, DepType, CallsInv, Same, Removes
<1>4. OrphanInv'
  BY <1>1 DEF DepInv, DepType, OrphanInv, CallsInv, Same, Ensuring, Removing, Active, Removes
<1>5. CalmInv'
  BY <1>1 DEF DepInv, DepType, CalmInv, CallsInv, Same, Ensuring, Active, Removes
<1> QED
  BY <1>2, <1>3, <1>4, <1>5 DEF DepInv

\* A list loads the row.
LEMMA RefreshStep == ASSUME DepInv, NEW c \in Calls, Refresh(c) PROVE DepInv'
<1>1. /\ call' \in [Calls -> CallRecs] /\ \A d \in Calls : d # c => Same(d)
      /\ call'[c].op = call[c].op
      /\ UNCHANGED <<dep, ids, box, volume, network, owner, leftover, depFaults>>
      /\ call[c].pc = "select" /\ call[c].op = "list"
      /\ \/ call'[c].pc = "done" /\ call'[c].seen = NoDep
         \/ /\ dep # NoDep /\ call'[c].seen = dep /\ call'[c].calm = call[c].calm
            /\ call'[c].pc = "refresh"
  <2>1. /\ call \in [Calls -> CallRecs] /\ dep \in [id : Nat, status : Statuses]
        /\ UNCHANGED <<dep, ids, box, volume, network, owner, leftover, depFaults>>
        /\ call[c].pc = "select" /\ call[c].op = "list"
        /\ Found \in Boxes \cup {"stopped"} /\ "refresh" \in CallPc
    BY DEF Refresh, DepInv, DepType, Found, Boxes, CallPc
  <2>2. CASE Answer(c, "select", "ok")
    BY <2>1, <2>2, AnswerFacts
  <2>3. CASE dep # NoDep /\ call' = [call EXCEPT ![c].seen = dep, ![c].found = Found, ![c].pc = "refresh"]
    <3>1. /\ call' \in [Calls -> CallRecs] /\ \A d \in Calls : d # c => Same(d)
          /\ call'[c].pc = "refresh" /\ call'[c].op = call[c].op
          /\ call'[c].seen = dep /\ call'[c].calm = call[c].calm
      BY <2>1, <2>3, LoadFacts
    <3> QED
      BY <2>1, <2>3, <3>1
  <2> QED
  BY <2>2, <2>3 DEF Refresh
<1>2. DepType'
  BY <1>1 DEF DepInv, DepType
<1>3. CallsInv'
  BY <1>1 DEF DepInv, DepType, CallsInv, Same, Removes
<1>4. OrphanInv'
  BY <1>1 DEF DepInv, DepType, OrphanInv, CallsInv, Same, Ensuring, Removing, Active, Removes
<1>5. CalmInv'
  BY <1>1 DEF DepInv, DepType, CalmInv, CallsInv, Same, Ensuring, Active
<1> QED
  BY <1>2, <1>3, <1>4, <1>5 DEF DepInv

\* The API goes on without its caller.
LEMMA GivesUpStep == ASSUME DepInv, NEW c \in Calls, GivesUp(c) PROVE DepInv'
<1>1. /\ call' \in [Calls -> CallRecs] /\ \A d \in Calls : d # c => Same(d)
      /\ call'[c].op = call[c].op
      /\ UNCHANGED <<dep, ids, box, volume, network, owner, leftover, depFaults>>
      /\ call'[c].pc = call[c].pc /\ call'[c].seen = call[c].seen /\ call'[c].calm = call[c].calm
  <2> DEFINE x == call[c]
             r == [x EXCEPT !.waits = FALSE]
  <2>1. x \in CallRecs /\ call \in [Calls -> CallRecs]
    BY DEF DepInv, DepType
  <2>2. call' = [call EXCEPT ![c] = r]
        /\ UNCHANGED <<dep, ids, box, volume, network, owner, leftover, depFaults>>
    BY DEF GivesUp
  <2>3. r \in CallRecs /\ r.pc = x.pc /\ r.op = x.op /\ r.seen = x.seen /\ r.calm = x.calm
    <3> HIDE DEF x
    <3> QED
      BY <2>1 DEF CallRecs
  <2> HIDE DEF r
  <2> QED
    BY <2>1, <2>2, <2>3 DEF Same
<1>2. DepType'
  BY <1>1 DEF DepInv, DepType
<1>3. CallsInv'
  BY <1>1 DEF DepInv, DepType, CallsInv, Same, Removes
<1>4. OrphanInv'
  BY <1>1 DEF DepInv, DepType, OrphanInv, CallsInv, Same, Ensuring, Removing, Active, Removes
<1>5. CalmInv'
  BY <1>1 DEF DepInv, DepType, CalmInv, CallsInv, Same, Ensuring, Active
<1> QED
  BY <1>2, <1>3, <1>4, <1>5 DEF DepInv

\* A call that arrives disturbs the others, or is alone.
LEMMA ArriveStep == ASSUME DepInv, NEW c \in Calls, NEW op \in CliOps \cup {"delete"}, Arrive(c, op) PROVE DepInv'
<1>1. /\ call' \in [Calls -> CallRecs] /\ call[c].pc = "new" /\ call'[c].op = op
      /\ call'[c].pc \in {"down", "select"} /\ (call'[c].pc = "down" => op = "delete")
      /\ call'[c].seen = NoDep /\ (call'[c].calm => \A d \in Calls : ~Active(d))
      /\ \A d \in Calls : d # c =>
            /\ call'[d].pc = call[d].pc /\ call'[d].op = call[d].op
            /\ call'[d].seen = call[d].seen /\ (Active(d) => ~call'[d].calm)
      /\ UNCHANGED <<dep, ids, box, volume, network, owner, depFaults>> /\ owner
      /\ leftover' \in BOOLEAN /\ (~leftover' => ~leftover /\ ~Collides(op))
  <2>1. call \in [Calls -> CallRecs] /\ leftover \in BOOLEAN /\ \A d \in Calls : call[d].pc = "new" => call[d].seen = NoDep
    BY DEF DepInv, DepType, CallsInv
  <2>2. UNCHANGED <<dep, ids, box, volume, network, owner, depFaults>> /\ owner
        /\ leftover' = (leftover \/ Collides(op))
    BY DEF Arrive
  <2>3. leftover' \in BOOLEAN /\ (~leftover' => ~leftover /\ ~Collides(op))
    BY <2>1, <2>2
  <2> QED
    BY <2>1, <2>2, <2>3, ArriveFacts
<1>2. DepType'
  BY <1>1 DEF DepInv, DepType
<1>3. CallsInv'
  BY <1>1 DEF DepInv, DepType, CallsInv, Same, Removes
<1>4. OrphanInv'
  BY <1>1 DEF DepInv, DepType, OrphanInv, CallsInv, Same, Ensuring, Removing, Active, Removes, Collides
<1>5. CalmInv'
  BY <1>1 DEF DepInv, DepType, CalmInv, CallsInv, Same, Ensuring, Active
<1> QED
  BY <1>2, <1>3, <1>4, <1>5 DEF DepInv

\* The surroundings disturb every call under way.
LEMMA StopNetworkStep == ASSUME DepInv, StopNetwork PROVE DepInv'
<1>1. /\ call' \in [Calls -> CallRecs]
      /\ \A d \in Calls : /\ call'[d].pc = call[d].pc /\ call'[d].op = call[d].op
                          /\ call'[d].seen = call[d].seen /\ (Active(d) => ~call'[d].calm)
      /\ UNCHANGED <<dep, ids, volume, owner, leftover, depFaults>>
      /\ box' = box /\ network' = FALSE
  BY DisturbedFacts DEF StopNetwork, DepInv, DepType
<1>2. DepType'
  BY <1>1 DEF DepInv, DepType, Boxes
<1>3. CallsInv'
  BY <1>1 DEF DepInv, DepType, CallsInv, Same, Removes
<1>4. OrphanInv'
  BY <1>1 DEF DepInv, DepType, OrphanInv, CallsInv, Same, Ensuring, Removing, Active, Removes
<1>5. CalmInv'
  BY <1>1 DEF DepInv, DepType, CalmInv, CallsInv, Same, Ensuring, Active
<1> QED
  BY <1>2, <1>3, <1>4, <1>5 DEF DepInv

\* So does a container that exits,
LEMMA BoxExitsStep == ASSUME DepInv, BoxExits PROVE DepInv'
<1>1. /\ call' \in [Calls -> CallRecs]
      /\ \A d \in Calls : /\ call'[d].pc = call[d].pc /\ call'[d].op = call[d].op
                          /\ call'[d].seen = call[d].seen /\ (Active(d) => ~call'[d].calm)
      /\ UNCHANGED <<dep, ids, volume, owner, leftover, depFaults>>
      /\ box = "running" /\ box' = "exited" /\ network' = network
  BY DisturbedFacts DEF BoxExits, DepInv, DepType
<1>2. DepType'
  BY <1>1 DEF DepInv, DepType, Boxes
<1>3. CallsInv'
  BY <1>1 DEF DepInv, DepType, CallsInv, Same, Removes
<1>4. OrphanInv'
  BY <1>1 DEF DepInv, DepType, OrphanInv, CallsInv, Same, Ensuring, Removing, Active, Removes
<1>5. CalmInv'
  BY <1>1 DEF DepInv, DepType, CalmInv, CallsInv, Same, Ensuring, Active
<1> QED
  BY <1>2, <1>3, <1>4, <1>5 DEF DepInv

\* one that docker starts again,
LEMMA BoxRestartsStep == ASSUME DepInv, BoxRestarts PROVE DepInv'
<1>1. /\ call' \in [Calls -> CallRecs]
      /\ \A d \in Calls : /\ call'[d].pc = call[d].pc /\ call'[d].op = call[d].op
                          /\ call'[d].seen = call[d].seen /\ (Active(d) => ~call'[d].calm)
      /\ UNCHANGED <<dep, ids, volume, owner, leftover, depFaults>>
      /\ box = "exited" /\ box' = "running" /\ network' = network
  BY DisturbedFacts DEF BoxRestarts, DepInv, DepType
<1>2. DepType'
  BY <1>1 DEF DepInv, DepType, Boxes
<1>3. CallsInv'
  BY <1>1 DEF DepInv, DepType, CallsInv, Same, Removes
<1>4. OrphanInv'
  BY <1>1 DEF DepInv, DepType, OrphanInv, CallsInv, Same, Ensuring, Removing, Active, Removes
<1>5. CalmInv'
  BY <1>1 DEF DepInv, DepType, CalmInv, CallsInv, Same, Ensuring, Active
<1> QED
  BY <1>2, <1>3, <1>4, <1>5 DEF DepInv

\* and one that is removed by hand.
LEMMA ManualCleanupStep == ASSUME DepInv, ManualCleanup PROVE DepInv'
<1>1. /\ call' \in [Calls -> CallRecs]
      /\ \A d \in Calls : /\ call'[d].pc = call[d].pc /\ call'[d].op = call[d].op
                          /\ call'[d].seen = call[d].seen /\ (Active(d) => ~call'[d].calm)
      /\ UNCHANGED <<dep, ids, volume, owner, leftover, depFaults>>
      /\ box' = "none" /\ network' = network
  BY DisturbedFacts DEF ManualCleanup, DepInv, DepType
<1>2. DepType'
  BY <1>1 DEF DepInv, DepType, Boxes
<1>3. CallsInv'
  BY <1>1 DEF DepInv, DepType, CallsInv, Same, Removes
<1>4. OrphanInv'
  BY <1>1 DEF DepInv, DepType, OrphanInv, CallsInv, Same, Ensuring, Removing, Active, Removes
<1>5. CalmInv'
  BY <1>1 DEF DepInv, DepType, CalmInv, CallsInv, Same, Ensuring, Active
<1> QED
  BY <1>2, <1>3, <1>4, <1>5 DEF DepInv

\* A network that starts disturbs nobody.
LEMMA StartNetworkStep ==
    ASSUME DepInv, StartNetwork \/ UNCHANGED depVars PROVE DepInv'
<1>1. UNCHANGED <<dep, ids, box, volume, owner, call, leftover, depFaults>>
      /\ network' \in BOOLEAN /\ (network => network')
  <2>1. network \in BOOLEAN
    BY DEF DepInv, DepType
  <2>2. CASE StartNetwork
    BY <2>2 DEF StartNetwork
  <2>3. CASE UNCHANGED depVars
    BY <2>1, <2>3 DEF depVars
  <2> QED
    BY <2>2, <2>3
<1>2. DepType'
  BY <1>1 DEF DepInv, DepType
<1>3. CallsInv'
  BY <1>1 DEF DepInv, DepType, CallsInv, Same, Removes
<1>4. OrphanInv'
  BY <1>1 DEF DepInv, DepType, OrphanInv, CallsInv, Same, Ensuring, Removing, Active, Removes
<1>5. CalmInv'
  BY <1>1 DEF DepInv, DepType, CalmInv, CallsInv, Same, Ensuring, Active
<1> QED
  BY <1>2, <1>3, <1>4, <1>5 DEF DepInv

\* A call that raises ends, or goes on with the deletion: its container has gone.
LEMMA CallRaisesStep == ASSUME DepInv, NEW c \in Calls, CallRaises(c) PROVE DepInv'
<1>1. /\ call' \in [Calls -> CallRecs] /\ \A d \in Calls : d # c => Same(d)
      /\ call'[c].op = call[c].op
      /\ UNCHANGED <<dep, ids, volume, network, owner>> /\ box' \in {box, "none"}
      /\ depFaults' \in 0..MaxDepFaults /\ leftover' \in BOOLEAN
      /\ call[c].pc \notin {"health", "new", "done"} /\ (call[c].pc = "rm" \/ box' = box)
      /\ leftover' = (leftover \/ (First(c) /\ call[c].pc = "upsert"))
      /\ \/ call'[c].pc = "done" /\ call'[c].seen = NoDep
         \/ /\ call[c].op = "delete" /\ call[c].pc = "drop_row" /\ call'[c].pc = "cascade"
            /\ call'[c].seen = call[c].seen /\ call'[c].calm = call[c].calm
  <2>1. /\ call \in [Calls -> CallRecs] /\ leftover \in BOOLEAN /\ depFaults \in 0..MaxDepFaults
        /\ "cascade" \in CallPc /\ UNCHANGED <<dep, ids, volume, network, owner>>
        /\ box' \in {box, "none"} /\ (call[c].pc = "rm" \/ box' = box)
        /\ leftover' = (leftover \/ (First(c) /\ call[c].pc = "upsert"))
    BY DEF DepInv, DepType, CallPc, CallRaises
  <2>2. depFaults' \in 0..MaxDepFaults /\ leftover' \in BOOLEAN
    BY <2>1, FaultBounded DEF CallRaises
  <2>3. CASE /\ call[c].pc \in {"select", "inspect", "rm", "volume", "upsert", "drop_row", "cascade", "refresh"}
             /\ Answer(c, call[c].pc, "409") \/ Answer(c, call[c].pc, "500")
    <3>1. /\ call' \in [Calls -> CallRecs] /\ \A d \in Calls : d # c => Same(d)
          /\ call'[c].pc = "done" /\ call'[c].op = call[c].op /\ call'[c].seen = NoDep
      BY <2>1, <2>3, AnswerFacts
    <3> QED
      BY <2>1, <2>2, <2>3, <3>1
  <2>4. CASE call[c].op = "delete" /\ Step(c, "drop_row", "cascade")
    <3>1. /\ call' \in [Calls -> CallRecs] /\ \A d \in Calls : d # c => Same(d)
          /\ call[c].pc = "drop_row" /\ call'[c].pc = "cascade" /\ call'[c].op = call[c].op
          /\ call'[c].seen = call[c].seen /\ call'[c].calm = call[c].calm
      BY <2>1, <2>4, StepFacts
    <3> QED
      BY <2>1, <2>2, <2>4, <3>1
  <2> QED
    BY <2>3, <2>4 DEF CallRaises
<1>2. DepType'
  BY <1>1 DEF DepInv, DepType, Boxes
<1>3. CallsInv'
  BY <1>1 DEF DepInv, DepType, CallsInv, Same, Removes
<1>4. OrphanInv'
  <2>1. CASE call'[c].pc = "done"
    BY <1>1, <2>1, EndedLeaves
  <2>2. CASE call'[c].pc = "cascade"
    BY <1>1, <2>2 DEF DepInv, DepType, OrphanInv, CallsInv, Same, Ensuring, Removing, Active, Removes
  <2> QED
    BY <1>1, <2>1, <2>2
<1>5. CalmInv'
  BY <1>1 DEF DepInv, DepType, CalmInv, CallsInv, Same, Ensuring, Active
<1> QED
  BY <1>2, <1>3, <1>4, <1>5 DEF DepInv

\* When the API dies no call is left.  A container without a row was that of an
\* ensure that had found none.
LEMMA CallsDieStep == ASSUME DepInv, CallsDie PROVE DepInv'
<1>1. /\ call \in [Calls -> CallRecs] /\ box \in Boxes /\ volume \in BOOLEAN /\ leftover \in BOOLEAN
      /\ depFaults \in 0..MaxDepFaults /\ UNCHANGED <<dep, ids, network, owner>>
      /\ call' = [c \in Calls |-> Dead(c)]
  BY DEF DepInv, DepType, CallsDie
<1>2. ASSUME NEW d \in Calls
      PROVE  /\ call'[d] \in CallRecs /\ call'[d].pc \in {"new", "done"}
             /\ call'[d].seen.id = 0 => call'[d].seen = NoDep
             /\ call'[d].pc = "new" => call'[d].seen = NoDep
  <2>1. CASE Active(d)
    <3> DEFINE r == [Asleep EXCEPT !.op = call[d].op, !.pc = "done", !.answer = "500"]
    <3>1. call[d].op \in CliOps \cup {"delete"} /\ "done" \in CallPc
      BY <1>1 DEF CallRecs, CallPc
    <3>2. r \in CallRecs /\ r.pc = "done" /\ r.seen = NoDep
      BY <3>1 DEF CallRecs, Asleep, NoDep, Boxes, Statuses
    <3>3. call'[d] = r
      BY <1>1, <2>1 DEF Dead
    <3> HIDE DEF r
    <3> QED
      BY <3>2, <3>3
  <2>2. CASE ~Active(d)
    BY <1>1, <2>2 DEF Dead, Active, DepInv, CallsInv
  <2> QED
    BY <2>1, <2>2
<1>3. call' \in [Calls -> CallRecs]
  BY <1>1, <1>2
<1>4. box' \in Boxes /\ volume' \in BOOLEAN /\ (box' # "none" => volume') /\ leftover' \in BOOLEAN
  BY <1>1 DEF CallsDie, Boxes
<1>5. depFaults' \in 0..MaxDepFaults
  BY <1>1, FaultBounded DEF CallsDie
<1>6. DepType'
  BY <1>1, <1>3, <1>4, <1>5 DEF DepInv, DepType
<1>7. CallsInv'
  BY <1>1, <1>2 DEF DepInv, CallsInv
<1>8. \A d \in Calls : ~Active(d)'
  BY <1>2 DEF Active
<1>9. ASSUME ~leftover', box' # "none" PROVE dep' # NoDep
  <2>1. ~leftover /\ OrphanInv /\ CallsInv
    BY <1>9 DEF CallsDie, DepInv
  <2>2. \A c \in Calls : Ensuring(c) /\ dep = NoDep => First(c)
    BY <2>1 DEF OrphanInv, CallsInv, First, Ensuring, NoDep
  <2>3. CASE box' = box
    <3>1. ASSUME dep = NoDep PROVE FALSE
      <4>1. PICK c \in Calls : Ensuring(c) /\ call[c].pc \in {"health", "upsert"}
        BY <1>9, <2>1, <2>3, <3>1 DEF OrphanInv
      <4> QED
        BY <1>9, <2>2, <3>1, <4>1 DEF CallsDie
    <3> QED
      BY <1>1, <3>1
  <2>4. CASE box' # box
    <3>1. PICK c \in Calls : call[c].pc = "run"
      BY <1>9, <2>4 DEF CallsDie
    <3>2. Ensuring(c)
      BY <2>1, <3>1 DEF CallsInv, Ensuring, Active
    <3> QED
      BY <1>1, <1>9, <2>2, <2>4, <3>1, <3>2 DEF CallsDie
  <2> QED
    BY <2>3, <2>4
<1>10. OrphanInv'
  BY <1>8, <1>9 DEF OrphanInv, Ensuring, Removing
<1>11. CalmInv'
  BY <1>8 DEF CalmInv, Ensuring
<1> QED
  BY <1>6, <1>7, <1>10, <1>11 DEF DepInv

\* Every step keeps the invariant.
LEMMA DepStep == ASSUME DepInv, [DepNext]_depVars PROVE DepInv'
<1>1. ASSUME NEW c \in Calls, Ensure(c) PROVE DepInv'
  BY <1>1, SelectDepStep, InspectStep, RemoveStoppedStep, CreateVolumeStep, RunBoxStep,
     WaitHealthyStep, UpsertStep DEF Ensure
<1>2. ASSUME NEW c \in Calls, RemoveDep(c) PROVE DepInv'
  BY <1>2, StopRuntimeStep, SelectRemovedStep, RemoveBoxStep, RemoveVolumeStep, DeleteDepStep,
     DeleteOwnerStep DEF RemoveDep
<1>3. ASSUME NEW c \in Calls, ListDeps(c) PROVE DepInv'
  BY <1>3, RefreshStep, CommitStatusStep DEF ListDeps
<1>4. ASSUME NEW c \in Calls, NEW op \in CliOps \cup {"delete"}, Arrive(c, op) PROVE DepInv'
  BY <1>4, ArriveStep
<1>5. ASSUME NEW c \in Calls, GivesUp(c) PROVE DepInv'
  BY <1>5, GivesUpStep
<1> QED
  BY <1>1, <1>2, <1>3, <1>4, <1>5, CallRaisesStep, CallsDieStep, StartNetworkStep, StopNetworkStep,
     BoxExitsStep, BoxRestartsStep, ManualCleanupStep DEF DepNext, CallStep

\* It holds at first.
LEMMA DepInvInit == DepInit => DepInv
<1> SUFFICES ASSUME DepInit PROVE DepInv
  OBVIOUS
<1>1. /\ dep = NoDep /\ ids = 0 /\ box = "none" /\ volume = FALSE /\ network = TRUE /\ owner = TRUE
      /\ leftover = FALSE /\ depFaults = 0 /\ call = [c \in Calls |-> Asleep]
  BY DEF DepInit
<1>2. Asleep \in CallRecs /\ Asleep.pc = "new" /\ Asleep.seen = NoDep /\ 0 \in 0..MaxDepFaults
      /\ NoDep \in [id : Nat, status : Statuses] /\ NoDep.id = 0
  BY DepAssumption DEF Asleep, CallRecs, NoDep, CallPc, CliOps, Boxes, Statuses
<1>3. DepType
  <2>1. {volume, network, owner, leftover} \subseteq BOOLEAN /\ box \in Boxes
    BY <1>1 DEF Boxes
  <2>2. dep.id \in 0..ids /\ ids \in Nat
    BY <1>1, <1>2
  <2> QED
    BY <1>1, <1>2, <2>1, <2>2 DEF DepType
<1>4. CallsInv
  BY <1>1, <1>2 DEF CallsInv, Removes
<1>5. OrphanInv
  BY <1>1, <1>2 DEF OrphanInv, Ensuring, Removing, Active
<1>6. CalmInv
  BY <1>1, <1>2 DEF CalmInv, Ensuring, Active
<1> QED
  BY <1>3, <1>4, <1>5, <1>6 DEF DepInv

\* The dependency keeps its invariant next to the rest of the CLI.
THEOREM DepInvHolds == CliSpec => []DepInv
<1>1. CliInit => DepInv
  BY DepInvInit DEF CliInit
<1>2. ASSUME DepInv, [CliNext]_cliVars PROVE DepInv'
  BY <1>2, CliStep, DepStep
<1> QED
  BY <1>1, <1>2, PTL DEF CliSpec

\* The type invariant of the dependency.
THEOREM DepTypeCorrect == CliSpec => []DepTypeOK
<1>1. ASSUME DepInv PROVE DepTypeOK
  <2>1. dep \in [id : 0..ids, status : Statuses]
    BY <1>1 DEF DepInv, DepType
  <2> QED
    BY <1>1, <2>1 DEF DepInv, DepType, DepTypeOK, CallRecs, Statuses
<1> QED
  BY <1>1, DepInvHolds, PTL

\* A container without a row is found by nobody: there is none at rest.
THEOREM NoOrphanHolds == CliSpec => []NoOrphan
<1>1. ASSUME DepInv PROVE NoOrphan
  BY <1>1 DEF DepInv, OrphanInv, NoOrphan, Ensuring
<1> QED
  BY <1>1, DepInvHolds, PTL

\* What an ensure that finds a row answers, when nothing disturbs it.
LEMMA RecoveredStep ==
    ASSUME DepInv, [DepNext]_depVars, NEW c \in Calls,
           call[c].op = "ensure", call[c].seen # NoDep, call[c].pc # "done",
           call'[c].pc = "done", call[c].calm, depFaults' = 0
    PROVE  call'[c].answer = "ok"
<1>1. /\ call \in [Calls -> CallRecs] /\ depFaults \in Nat /\ call[c].pc \notin {"new", "done"}
      /\ Ensuring(c) /\ dep.id = call[c].seen.id /\ owner
      /\ call[c].pc \in {"volume", "run"} => box = "none"
      /\ call[c].pc # "select" => network
      /\ call[c].pc = "health" => box = "running"
      /\ call[c].pc # "select"
      /\ \A d \in Calls : Active(d) => d = c
  <2>1. call \in [Calls -> CallRecs] /\ depFaults \in Nat /\ call[c].pc \notin {"new", "done", "select"}
    BY DepAssumption DEF DepInv, DepType, CallsInv
  <2>2. Ensuring(c)
    BY <2>1 DEF Ensuring, Active
  <2> QED
    BY <2>1, <2>2 DEF DepInv, CalmInv
<1>2. ~DepFault
  BY <1>1 DEF DepFault
<1>3. ASSUME NEW d \in Calls, Ensure(d) \/ RemoveDep(d) \/ ListDeps(d) PROVE d = c
  <2>1. Active(d)
    BY <1>1, <1>3 DEF Ensure, RemoveDep, ListDeps, SelectDep, Inspect, RemoveStopped, CreateVolume, RunBox,
       WaitHealthy, Upsert, StopRuntime, SelectRemoved, RemoveBox, RemoveVolume, DeleteDep, DeleteOwner,
       Refresh, CommitStatus, RemoveFails, Step, Answer, Active
  <2> QED
    BY <1>1, <2>1
<1>4. CASE Ensure(c)
  <2>1. ~SelectDep(c) /\ ~(RemoveStopped(c) \/ CreateVolume(c))
    BY <1>1, StepFacts DEF SelectDep, RemoveStopped, CreateVolume, CallPc, Answer
  <2>2. CASE Inspect(c)
    <3>1. Answer(c, "inspect", "ok") \/ Step(c, "inspect", "rm")
      BY <1>1, <2>2 DEF Inspect
    <3> QED
      BY <1>1, <3>1, AnswerFacts, StepFacts DEF CallPc
  <2>3. CASE RunBox(c)
    <3>1. Step(c, "run", "health")
      BY <1>1, <1>2, <2>3 DEF RunBox, Step, Answer
    <3> QED
      BY <1>1, <3>1, StepFacts DEF CallPc
  <2>4. CASE WaitHealthy(c)
    <3>1. Step(c, "health", "upsert")
      BY <1>1, <1>2, <2>4 DEF WaitHealthy, Step, Answer
    <3> QED
      BY <1>1, <3>1, StepFacts DEF CallPc
  <2>5. CASE Upsert(c)
    <3>1. Answer(c, "upsert", "ok")
      BY <1>1, <2>5 DEF Upsert
    <3> QED
      BY <1>1, <3>1, AnswerFacts
  <2> QED
    BY <1>4, <2>1, <2>2, <2>3, <2>4, <2>5 DEF Ensure
<1>5. ~RemoveDep(c) /\ ~ListDeps(c)
  <2>1. /\ call[c].pc \notin {"drop_box", "drop_volume", "drop_row", "cascade", "down", "refresh"}
        /\ ~Removes(call[c].op) /\ call[c].op \notin {"list", "delete"}
    BY DEF DepInv, CallsInv, Removes
  <2> QED
    BY <2>1 DEF RemoveDep, ListDeps, StopRuntime, SelectRemoved, RemoveBox, RemoveVolume, DeleteDep,
       DeleteOwner, Refresh, CommitStatus, RemoveFails, Step, Answer
<1>6. ASSUME call'[c].pc = call[c].pc PROVE FALSE
  BY <1>6
<1>7. ASSUME NEW d \in Calls, NEW op \in CliOps \cup {"delete"}, Arrive(d, op) PROVE FALSE
  BY <1>1, <1>6, <1>7, ArriveFacts
<1>8. ASSUME NEW d \in Calls, GivesUp(d) PROVE FALSE
  BY <1>1, <1>6, <1>8 DEF GivesUp, CallRecs
<1>9. ASSUME StartNetwork \/ StopNetwork \/ BoxExits \/ BoxRestarts \/ ManualCleanup \/ UNCHANGED depVars PROVE FALSE
  <2>1. call' = call \/ call' = Disturbed
    BY <1>9 DEF StartNetwork, StopNetwork, BoxExits, BoxRestarts, ManualCleanup, depVars
  <2> QED
    BY <1>1, <1>6, <2>1, DisturbedFacts
<1> QED
  BY <1>2, <1>3, <1>4, <1>5, <1>7, <1>8, <1>9 DEF DepNext, CallStep, CallRaises, CallsDie

\* An ensure that finds a row brings the container up, in whatever state it is.
THEOREM RowIsRecoveredHolds == CliSpec => RowIsRecovered
<1> DEFINE Recovered ==
        \A c \in Calls :
            /\ call[c].op = "ensure" /\ call[c].seen # NoDep
            /\ call[c].pc # "done" /\ call'[c].pc = "done"
            /\ call[c].calm /\ depFaults' = 0
            => call'[c].answer = "ok"
<1>1. ASSUME DepInv, [CliNext]_cliVars PROVE [Recovered]_depVars
  <2>1. [DepNext]_depVars
    BY <1>1, CliStep
  <2> QED
    BY <1>1, <2>1, RecoveredStep
<1> QED
  BY <1>1, DepInvHolds, PTL DEF CliSpec, RowIsRecovered

-----------------------------------------------------------------------------
(* The audit of the start command *)

\* Induction on a number is the choice of a least counterexample.
LEMMA LeastOf ==
    ASSUME NEW T \in SUBSET Nat, T # {}
    PROVE  Min(T) \in T /\ \A y \in T : Min(T) <= y
<1>1. PICK x \in T : \A y \in T : ~(<<y, x>> \in OpToRel(<, Nat))
  BY WFMin, NatLessThanWellFounded
<1>2. ASSUME NEW y \in T PROVE x <= y
  <2>1. y \in Nat /\ x \in Nat
    OBVIOUS
  <2>2. ~(y < x)
    BY <1>1, <2>1, Zenon DEF OpToRel
  <2> QED BY <2>1, <2>2
<1> QED BY <1>1, <1>2, Zenon DEF Min

\* Where the scan goes on: at the next word, or behind the last.
LEMMA FollowingIsNext ==
    ASSUME NEW cmd \in Seq(Words), NEW i \in 0..(Len(cmd) + 1)
    PROVE  /\ Following(cmd, i) \in 1..(Len(cmd) + 1)
           /\ IF i <= Len(cmd) THEN Following(cmd, i) > i ELSE Following(cmd, i) = i
           /\ Following(cmd, i) <= Len(cmd) => cmd[Following(cmd, i)] # "&&"
           /\ \A j \in DOMAIN cmd : j > i /\ cmd[j] # "&&" => Following(cmd, i) <= j
<1> DEFINE T == {j \in DOMAIN cmd : j > i /\ cmd[j] # "&&"} \cup {Len(cmd) + 1}
<1>1. T \in SUBSET Nat /\ T # {} /\ DOMAIN cmd = 1..Len(cmd) /\ Len(cmd) \in Nat
  OBVIOUS
<1>2. Min(T) \in T /\ \A y \in T : Min(T) <= y
  BY <1>1, LeastOf
<1>3. Following(cmd, i) = Min(T)
  BY DEF Following
<1> HIDE DEF T
<1> DEFINE m == Following(cmd, i)
<1>4. m \in T /\ \A y \in T : m <= y
  BY <1>2, <1>3
<1> HIDE DEF m
<1>5. m \in 1..(Len(cmd) + 1) /\ (IF i <= Len(cmd) THEN m > i ELSE m = i) /\ (m <= Len(cmd) => cmd[m] # "&&")
  BY <1>1, <1>4 DEF T
<1>6. ASSUME NEW j \in DOMAIN cmd, j > i, cmd[j] # "&&" PROVE m <= j
  BY <1>4, <1>6 DEF T
<1> QED BY <1>5, <1>6 DEF m

\* The scan goes forward.
LEMMA SkipGoesOn ==
    ASSUME NEW cmd \in Seq(Words), NEW i \in DOMAIN cmd
    PROVE  Skip(cmd, i) \in (i + 1)..(Len(cmd) + 1)
<1> DEFINE a == Following(cmd, i)  b == Following(cmd, a)
<1>1. i \in 1..Len(cmd) /\ Len(cmd) \in Nat
  OBVIOUS
<1>2. a \in 1..(Len(cmd) + 1) /\ a > i
  BY <1>1, FollowingIsNext
<1>3. b \in 1..(Len(cmd) + 1) /\ b >= a
  BY <1>2, FollowingIsNext
<1>4. Skip(cmd, i) \in {a, b}
  BY DEF Skip
<1> HIDE DEF a, b
<1> QED BY <1>1, <1>2, <1>3, <1>4

\* The equation of the scan has a solution.  It is built from the end: "g solves k" says
\* that it satisfies the equation from k on.
ScanAt(cmd, g, i) ==
    IF i > Len(cmd) THEN {} ELSE (IF cmd[i] = "bin" THEN {i} ELSE {}) \cup g[Skip(cmd, i)]

Solves(cmd, g, k) == \A i \in k..(Len(cmd) + 1) : g[i] = ScanAt(cmd, g, i)

LEMMA ScanExists ==
    ASSUME NEW cmd \in Seq(Words)
    PROVE  \E g : g = [i \in 1..(Len(cmd) + 1) |-> ScanAt(cmd, g, i)]
<1> DEFINE n == Len(cmd)
           Places == 1..(n + 1)
           Open == {d \in 0..n : ~\E g \in [Places -> SUBSET Places] : Solves(cmd, g, n + 1 - d)}
<1>1. n \in Nat /\ DOMAIN cmd = 1..n
  OBVIOUS
<1>2. Open = {}
  <2>1. SUFFICES ASSUME Open # {} PROVE FALSE
    OBVIOUS
  <2>2. PICK d \in Open : \A e \in Open : d <= e
    <3>1. Open \in SUBSET Nat
      BY <1>1
    <3>2. Min(Open) \in Open /\ \A e \in Open : Min(Open) <= e
      BY <2>1, <3>1, LeastOf
    <3> QED BY <3>2
  <2>3. d \in 0..n /\ ~\E g \in [Places -> SUBSET Places] : Solves(cmd, g, n + 1 - d)
    OBVIOUS
  <2>4. CASE d = 0
    <3> DEFINE g == [i \in Places |-> {}]
    <3>1. g \in [Places -> SUBSET Places]
      OBVIOUS
    <3>2. ASSUME NEW i \in (n + 1)..(n + 1) PROVE g[i] = ScanAt(cmd, g, i)
      BY <1>1 DEF ScanAt
    <3>3. Solves(cmd, g, n + 1)
      BY <3>2, Zenon DEF Solves
    <3>4. n + 1 - d = n + 1
      BY <2>4, <1>1
    <3> QED BY <2>3, <3>1, <3>3, <3>4, Zenon
  <2>5. CASE d # 0
    <3>1. d - 1 \in 0..n /\ d - 1 \notin Open /\ d \in 1..n
      <4>1. d - 1 \in 0..n /\ d \in 1..n /\ ~(d <= d - 1)
        BY <1>1, <2>3, <2>5
      <4> QED BY <4>1, <2>2, Zenon
    <3>2. PICK g \in [Places -> SUBSET Places] : Solves(cmd, g, n + 1 - (d - 1))
      BY <3>1
    <3> DEFINE k == n + 1 - d
               h == [g EXCEPT ![k] = ScanAt(cmd, g, k)]
    <3>3. k \in 1..n /\ k + 1 = n + 1 - (d - 1)
      BY <1>1, <3>1
    <3> HIDE DEF k
    <3>4. Skip(cmd, k) \in (k + 1)..(n + 1)
      BY <1>1, <3>3, SkipGoesOn
    <3>5. h \in [Places -> SUBSET Places]
      <4>1. ScanAt(cmd, g, k) \in SUBSET Places
        BY <1>1, <3>2, <3>3, <3>4 DEF ScanAt
      <4> QED BY <4>1, <3>2
    <3>0. ASSUME NEW m \in (k + 1)..(n + 1) PROVE h[m] = g[m]
      <4>1. m \in Places /\ m # k
        BY <3>3, <1>1
      <4> QED BY <4>1, <3>2
    <3>8. h[k] = ScanAt(cmd, g, k) /\ k \in Places
      BY <3>2, <3>3, <1>1
    <3> HIDE DEF h
    <3>6. ASSUME NEW i \in k..(n + 1) PROVE h[i] = ScanAt(cmd, h, i)
      <4>1. CASE i = k
        <5>1. h[Skip(cmd, k)] = g[Skip(cmd, k)]
          BY <3>0, <3>4, Zenon
        <5> QED BY <4>1, <5>1, <3>8, <3>3, <1>1 DEF ScanAt
      <4>2. CASE i # k
        <5>1. i \in (k + 1)..(n + 1) /\ i \in Places
          BY <4>2, <3>3, <1>1
        <5>2. g[i] = ScanAt(cmd, g, i)
          BY <5>1, <3>2, <3>3 DEF Solves
        <5>3. i <= n => Skip(cmd, i) \in (i + 1)..(n + 1)
          BY <5>1, <3>3, <1>1, SkipGoesOn
        <5>4. ScanAt(cmd, h, i) = ScanAt(cmd, g, i)
          <6>1. i <= n => h[Skip(cmd, i)] = g[Skip(cmd, i)]
            <7>1. i <= n => Skip(cmd, i) \in (k + 1)..(n + 1)
              BY <5>1, <5>3, <3>3, <1>1
            <7> QED BY <7>1, <3>0, Zenon
          <6>2. CASE i > n
            BY <6>2, Zenon DEF ScanAt
          <6>3. CASE i <= n
            BY <6>1, <6>3, Zenon DEF ScanAt
          <6> QED BY <6>2, <6>3, <5>1, <3>3, <1>1
        <5> QED BY <5>1, <5>2, <5>4, <3>0
      <4> QED BY <4>1, <4>2
    <3>7. Solves(cmd, h, k)
      BY <3>6 DEF Solves
    <3> QED BY <2>3, <3>5, <3>7 DEF k
  <2> QED BY <2>4, <2>5
<1>3. PICK g \in [Places -> SUBSET Places] : Solves(cmd, g, 1)
  <2>1. n \in 0..n /\ n + 1 - n = 1
    BY <1>1
  <2> QED BY <1>2, <2>1
<1>4. g = [i \in Places |-> ScanAt(cmd, g, i)]
  BY <1>3 DEF Solves
<1> QED BY <1>4

Scan(cmd) == CHOOSE g : g = [i \in 1..(Len(cmd) + 1) |-> ScanAt(cmd, g, i)]

\* What the audit reports is what the scan finds from the first word on.
LEMMA BinsAreScanned == ASSUME NEW cmd PROVE BareNodeBins(cmd) = Scan(cmd)[Following(cmd, 0)]
BY Zenon DEF BareNodeBins, Scan, ScanAt

\* The scan at a word, from the scan behind it.
LEMMA ScanStep ==
    ASSUME NEW cmd \in Seq(Words), NEW i \in DOMAIN cmd
    PROVE  Scan(cmd)[i] = (IF cmd[i] = "bin" THEN {i} ELSE {}) \cup Scan(cmd)[Skip(cmd, i)]
<1>1. Scan(cmd) = [k \in 1..(Len(cmd) + 1) |-> ScanAt(cmd, Scan(cmd), k)]
  BY ScanExists, Zenon DEF Scan
<1> DEFINE s == Scan(cmd)
<1> HIDE DEF s
<1>2. i \in 1..(Len(cmd) + 1) /\ ~(i > Len(cmd))
  OBVIOUS
<1>3. s[i] = ScanAt(cmd, s, i)
  BY <1>1, <1>2, Zenon DEF s
<1> QED BY <1>2, <1>3 DEF s, ScanAt

\* A word that no wrapper takes is reached from every word before it.
LEMMA Reached ==
    ASSUME NEW cmd \in Seq(Words), NEW p \in DOMAIN cmd, cmd[p] = "bin",
           \A q \in DOMAIN cmd : q < p /\ cmd[q] \in {"npm", "npx"} => Following(cmd, q) # p
    PROVE  \A q \in 1..p : cmd[q] # "&&" => p \in Scan(cmd)[q]
<1> DEFINE Far == {d \in 0..(p - 1) : cmd[p - d] # "&&" /\ p \notin Scan(cmd)[p - d]}
<1>1. Len(cmd) \in Nat /\ DOMAIN cmd = 1..Len(cmd) /\ p \in 1..Len(cmd)
  OBVIOUS
<1>2. Far = {}
  <2>1. SUFFICES ASSUME Far # {} PROVE FALSE
    OBVIOUS
  <2>2. PICK d \in Far : \A e \in Far : d <= e
    <3>1. Far \in SUBSET Nat
      BY <1>1
    <3>2. Min(Far) \in Far /\ \A e \in Far : Min(Far) <= e
      BY <2>1, <3>1, LeastOf
    <3> QED BY <3>2
  <2> DEFINE q == p - d
  <2>3. q \in 1..p /\ cmd[q] # "&&" /\ p \notin Scan(cmd)[q] /\ q \in DOMAIN cmd
    BY <1>1
  <2>4. \A r \in 1..p : r > q /\ cmd[r] # "&&" => p \in Scan(cmd)[r]
    <3> SUFFICES ASSUME NEW r \in 1..p, r > q, cmd[r] # "&&", p \notin Scan(cmd)[r] PROVE FALSE
      OBVIOUS
    <3>1. p - r \in 0..(p - 1) /\ p - (p - r) = r /\ p - r < d
      BY <1>1
    <3>2. p - r \in Far
      BY <3>1
    <3> QED BY <2>2, <3>1, <3>2, <1>1
  <2> HIDE DEF q
  <2>5. Scan(cmd)[q] = (IF cmd[q] = "bin" THEN {q} ELSE {}) \cup Scan(cmd)[Skip(cmd, q)]
    BY <2>3, ScanStep
  <2>6. q # p
    BY <2>3, <2>5
  <2> DEFINE a == Following(cmd, q)  b == Following(cmd, a)
  <2>7. q < p /\ q \in 0..(Len(cmd) + 1) /\ q <= Len(cmd)
    BY <1>1, <2>3, <2>6
  <2>8. a \in 1..p /\ a > q /\ cmd[a] # "&&"
    <3>1. /\ a \in 1..(Len(cmd) + 1) /\ a > q
          /\ a <= Len(cmd) => cmd[a] # "&&"
          /\ \A j \in DOMAIN cmd : j > q /\ cmd[j] # "&&" => a <= j
      BY <2>7, FollowingIsNext
    <3> HIDE DEF a
    <3> QED BY <3>1, <2>7, <1>1
  <2>9. CASE cmd[q] \in {"npm", "npx"}
    <3>1. a # p
      BY <2>3, <2>7, <2>9
    <3>2. a < p /\ a \in 0..(Len(cmd) + 1) /\ a <= Len(cmd)
      <4> HIDE DEF a
      <4> QED BY <2>8, <3>1, <1>1
    <3>3. b \in 1..p /\ b > q /\ cmd[b] # "&&"
      <4>1. /\ b \in 1..(Len(cmd) + 1) /\ b > a
            /\ b <= Len(cmd) => cmd[b] # "&&"
            /\ \A j \in DOMAIN cmd : j > a /\ cmd[j] # "&&" => b <= j
        BY <3>2, FollowingIsNext
      <4> HIDE DEF a, b
      <4> QED BY <4>1, <3>2, <2>7, <2>8, <1>1
    <3>4. Skip(cmd, q) = b
      BY <2>9 DEF Skip
    <3> HIDE DEF b
    <3> QED BY <3>3, <3>4, <2>3, <2>4, <2>5
  <2>10. CASE cmd[q] \notin {"npm", "npx"}
    <3>1. Skip(cmd, q) = a
      BY <2>10 DEF Skip
    <3> HIDE DEF a
    <3> QED BY <3>1, <2>3, <2>4, <2>5, <2>8
  <2> QED BY <2>9, <2>10
<1>3. ASSUME NEW q \in 1..p, cmd[q] # "&&", p \notin Scan(cmd)[q] PROVE FALSE
  <2>1. p - q \in 0..(p - 1) /\ p - (p - q) = q
    BY <1>1
  <2>2. p - q \in Far
    BY <1>3, <2>1
  <2> QED BY <1>2, <2>2
<1> QED BY <1>3

\* The scan comes to the first word of a command, unless the command before it ends
\* in a wrapper.
LEMMA AuditIsSound ==
    ASSUME NEW cmd \in Seq(Words), NEW p \in DOMAIN cmd, cmd[p] = "bin", ShellRuns(cmd, p),
           ~BehindWrapper(cmd, p)
    PROVE  BareNodeBins(cmd) # {}
<1>2. Len(cmd) \in Nat /\ DOMAIN cmd = 1..Len(cmd) /\ p \in 1..Len(cmd)
  OBVIOUS
<1>3. ASSUME NEW q \in DOMAIN cmd, q < p, cmd[q] \in {"npm", "npx"} PROVE Following(cmd, q) # p
  <2>1. PICK k \in (q + 1)..(p - 1) : cmd[k] # "&&"
    BY <1>2, <1>3 DEF BehindWrapper
  <2>2. k \in DOMAIN cmd /\ k > q /\ q \in 0..(Len(cmd) + 1)
    BY <1>2, <2>1
  <2>3. Following(cmd, q) <= k /\ Following(cmd, q) \in 1..(Len(cmd) + 1)
    BY <2>1, <2>2, FollowingIsNext
  <2> DEFINE a == Following(cmd, q)
  <2> HIDE DEF a
  <2>4. a # p
    BY <1>2, <2>1, <2>3 DEF a
  <2> QED BY <2>4 DEF a
<1>4. \A q \in 1..p : cmd[q] # "&&" => p \in Scan(cmd)[q]
  BY <1>3, Reached
<1> DEFINE f == Following(cmd, 0)
<1>5. f \in 1..p /\ cmd[f] # "&&"
  <2>1. /\ f \in 1..(Len(cmd) + 1)
        /\ f <= Len(cmd) => cmd[f] # "&&"
        /\ \A k \in DOMAIN cmd : k > 0 /\ cmd[k] # "&&" => f <= k
    BY <1>2, FollowingIsNext
  <2> HIDE DEF f
  <2> QED BY <2>1, <1>2
<1>6. p \in Scan(cmd)[f]
  BY <1>4, <1>5
<1> QED BY <1>6, BinsAreScanned

\* A command that has passed is one in which the scan finds nothing.
AuditInv ==
    /\ start \in Seq(Words)
    /\ verdict = "passed" => BareNodeBins(start) = {}

\* What the shell would run without a path to it the audit of polaris.py finds, in a
\* start command of any length.
THEOREM AuditFindsBareBinsHolds == CliSpec => []AuditFindsBareBins
<1>1. CliInit => AuditInv
  <2> SUFFICES ASSUME CliInit PROVE AuditInv
    OBVIOUS
  <2>1. verdict = "none" /\ (start = <<>> \/ start \in StartCommands)
    BY DEF CliInit, SiteInit
  <2>2. start \in Seq(Words)
    <3>1. <<>> \in Seq(Words)
      OBVIOUS
    <3> QED BY <2>1, <3>1, CommandsAssumption, Zenon
  <2> QED BY <2>1, <2>2 DEF AuditInv
<1>2. AuditInv /\ [CliNext]_cliVars => AuditInv'
  <2> SUFFICES ASSUME AuditInv, [CliNext]_cliVars PROVE AuditInv'
    OBVIOUS
  <2>1. CASE Audit
    BY <2>1 DEF AuditInv, Audit
  <2>2. CASE UNCHANGED <<start, verdict>>
    BY <2>2 DEF AuditInv
  <2>3. Audit \/ UNCHANGED <<start, verdict>>
    BY DEF CliNext, cliVars, siteConfigVars, Publishing, Asking, SiteNext, Scaffold,
           WriteManifest, PublishSite, RollBackSite
  <2> QED BY <2>1, <2>2, <2>3
<1>3. AuditInv => AuditFindsBareBins
  BY AuditIsSound DEF AuditInv, AuditFindsBareBins
<1> QED BY <1>1, <1>2, <1>3, PTL DEF CliSpec

==============================================================================
