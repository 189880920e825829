------------------------- MODULE SessionCache_proofs -------------------------
(***************************************************************************)
(* Proofs about the runtime of a workspace and the cached connection, for  *)
(* any requests, finitely many prompts, any addresses and faults.          *)
(*                                                                         *)
(* RowTellsTruth speaks of a workspace at rest; between two commits the    *)
(* row may say anything.  TruthInv follows a request through its body:     *)
(* what it has read is what the row says, and the containers are as far as *)
(* its last step has brought them (Stage), since no other request that     *)
(* changes them is under way (~Overlap, in the history variable muddle).   *)
(* OneBrowserSession needs that a request on its way to create a browser   *)
(* session has seen none, under the lock that creates them (BrowserInv).   *)
(* OneOpenConnection needs what the connections are to the runs: an open   *)
(* one is cached or is being opened by the holder of the session's lock    *)
(* (Tracked), and who opens one has emptied the cache first (CacheEmpty).  *)
(***************************************************************************)
EXTENDS SessionCache, SequenceTheorems, FiniteSetTheorems, TLAPS

Pcs     == {"new", "wait", "done"} \cup LockedPc \cup UnlockedPc
Request == [kind : AllKinds, copy : Rows, b : Nat, pc : Pcs]
BrowserStatus == {"starting", "ready", "failed", "stopped"}
Containers == [st : {"none", "created", "up"}, inst : Nat, tok : Requests \cup {None}]

\* r's record becomes one with this pc, copy and browser; the others stay.
Becomes(r, pc, copy, b) ==
    /\ req' \in [Requests -> Request]
    /\ \A q \in Requests \ {r} : req'[q] = req[q]
    /\ req'[r].pc = pc /\ req'[r].copy = copy /\ req'[r].b = b

\* A request goes to another place and keeps what it knows.
LEMMA GotoEffect ==
    ASSUME TypeOK, NEW r \in Requests, NEW pc \in Pcs, Goto(r, pc)
    PROVE  Becomes(r, pc, req[r].copy, req[r].b) /\ req'[r].kind = req[r].kind
BY DEF TypeOK, Goto, Becomes, Request, Pcs

\* The columns that a commit leaves.
LEMMA MergedEffect ==
    ASSUME row \in Rows, NEW copy \in Rows, NEW new \in Rows
    PROVE  /\ Merged(copy, new) \in Rows
           /\ Merged(copy, new).ide = IF new.ide = copy.ide THEN row.ide ELSE new.ide
           /\ Merged(copy, new).tok = IF new.tok = copy.tok THEN row.tok ELSE new.tok
BY DEF Merged, Rows

\* flush and commit: the columns the request has changed, over the row as it is now.
LEMMA CommitEffect ==
    ASSUME TypeOK, NEW r \in Requests, NEW new \in Rows, NEW pc \in Pcs, Commit(r, new, pc)
    PROVE  /\ row' \in Rows /\ recent' \in BOOLEAN
           /\ row'.ide = IF new.ide = req[r].copy.ide THEN row.ide ELSE new.ide
           /\ row'.tok = IF new.tok = req[r].copy.tok THEN row.tok ELSE new.tok
           /\ Becomes(r, pc, row', req[r].b) /\ req'[r].kind = req[r].kind
<1>1. row \in Rows /\ req[r].copy \in Rows /\ row' = Merged(req[r].copy, new)
  BY DEF TypeOK, Commit
<1>2. row' \in Rows
  BY <1>1, MergedEffect
<1>3. recent' \in BOOLEAN
  BY DEF TypeOK, Commit
<1>4. Becomes(r, pc, row', req[r].b) /\ req'[r].kind = req[r].kind
  <2>1. /\ req \in [Requests -> Request]
        /\ req' = [req EXCEPT ![r] = [@ EXCEPT !.pc = pc, !.copy = row']]
    BY DEF TypeOK, Request, Pcs, Commit
  <2>2. [req[r] EXCEPT !.pc = pc, !.copy = row'] \in Request
    BY <1>2, <2>1 DEF Request
  <2> QED
    BY <2>1, <2>2 DEF Becomes, Request
<1> QED
  BY <1>1, <1>2, <1>3, <1>4, MergedEffect

\* An assignment at one index, whether the sequence has it or not.
LEMMA ExceptEffect ==
    ASSUME NEW S, NEW seq \in Seq(S), NEW i, NEW e \in S
    PROVE  [seq EXCEPT ![i] = e] \in Seq(S) /\ Len([seq EXCEPT ![i] = e]) = Len(seq)
<1> DEFINE changed == [seq EXCEPT ![i] = e]
<1>1. seq \in [1..Len(seq) -> S] /\ Len(seq) \in Nat
  OBVIOUS
<1>2. changed \in [1..Len(seq) -> S]
  BY <1>1
<1> HIDE DEF changed
<1>3. changed \in Seq(S)
  BY <1>1, <1>2, SeqDef
<1> QED
  BY <1>1, <1>2, <1>3, LenProperties DEF changed

\* A browser session changes its status; none is added.
LEMMA BrowserEffect ==
    ASSUME TypeOK, NEW b \in Nat, NEW st \in BrowserStatus, SetBrowser(b, st)
    PROVE  browsers' \in Seq(BrowserStatus) /\ Len(browsers') = Len(browsers)
<1>1. browsers \in Seq(BrowserStatus)
  BY DEF TypeOK, BrowserStatus
<1> QED
  BY <1>1, ExceptEffect DEF SetBrowser

\* The lock is the request's whose body is under it.
LockRule == \A r \in Requests : req[r].pc \in LockedPc <=> lock = r

Types ==
    /\ row \in Rows
    /\ browsers \in Seq(BrowserStatus)
    /\ ctr \in Containers
    /\ net \in NetState /\ recent \in BOOLEAN /\ muddle \in BOOLEAN
    /\ lock \in Requests \cup {None}
    /\ req \in [Requests -> Request]
    /\ scav \in {"sleep", "downctr", "downnet", "downfail", "update", "drop"}
    /\ sess \in [Sessions -> {"none", "active", "ended"}]
    /\ faults \in 0..MaxFaults

\* The type invariant, by its parts.
LEMMA TypeParts == TypeOK <=> Types /\ LockRule
BY DEF TypeOK, Types, LockRule, BrowserStatus, Containers, Request, Pcs

\* And after a step.
LEMMA NextTypeParts == Types' /\ LockRule' => TypeOK'
BY DEF TypeOK, Types, LockRule, BrowserStatus, Containers, Request, Pcs

\* Only the request that moves can take or free the lock.
LEMMA LockKept ==
    ASSUME LockRule, NEW r \in Requests,
           \A q \in Requests \ {r} : req'[q] = req[q],
           \/ UNCHANGED lock /\ (req'[r].pc \in LockedPc <=> req[r].pc \in LockedPc)
           \/ lock' = None /\ req[r].pc \in LockedPc /\ req'[r].pc \notin LockedPc
           \/ lock = None /\ lock' = r /\ req'[r].pc \in LockedPc
    PROVE  LockRule'
BY RuntimeAssumption DEF LockRule

\* Faults stay within their bound, the history is a truth value.
LEMMA FaultType == ASSUME TypeOK, Fault PROVE faults' \in 0..MaxFaults
BY RuntimeAssumption DEF TypeOK, Fault

\* The history is a truth value.
LEMMA HistoryType == ASSUME KeepHistory, muddle \in BOOLEAN PROVE muddle' \in BOOLEAN
BY DEF KeepHistory

\* The containers stay containers whatever docker does.
LEMMA DockerType ==
    ASSUME TypeOK
    PROVE  /\ \A tok \in Requests \cup {None} : CreateContainers(tok) => ctr' \in Containers /\ net' \in NetState
           /\ StartContainers => ctr' \in Containers
           /\ RemoveContainers => ctr' \in Containers
           /\ RemoveNetwork => net' \in NetState
<1>1. ctr \in Containers /\ net \in NetState /\ ctr.inst + 1 \in Nat
  BY DEF TypeOK, Containers
<1>2. ASSUME NEW tok \in Requests \cup {None}, CreateContainers(tok)
      PROVE  ctr' \in Containers /\ net' \in NetState
  BY <1>1, <1>2 DEF CreateContainers, Containers, NetState
<1>3. StartContainers => ctr' \in Containers
  BY <1>1 DEF StartContainers, Containers
<1>4. RemoveContainers => ctr' \in Containers
  BY <1>1 DEF RemoveContainers, Containers
<1>5. RemoveNetwork => net' \in NetState
  BY <1>1 DEF RemoveNetwork, NetState
<1> QED
  BY <1>2, <1>3, <1>4, <1>5

\* A request's copy, token and browser session have their types.
LEMMA CopyType ==
    ASSUME TypeOK, NEW r \in Requests
    PROVE  /\ req[r] \in Request /\ req[r].copy \in Rows /\ req[r].b \in Nat
           /\ req[r].copy.tok \in Requests \cup {None}
           /\ CurrentBrowser(row) \in Nat /\ CurrentBrowser(req[r].copy) \in Nat
           /\ CurrentBrowser(req[r].copy) = 0 => browsers = <<>>
BY DEF TypeOK, Request, Pcs, Rows, CurrentBrowser

-----------------------------------------------------------------------------
(* The requests.                                                           *)

\* A request comes in and reads the row.
LEMMA ArriveTypes ==
    ASSUME TypeOK, KeepHistory, NEW r \in Requests, NEW k \in Kinds, Arrive(r, k)
    PROVE  /\ TypeOK'
           /\ Becomes(r, IF k = "ensure" THEN "wait" ELSE "downctr", row, CurrentBrowser(row))
<1>1. Becomes(r, IF k = "ensure" THEN "wait" ELSE "downctr", row, CurrentBrowser(row))
  BY CopyType, RuntimeAssumption DEF Arrive, TypeOK, Becomes, Request, Pcs, UnlockedPc
<1>2. LockRule'
  BY <1>1, LockKept, TypeParts DEF Arrive, Becomes, LockedPc
<1>3. Types
  BY TypeParts
<1>4. Types'
  BY <1>1, <1>3, HistoryType DEF Arrive, Types, Becomes
<1> QED
  BY <1>1, <1>2, <1>4, NextTypeParts

\* ensure_workspace: the lock, and the refresh under it.
LEMMA TakeLockTypes ==
    ASSUME TypeOK, KeepHistory, NEW r \in Requests, TakeLock(r)
    PROVE  TypeOK' /\ Becomes(r, "prepare", req[r].copy, CurrentBrowser(req[r].copy))
<1>1. Becomes(r, "prepare", req[r].copy, CurrentBrowser(req[r].copy))
  <2>1. /\ req \in [Requests -> Request] /\ CurrentBrowser(req[r].copy) \in Nat
        /\ req' = [req EXCEPT ![r] = [@ EXCEPT !.pc = "prepare", !.b = CurrentBrowser(req[r].copy)]]
    BY CopyType DEF TypeOK, Request, Pcs, TakeLock
  <2>2. [req[r] EXCEPT !.pc = "prepare", !.b = CurrentBrowser(req[r].copy)] \in Request
    BY <2>1 DEF Request, Pcs, LockedPc
  <2> QED
    BY <2>1, <2>2 DEF Becomes, Request
<1>2. LockRule'
  BY <1>1, LockKept, TypeParts DEF TakeLock, Becomes, LockedPc
<1>3. Types
  BY TypeParts
<1>4. Types'
  BY <1>1, <1>3, HistoryType DEF TakeLock, Types, Becomes
<1> QED
  BY <1>1, <1>2, <1>4, NextTypeParts

\* The first commit of a body, and the browser session it may create.
LEMMA PrepareTypes ==
    ASSUME TypeOK, KeepHistory, NEW r \in Requests, Prepare(r)
    PROVE  /\ TypeOK'
           /\ \/ Gone /\ Becomes(r, "done", req[r].copy, req[r].b)
                 /\ UNCHANGED <<row, browsers>>
              \/ /\ ~Gone /\ row'.ide # "gone"
                 /\ IF req[r].b = 0 THEN Len(browsers') = Len(browsers) + 1
                                    ELSE Len(browsers') = Len(browsers)
                 /\ \E b \in Nat : Becomes(r, "upnet", row', b)
<1>0. /\ Types /\ LockRule /\ req[r].pc = "prepare"
      /\ UNCHANGED <<ctr, net, scav, sess, faults>>
  BY TypeParts DEF Prepare
<1>1. CASE RowVanished(r) /\ lock' = None
  <2>1. Becomes(r, "done", req[r].copy, req[r].b) /\ Gone /\ UNCHANGED <<row, browsers, recent>>
    BY <1>1, GotoEffect DEF RowVanished, Pcs
  <2>2. LockRule'
    BY <1>0, <1>1, <2>1, LockKept DEF Becomes, LockedPc
  <2>3. Types'
    BY <1>0, <1>1, <2>1, HistoryType DEF Types, Becomes
  <2> QED
    BY <2>1, <2>2, <2>3, NextTypeParts
<1>2. CASE ~Gone /\ UNCHANGED lock
  <2> DEFINE copy == req[r].copy
             b    == IF req[r].b = 0 THEN Len(browsers) + 1 ELSE req[r].b
             new  == [ide |-> "starting", cur |-> b,
                      tok |-> IF copy.tok = None THEN r ELSE copy.tok]
  <2>1. copy \in Rows /\ b \in Nat /\ new \in Rows
    BY <1>0, CopyType DEF Types, Rows, IdeStatus
  <2>2. /\ row' = Merged(copy, new) /\ recent' = (recent \/ new # copy)
        /\ browsers' = IF req[r].b = 0 THEN Append(browsers, "starting")
                       ELSE [browsers EXCEPT ![b] = "starting"]
        /\ req' = [req EXCEPT ![r] = [@ EXCEPT !.pc = "upnet", !.copy = row', !.b = b]]
    BY <1>2 DEF Prepare, RowVanished
  <2> HIDE DEF copy, b, new
  <2>3. row' \in Rows /\ row'.ide = IF new.ide = copy.ide THEN row.ide ELSE new.ide
    BY <1>0, <2>1, <2>2, MergedEffect DEF Types
  <2>4. Becomes(r, "upnet", row', b)
    BY <1>0, <2>1, <2>2, <2>3 DEF Types, Becomes, Request, Pcs, LockedPc
  <2>5. LockRule'
    BY <1>0, <1>2, <2>4, LockKept DEF Becomes, LockedPc
  <2>6. new.ide = "starting"
    BY DEF new
  <2>7. row'.ide # "gone"
    BY <1>2, <2>3, <2>6 DEF Gone
  <2>8. /\ browsers' \in Seq(BrowserStatus)
        /\ IF req[r].b = 0 THEN Len(browsers') = Len(browsers) + 1
                           ELSE Len(browsers') = Len(browsers)
    <3>1. browsers \in Seq(BrowserStatus) /\ "starting" \in BrowserStatus
      BY <1>0 DEF Types, BrowserStatus
    <3>2. CASE req[r].b = 0
      BY <2>2, <3>1, <3>2
    <3>3. CASE req[r].b # 0
      <4>1. browsers' = [browsers EXCEPT ![b] = "starting"]
        BY <2>2, <3>3
      <4> QED
        BY <3>1, <3>3, <4>1, ExceptEffect
    <3> QED
      BY <3>2, <3>3
  <2>9. recent' \in BOOLEAN
    BY <2>2
  <2>10. Types'
    BY <1>0, <1>2, <2>3, <2>4, <2>8, <2>9, HistoryType DEF Types, Becomes
  <2> QED
    BY <1>2, <2>1, <2>4, <2>5, <2>7, <2>8, <2>10, NextTypeParts
<1> QED
  BY <1>1, <1>2 DEF Prepare

\* A step that moves a request and neither the lock nor the rows.
LEMMA MoveTypes ==
    ASSUME TypeOK, KeepHistory, NEW r \in Requests,
           \E pc \in Pcs : Goto(r, pc) /\ (pc \in LockedPc <=> req[r].pc \in LockedPc),
           ctr' \in Containers, net' \in NetState, faults' \in 0..MaxFaults,
           UNCHANGED <<row, browsers, lock, scav, recent, sess>>
    PROVE  TypeOK'
<1>1. PICK pc \in Pcs : Goto(r, pc) /\ (pc \in LockedPc <=> req[r].pc \in LockedPc)
  OBVIOUS
<1>2. Becomes(r, pc, req[r].copy, req[r].b)
  BY <1>1, GotoEffect
<1>3. LockRule'
  BY <1>1, <1>2, TypeParts, LockKept DEF Becomes
<1>4. Types
  BY TypeParts
<1>5. Types'
  BY <1>2, <1>4, HistoryType DEF Types, Becomes
<1> QED
  BY <1>3, <1>5, NextTypeParts

\* compose up, as far as the network.
LEMMA UpNetworkTypes ==
    ASSUME TypeOK, KeepHistory, NEW r \in Requests, UpNetwork(r)
    PROVE  TypeOK'
<1>1. \/ Goto(r, "upctr") /\ req[r].pc = "upnet"
      \/ Goto(r, "reupctr") /\ req[r].pc = "reupnet"
      \/ Goto(r, "recover") /\ req[r].pc = "upnet"
      \/ Goto(r, "fail") /\ req[r].pc = "reupnet"
  BY DEF UpNetwork
<1>2. \E pc \in Pcs : Goto(r, pc) /\ (pc \in LockedPc <=> req[r].pc \in LockedPc)
  BY <1>1 DEF Pcs, LockedPc
<1>3. ctr' \in Containers /\ net' \in NetState /\ faults' \in 0..MaxFaults
  BY CopyType, DockerType, FaultType, TypeParts DEF UpNetwork, Types
<1> QED
  BY <1>2, <1>3, MoveTypes DEF UpNetwork

\* compose up, as far as the containers.
LEMMA UpContainersTypes ==
    ASSUME TypeOK, KeepHistory, NEW r \in Requests, UpContainers(r)
    PROVE  TypeOK'
<1>1. Goto(r, "health") \/ Goto(r, "recover") \/ Goto(r, "fail")
  BY DEF UpContainers
<1>2. \E pc \in Pcs : Goto(r, pc) /\ (pc \in LockedPc <=> req[r].pc \in LockedPc)
  BY <1>1 DEF UpContainers, Pcs, LockedPc
<1>3. faults \in 0..MaxFaults /\ MaxFaults \in Nat /\ ctr \in Containers /\ net \in NetState
  BY TypeParts, RuntimeAssumption DEF Types
<1>4. ctr' \in Containers /\ net' \in NetState
  BY <1>3, DockerType DEF UpContainers
<1>5. faults' \in 0..MaxFaults
  BY <1>3 DEF UpContainers
<1> QED
  BY <1>2, <1>4, <1>5, MoveTypes DEF UpContainers

\* The containers came up and went away: they are brought up again.
LEMMA RecoverTypes ==
    ASSUME TypeOK, KeepHistory, NEW r \in Requests, Recover(r)
    PROVE  TypeOK'
<1>1. \E pc \in Pcs : Goto(r, pc) /\ (pc \in LockedPc <=> req[r].pc \in LockedPc)
  BY DEF Recover, Pcs, LockedPc
<1>2. ctr' \in Containers /\ net' \in NetState /\ faults' \in 0..MaxFaults
  BY DockerType, TypeParts DEF Recover, Types, NetState
<1> QED
  BY <1>1, <1>2, MoveTypes DEF Recover

\* The health check.
LEMMA ProbeTypes ==
    ASSUME TypeOK, KeepHistory, NEW r \in Requests, Probe(r)
    PROVE  TypeOK'
<1>1. Goto(r, "finish") \/ Goto(r, "fail")
  BY DEF Probe
<1>2. \E pc \in Pcs : Goto(r, pc) /\ (pc \in LockedPc <=> req[r].pc \in LockedPc)
  BY <1>1 DEF Probe, Pcs, LockedPc
<1>3. faults \in 0..MaxFaults /\ MaxFaults \in Nat /\ ctr \in Containers /\ net \in NetState
  BY TypeParts, RuntimeAssumption DEF Types
<1>4. faults' \in 0..MaxFaults
  BY <1>3 DEF Probe
<1> QED
  BY <1>2, <1>3, <1>4, MoveTypes DEF Probe

\* A request ends: it has found the row deleted, or it has committed a status.
Vanishes(r) ==
    /\ Gone /\ Becomes(r, "done", req[r].copy, req[r].b)
    /\ UNCHANGED <<row, browsers, recent>>

Commits(r, st, pc) ==
    /\ ~Gone /\ Becomes(r, pc, row', req[r].b)
    /\ row' \in Rows
    /\ row'.ide = IF st = req[r].copy.ide THEN row.ide ELSE st
    /\ row'.tok = row.tok
    /\ recent' \in BOOLEAN

\* A request that ends because its row has gone.
LEMMA VanishEffect ==
    ASSUME TypeOK, NEW r \in Requests, RowVanished(r)
    PROVE  Vanishes(r)
BY GotoEffect DEF RowVanished, Vanishes, Pcs

\* A request that ends with a commit of the status.
LEMMA StatusCommitEffect ==
    ASSUME TypeOK, NEW r \in Requests, ~Gone, NEW st \in IdeStatus, NEW cur \in Nat, NEW pc \in Pcs,
           Commit(r, [req[r].copy EXCEPT !.ide = st, !.cur = cur], pc)
    PROVE  Commits(r, st, pc)
<1> DEFINE new == [req[r].copy EXCEPT !.ide = st, !.cur = cur]
<1>1. new \in Rows /\ new.ide = st /\ new.tok = req[r].copy.tok
  BY CopyType DEF Rows
<1>2. Commit(r, new, pc)
  OBVIOUS
<1> HIDE DEF new
<1>3. /\ row' \in Rows /\ recent' \in BOOLEAN
      /\ row'.ide = IF st = req[r].copy.ide THEN row.ide ELSE st
      /\ row'.tok = row.tok
      /\ Becomes(r, pc, row', req[r].b)
  BY <1>1, <1>2, CommitEffect
<1> QED
  BY <1>3 DEF Commits

\* The last commit of ensure_workspace.
LEMMA SettleTypes ==
    ASSUME TypeOK, KeepHistory, NEW r \in Requests, NEW pc \in {"finish", "fail"},
           NEW st \in {"ready", "failed"}, Settle(r, pc, st)
    PROVE  /\ TypeOK' /\ Len(browsers') = Len(browsers)
           /\ Vanishes(r) \/ Commits(r, st, "done")
<1>0. Types /\ LockRule /\ req[r].pc \in LockedPc /\ "done" \in Pcs
  BY TypeParts DEF Settle, LockedPc, Pcs
<1>1. CASE RowVanished(r)
  <2>1. Vanishes(r)
    BY <1>1, VanishEffect
  <2>2. LockRule'
    BY <1>0, <2>1, LockKept DEF Settle, Vanishes, Becomes, LockedPc
  <2>3. Types'
    BY <1>0, <2>1, HistoryType DEF Settle, Types, Vanishes, Becomes
  <2> QED
    BY <2>1, <2>2, <2>3, NextTypeParts DEF Vanishes
<1>2. CASE ~Gone /\ Commit(r, [req[r].copy EXCEPT !.ide = st], "done") /\ SetBrowser(req[r].b, st)
  <2>1. [req[r].copy EXCEPT !.ide = st] = [req[r].copy EXCEPT !.ide = st, !.cur = req[r].copy.cur]
    BY CopyType DEF Rows
  <2>2. Commits(r, st, "done")
    <3>1. st \in IdeStatus /\ req[r].copy.cur \in Nat
      BY CopyType DEF Rows, IdeStatus
    <3> QED
      BY <1>0, <1>2, <2>1, <3>1, StatusCommitEffect
  <2>3. LockRule'
    BY <1>0, <2>2, LockKept DEF Settle, Commits, Becomes, LockedPc
  <2>4. browsers' \in Seq(BrowserStatus) /\ Len(browsers') = Len(browsers)
    BY <1>2, CopyType, BrowserEffect DEF BrowserStatus
  <2>5. Types'
    BY <1>0, <2>2, <2>4, HistoryType DEF Settle, Types, Commits, Becomes
  <2> QED
    BY <2>2, <2>3, <2>4, <2>5, NextTypeParts
<1> QED
  BY <1>1, <1>2 DEF Settle

\* compose down.
LEMMA DownTypes ==
    ASSUME TypeOK, KeepHistory, NEW r \in Requests, DownContainers(r) \/ DownNetwork(r)
    PROVE  TypeOK'
<1>1. Goto(r, "downnet") \/ Goto(r, "downfail") \/ Goto(r, "commit")
  BY DEF DownContainers, DownNetwork
<1>2. \E pc \in Pcs : Goto(r, pc) /\ (pc \in LockedPc <=> req[r].pc \in LockedPc)
  BY <1>1 DEF DownContainers, DownNetwork, Pcs, LockedPc, UnlockedPc
<1>3. faults' \in 0..MaxFaults
  BY FaultType, TypeParts DEF DownContainers, DownNetwork, Types
<1>4. ctr' \in Containers /\ net' \in NetState
  BY DockerType, TypeParts DEF DownContainers, DownNetwork, Types
<1> QED
  BY <1>2, <1>3, <1>4, MoveTypes DEF DownContainers, DownNetwork

\* compose down raises.
LEMMA DownFailedTypes ==
    ASSUME TypeOK, KeepHistory, NEW r \in Requests, DownFailed(r)
    PROVE  TypeOK' /\ Len(browsers') = Len(browsers)
<1>0. /\ Types /\ LockRule /\ req[r].pc = "downfail" /\ "commit" \in Pcs /\ "done" \in Pcs
      /\ UNCHANGED <<ctr, net, lock, scav, sess, faults>>
  BY TypeParts DEF DownFailed, Pcs, UnlockedPc
<1>1. ASSUME NEW pc \in {"commit", "done"}, NEW copy, Becomes(r, pc, copy, req[r].b),
             row' \in Rows, recent' \in BOOLEAN, browsers' \in Seq(BrowserStatus)
      PROVE  TypeOK'
  <2>1. LockRule'
    BY <1>0, <1>1, LockKept DEF Becomes, LockedPc
  <2>2. Types'
    BY <1>0, <1>1, HistoryType DEF Types, Becomes
  <2> QED
    BY <2>1, <2>2, NextTypeParts
<1>2. CASE RowVanished(r)
  BY <1>0, <1>1, <1>2, VanishEffect DEF Vanishes, Types
<1>3. CASE ~Gone /\ req[r].kind = "delete" /\ Goto(r, "commit") /\ UNCHANGED <<row, browsers, recent>>
  BY <1>0, <1>1, <1>3, GotoEffect DEF Types
<1>4. CASE ~Gone /\ Commit(r, [req[r].copy EXCEPT !.ide = "failed"], "done") /\ UNCHANGED browsers
  <2>1. [req[r].copy EXCEPT !.ide = "failed"] \in Rows
    BY CopyType DEF Rows, IdeStatus
  <2>2. row' \in Rows /\ recent' \in BOOLEAN /\ Becomes(r, "done", row', req[r].b)
    BY <1>0, <1>4, <2>1, CommitEffect
  <2> QED
    BY <1>0, <1>1, <1>4, <2>2 DEF Types
<1>5. CASE SetBrowser(req[r].b, "failed") /\ Goto(r, "done") /\ UNCHANGED <<row, recent>>
  <2>1. browsers' \in Seq(BrowserStatus) /\ Len(browsers') = Len(browsers)
    BY <1>5, CopyType, BrowserEffect DEF BrowserStatus
  <2> QED
    BY <1>0, <1>1, <1>5, <2>1, GotoEffect DEF Types
<1>6. CASE Goto(r, "done") /\ UNCHANGED <<row, browsers, recent>>
  BY <1>0, <1>1, <1>6, GotoEffect DEF Types
<1> QED
  BY <1>2, <1>3, <1>4, <1>5, <1>6 DEF DownFailed

\* The last commit of a stop.
LEMMA StopCommitTypes ==
    ASSUME TypeOK, KeepHistory, NEW r \in Requests, StopCommit(r)
    PROVE  /\ TypeOK' /\ Len(browsers') = Len(browsers)
           /\ Vanishes(r) \/ Commits(r, "stopped", "wait") \/ Commits(r, "stopped", "done")
<1>0. /\ Types /\ LockRule /\ req[r].pc = "commit"
      /\ UNCHANGED <<ctr, net, lock, scav, sess, faults>>
  BY TypeParts DEF StopCommit
<1>1. CASE RowVanished(r)
  <2>1. Vanishes(r)
    BY <1>1, VanishEffect
  <2>2. LockRule'
    BY <1>0, <2>1, LockKept DEF Vanishes, Becomes, LockedPc
  <2>3. Types'
    BY <1>0, <2>1, HistoryType DEF Types, Vanishes, Becomes
  <2> QED
    BY <2>1, <2>2, <2>3, NextTypeParts DEF Vanishes
<1>2. ASSUME NEW pc \in {"wait", "done"}, ~Gone,
             Commit(r, [req[r].copy EXCEPT !.ide = "stopped", !.cur = 0], pc),
             SetBrowser(req[r].b, "stopped")
      PROVE  TypeOK' /\ Len(browsers') = Len(browsers) /\ Commits(r, "stopped", pc)
  <2>1. Commits(r, "stopped", pc)
    BY <1>2, StatusCommitEffect DEF IdeStatus, Pcs
  <2>2. LockRule'
    BY <1>0, <2>1, LockKept DEF Commits, Becomes, LockedPc
  <2>3. browsers' \in Seq(BrowserStatus) /\ Len(browsers') = Len(browsers)
    BY <1>2, CopyType, BrowserEffect DEF BrowserStatus
  <2>4. Types'
    BY <1>0, <2>1, <2>3, HistoryType DEF Types, Commits, Becomes
  <2> QED
    BY <2>1, <2>2, <2>3, <2>4, NextTypeParts
<1> QED
  BY <1>1, <1>2 DEF StopCommit

\* The last commit of a deletion.
LEMMA DeleteCommitTypes ==
    ASSUME TypeOK, KeepHistory, NEW r \in Requests, DeleteCommit(r)
    PROVE  TypeOK' /\ Len(browsers') = 0 /\ Becomes(r, "done", req[r].copy, req[r].b)
<1>0. Types /\ LockRule
  BY TypeParts
<1>1. Becomes(r, "done", req[r].copy, req[r].b)
  BY GotoEffect DEF DeleteCommit, Pcs
<1>2. LockRule'
  BY <1>0, <1>1, LockKept DEF DeleteCommit, Becomes, LockedPc
<1>3. row' \in Rows
  BY DEF DeleteCommit, Rows, IdeStatus
<1>4. sess' \in [Sessions -> {"none", "active", "ended"}]
  BY <1>0 DEF DeleteCommit, Types
<1>5. browsers' \in Seq(BrowserStatus) /\ Len(browsers') = 0
  BY DEF DeleteCommit
<1>6. net' \in NetState
  BY <1>0 DEF DeleteCommit, Types, NetState
<1>7. Types'
  BY <1>0, <1>1, <1>3, <1>4, <1>5, <1>6, HistoryType DEF DeleteCommit, Types, Becomes
<1> QED
  BY <1>1, <1>2, <1>5, <1>7, NextTypeParts

-----------------------------------------------------------------------------
(* The scavenger and the sessions.                                         *)

\* The scavenger.
LEMMA ScavengerTypes ==
    ASSUME TypeOK, KeepHistory, Scavenger PROVE TypeOK'
<1>0. Types /\ LockRule /\ MaxFaults \in Nat
  BY TypeParts, RuntimeAssumption
<1>1. UNCHANGED <<browsers, lock, req, recent, sess>>
  BY DEF Scavenger, ScavList, ScavDownContainers, ScavDownNetwork, ScavSkip, ScavUpdate, ScavDrop
<1>2. scav' \in {"sleep", "downctr", "downnet", "downfail", "update", "drop"}
  BY DEF Scavenger, ScavList, ScavDownContainers, ScavDownNetwork, ScavSkip, ScavUpdate, ScavDrop
<1>3. row' \in Rows
  <2>1. UNCHANGED row \/ row' = [row EXCEPT !.ide = "stopped"]
    BY DEF Scavenger, ScavList, ScavDownContainers, ScavDownNetwork, ScavSkip, ScavUpdate, ScavDrop
  <2> QED
    BY <1>0, <2>1 DEF Types, Rows, IdeStatus
<1>4. ctr' \in Containers /\ net' \in NetState
  BY <1>0, DockerType
     DEF Types, Scavenger, ScavList, ScavDownContainers, ScavDownNetwork, ScavSkip, ScavUpdate, ScavDrop
<1>5. faults' \in 0..MaxFaults
  BY <1>0, FaultType
     DEF Types, Scavenger, ScavList, ScavDownContainers, ScavDownNetwork, ScavSkip, ScavUpdate, ScavDrop
<1>6. LockRule'
  BY <1>0, <1>1 DEF LockRule
<1>7. Types'
  BY <1>0, <1>1, <1>2, <1>3, <1>4, <1>5, HistoryType DEF Types
<1> QED
  BY <1>6, <1>7, NextTypeParts

\* Sessions begin and end, and the idle time passes.
LEMMA SessionTypes ==
    ASSUME TypeOK, KeepHistory,
           Lapse \/ \E s \in Sessions : PostSession(s) \/ EndSession(s)
    PROVE  TypeOK'
<1>0. Types /\ LockRule
  BY TypeParts
<1>1. UNCHANGED <<row, browsers, ctr, net, lock, req, scav, faults>>
  BY DEF Lapse, PostSession, EndSession
<1>2. recent' \in BOOLEAN /\ sess' \in [Sessions -> {"none", "active", "ended"}]
  BY <1>0 DEF Types, Lapse, PostSession, EndSession
<1>3. LockRule'
  BY <1>0, <1>1 DEF LockRule
<1>4. Types'
  BY <1>0, <1>1, <1>2, HistoryType DEF Types
<1> QED
  BY <1>3, <1>4, NextTypeParts

\* A dev dependency is attached to the network, or detached.
LEMMA DepTypes ==
    ASSUME TypeOK, KeepHistory, DepAttaches \/ DepDetaches PROVE TypeOK'
<1>0. Types /\ LockRule
  BY TypeParts
<1>1. UNCHANGED rest /\ net' \in NetState
  BY DEF DepAttaches, DepDetaches, NetState
<1>2. LockRule'
  BY <1>0, <1>1 DEF rest, LockRule
<1>3. Types'
  BY <1>0, <1>1, HistoryType DEF rest, Types
<1> QED
  BY <1>2, <1>3, NextTypeParts

\* A step of the connections leaves the runtime alone, but for the faults.
RuntimeRests ==
    /\ UNCHANGED <<row, browsers, ctr, net, lock, req, scav, recent, sess>>
    /\ UNCHANGED faults \/ Fault
    /\ KeepHistory

\* Containers die, and the processes restart.
LEMMA RestTypes ==
    ASSUME TypeOK, RuntimeRests PROVE TypeOK'
<1>0. Types /\ LockRule
  BY TypeParts
<1>1. faults' \in 0..MaxFaults
  BY <1>0, FaultType DEF RuntimeRests, Types
<1>2. LockRule'
  BY <1>0 DEF RuntimeRests, LockRule
<1>3. Types'
  BY <1>0, <1>1, HistoryType DEF RuntimeRests, Types
<1> QED
  BY <1>2, <1>3, NextTypeParts

\* Every step of the runtime, whether or not the connections are there.
LEMMA RuntimeTypes ==
    ASSUME TypeOK, Next \/ RuntimeRests \/ UNCHANGED rtvars PROVE TypeOK'
<1>1. CASE UNCHANGED rtvars
  BY <1>1 DEF rtvars, TypeOK
<1>2. ASSUME KeepHistory, NEW r \in Requests, RequestSteps(r) PROVE TypeOK'
  BY <1>2, TakeLockTypes, PrepareTypes, UpNetworkTypes, UpContainersTypes, RecoverTypes,
     ProbeTypes, SettleTypes, DownTypes, DownFailedTypes, StopCommitTypes, DeleteCommitTypes
     DEF RequestSteps, Finish, GiveUp
<1>3. ASSUME KeepHistory, RuntimeSteps PROVE TypeOK'
  BY <1>2, <1>3, ArriveTypes, ScavengerTypes, SessionTypes, DepTypes DEF RuntimeSteps
<1> QED
  BY <1>1, <1>3, SessionTypes, RestTypes DEF Next

-----------------------------------------------------------------------------
(* One browser session.                                                    *)

\* A request that is going to create a browser session has seen that there is
\* none, and nobody else can create one before it.
BrowserInv ==
    /\ OneBrowserSession
    /\ \A r \in Requests : req[r].pc = "prepare" /\ req[r].b = 0 => Len(browsers) = 0

\* No browser session is added, and none is about to be on an old reading.
LEMMA BrowserKept ==
    ASSUME TypeOK, BrowserInv, Len(browsers') = Len(browsers) \/ Len(browsers') = 0,
           \A q \in Requests : req'[q].pc = "prepare" /\ req'[q].b = 0 =>
               Len(browsers') = 0 \/ (req[q].pc = "prepare" /\ req[q].b = 0)
    PROVE  BrowserInv'
BY DEF TypeOK, BrowserInv, OneBrowserSession

\* A step that goes elsewhere than to "prepare".
LEMMA GotoKeepsBrowsers ==
    ASSUME TypeOK, BrowserInv, NEW r \in Requests, NEW pc \in Pcs \ {"prepare"}, Goto(r, pc),
           UNCHANGED browsers
    PROVE  BrowserInv'
<1>1. Becomes(r, pc, req[r].copy, req[r].b)
  BY GotoEffect
<1> QED
  BY <1>1, BrowserKept DEF Becomes

\* Every step of a request.
LEMMA RequestKeepsBrowsers ==
    ASSUME TypeOK, KeepHistory, BrowserInv, NEW r \in Requests, RequestSteps(r)
    PROVE  BrowserInv'
<1> USE DEF BrowserInv
<1>1. CASE TakeLock(r)
  <2>1. Becomes(r, "prepare", req[r].copy, CurrentBrowser(req[r].copy)) /\ UNCHANGED browsers
    BY <1>1, TakeLockTypes DEF TakeLock
  <2>2. CurrentBrowser(req[r].copy) = 0 => Len(browsers) = 0
    BY CopyType
  <2> QED
    BY <2>1, <2>2, BrowserKept DEF Becomes
<1>2. CASE Prepare(r)
  <2>1. req[r].pc = "prepare" /\ lock = r
    BY <1>2 DEF Prepare, TypeOK, LockedPc
  <2>2. \A q \in Requests \ {r} : req[q].pc # "prepare"
    BY <2>1 DEF TypeOK, LockedPc
  <2>3. \A q \in Requests \ {r} : req'[q] = req[q]
    BY <1>2, PrepareTypes DEF Becomes
  <2>4. req'[r].pc # "prepare"
    BY <1>2, PrepareTypes DEF Becomes
  <2>5. \/ UNCHANGED browsers
        \/ IF req[r].b = 0 THEN Len(browsers') = Len(browsers) + 1 ELSE Len(browsers') = Len(browsers)
    BY <1>2, PrepareTypes
  <2>6. req[r].b = 0 => Len(browsers) = 0
    BY <2>1
  <2>7. Len(browsers') <= 1
    BY <2>5, <2>6 DEF OneBrowserSession
  <2> QED
    BY <2>2, <2>3, <2>4, <2>7 DEF OneBrowserSession
<1>3. CASE UpNetwork(r) \/ UpContainers(r) \/ Recover(r) \/ Probe(r) \/ DownContainers(r) \/ DownNetwork(r)
  <2>1. (\E pc \in Pcs \ {"prepare"} : Goto(r, pc)) /\ UNCHANGED browsers
    BY <1>3 DEF UpNetwork, UpContainers, Recover, Probe, DownContainers, DownNetwork, Pcs, LockedPc, UnlockedPc
  <2> QED
    BY <2>1, GotoKeepsBrowsers
<1>4. ASSUME NEW pc \in {"finish", "fail"}, NEW st \in {"ready", "failed"}, Settle(r, pc, st)
      PROVE  BrowserInv'
  <2>1. Len(browsers') = Len(browsers) /\ (Vanishes(r) \/ Commits(r, st, "done"))
    BY <1>4, SettleTypes
  <2> QED
    BY <2>1, BrowserKept DEF Vanishes, Commits, Becomes
<1>5. CASE DownFailed(r)
  <2>1. Len(browsers') = Len(browsers)
    BY <1>5, DownFailedTypes
  <2>2. \A q \in Requests : req'[q].pc = "prepare" => req'[q] = req[q]
    BY <1>5 DEF DownFailed, RowVanished, Goto, Commit, TypeOK
  <2> QED
    BY <2>1, <2>2, BrowserKept
<1>6. CASE StopCommit(r)
  <2>1. /\ Len(browsers') = Len(browsers)
        /\ Vanishes(r) \/ Commits(r, "stopped", "wait") \/ Commits(r, "stopped", "done")
    BY <1>6, StopCommitTypes
  <2> QED
    BY <2>1, BrowserKept DEF Vanishes, Commits, Becomes
<1>7. CASE DeleteCommit(r)
  BY <1>7, DeleteCommitTypes, BrowserKept DEF Becomes
<1> QED
  BY <1>1, <1>2, <1>3, <1>4, <1>5, <1>6, <1>7 DEF RequestSteps, Finish, GiveUp

\* Every step.
LEMMA BrowsersStep ==
    ASSUME TypeOK, BrowserInv, Next \/ RuntimeRests \/ UNCHANGED rtvars
    PROVE  BrowserInv'
<1>1. CASE UNCHANGED <<browsers, req>>
  BY <1>1, BrowserKept
<1>2. ASSUME KeepHistory, NEW r \in Requests, NEW k \in Kinds, Arrive(r, k) PROVE BrowserInv'
  <2>1. Becomes(r, IF k = "ensure" THEN "wait" ELSE "downctr", row, CurrentBrowser(row)) /\ UNCHANGED browsers
    BY <1>2, ArriveTypes DEF Arrive
  <2> QED
    BY <2>1, BrowserKept DEF Becomes
<1>3. RuntimeRests \/ UNCHANGED rtvars => UNCHANGED <<browsers, req>>
  BY DEF RuntimeRests, rtvars
<1>4. \/ Scavenger \/ Lapse \/ DepAttaches \/ DepDetaches
      \/ \E s \in Sessions : PostSession(s) \/ EndSession(s)
      => UNCHANGED <<browsers, req>>
  BY DEF Scavenger, ScavList, ScavDownContainers, ScavDownNetwork, ScavSkip, ScavUpdate, ScavDrop,
         Lapse, PostSession, EndSession, DepAttaches, DepDetaches, rest
<1> QED
  BY <1>1, <1>2, <1>3, <1>4, RequestKeepsBrowsers DEF Next, RuntimeSteps

-----------------------------------------------------------------------------
(* The row and the containers.                                             *)

Underway == LockedPc \ {"prepare"}

\* What the row says of the containers.
Truth ==
    /\ row.ide = "ready" => ctr.st = "up" /\ net # "none" /\ ctr.tok = row.tok
    /\ row.ide \in {"stopped", "gone"} => ctr.st = "none" /\ net # "own"

\* What a request knows of the row, and has made of the containers so far.
Stage(r) ==
    /\ req[r].pc \in Underway \cup UnlockedPc => req[r].copy = row
    /\ req[r].pc \in {"upctr", "reupctr"} => net # "none" /\ ctr.st # "none" /\ ctr.tok = row.tok
    /\ req[r].pc \in {"health", "finish"} => net # "none" /\ ctr.st = "up" /\ ctr.tok = row.tok
    /\ req[r].pc \in {"downnet", "commit"} => ctr.st = "none"
    /\ req[r].pc = "commit" => net # "own"

ScavStage ==
    /\ scav \in {"downnet", "update"} => ctr.st = "none"
    /\ scav = "update" => net # "own"

GoneIdle == Gone => \A r \in Requests : Idle(r)

\* Nobody has begun to change the containers.
Untouched ==
    /\ scav \in {"sleep", "downctr", "drop"}
    /\ \A r \in Requests : req[r].pc \in {"new", "wait", "done", "prepare", "downctr"}

TruthInv ==
    ~muddle =>
        /\ ~Overlap /\ ~DownWentWrong
        /\ \A r \in Requests : Stage(r)
        /\ ScavStage /\ GoneIdle
        /\ Untouched => Truth

\* What has been muddled stays so.
LEMMA HistoryGrows ==
    ASSUME KeepHistory, ~muddle'
    PROVE  ~muddle /\ ~Overlap' /\ ~DownWentWrong'
BY DEF KeepHistory

\* Next to a request that works on the runtime there are only such as wait.
LEMMA OthersPlain ==
    ASSUME TypeOK, ~Overlap, NEW r \in Requests, req[r].pc \in LockedPc \cup UnlockedPc
    PROVE  scav = "sleep" /\ \A q \in Requests \ {r} : req[q].pc \in {"new", "wait", "done"}
<1>1. ~Idle(r)
  BY DEF Idle, LockedPc, UnlockedPc
<1>2. scav = "sleep"
  BY <1>1 DEF Overlap
<1>3. ASSUME NEW q \in Requests \ {r} PROVE req[q].pc \in {"new", "wait", "done"}
  <2>1. req[q].pc \in Pcs
    BY DEF TypeOK, Pcs
  <2>2. req[q].pc \notin UnlockedPc
    BY <1>1 DEF Overlap, Unlocked
  <2>3. CASE req[q].pc \in LockedPc
    <3>1. lock = q
      BY <2>3 DEF TypeOK
    <3>2. req[r].pc \notin LockedPc
      BY <3>1 DEF TypeOK
    <3>3. Unlocked(r) /\ ~Idle(q)
      BY <2>3, <3>2 DEF Unlocked, Idle, LockedPc
    <3> QED
      BY <3>3 DEF Overlap
  <2> QED
    BY <2>1, <2>2, <2>3 DEF Pcs
<1> QED
  BY <1>2, <1>3

\* One that works without the lock is alone.
LEMMA Alone ==
    ASSUME ~Overlap, NEW r \in Requests, req[r].pc \in UnlockedPc
    PROVE  \A q \in Requests \ {r} : Idle(q)
BY DEF Overlap, Unlocked

\* A step of a request at work leaves the invariant if it does its own part.
LEMMA TruthOfRequest ==
    ASSUME TypeOK, TruthInv, ~muddle, ~Overlap', ~DownWentWrong',
           NEW r \in Requests, req[r].pc \in LockedPc \cup UnlockedPc,
           UNCHANGED scav, \A q \in Requests \ {r} : req'[q] = req[q],
           Stage(r)', GoneIdle', Untouched' => Truth'
    PROVE  TruthInv'
<1>1. scav' = "sleep" /\ \A q \in Requests \ {r} : req'[q].pc \in {"new", "wait", "done"}
  BY OthersPlain DEF TruthInv
<1>2. \A q \in Requests \ {r} : Stage(q)'
  BY <1>1 DEF Stage, Underway, LockedPc, UnlockedPc
<1>3. ScavStage'
  BY <1>1 DEF ScavStage
<1> QED
  BY <1>2, <1>3 DEF TruthInv

\* While a request is at work the row is there.
LEMMA NotGone ==
    ASSUME TruthInv, ~muddle, NEW r \in Requests, ~Idle(r) PROVE ~Gone
BY DEF TruthInv, GoneIdle

\* A request under way that leaves the row as it is and goes on.
LEMMA TruthOfMove ==
    ASSUME TypeOK, TruthInv, ~muddle, ~Overlap', ~DownWentWrong',
           NEW r \in Requests, req[r].pc \in Underway \cup UnlockedPc,
           NEW pc \in Pcs \ {"new", "wait", "done", "prepare", "downctr"}, Goto(r, pc),
           UNCHANGED <<row, scav>>,
           pc \in {"upctr", "reupctr"} => net' # "none" /\ ctr'.st # "none" /\ ctr'.tok = req[r].copy.tok,
           pc \in {"health", "finish"} => net' # "none" /\ ctr'.st = "up" /\ ctr'.tok = req[r].copy.tok,
           pc \in {"downnet", "commit"} => ctr'.st = "none",
           pc = "commit" => net' # "own"
    PROVE  TruthInv'
<1>1. Becomes(r, pc, req[r].copy, req[r].b)
  BY GotoEffect
<1>2. req[r].copy = row
  BY DEF TruthInv, Stage
<1>3. Stage(r)'
  BY <1>1, <1>2 DEF Becomes, Stage
<1>4. ~Gone'
  BY NotGone DEF Gone, Idle, Underway, LockedPc, UnlockedPc
<1>5. GoneIdle'
  BY <1>4 DEF GoneIdle
<1>6. ~Untouched'
  BY <1>1 DEF Untouched, Becomes
<1> QED
  BY <1>1, <1>3, <1>5, <1>6, TruthOfRequest DEF Becomes, Underway

\* A request that ends with a status in the row and the containers to match.
LEMMA TruthOfCommit ==
    ASSUME TypeOK, TruthInv, ~muddle, ~Overlap', ~DownWentWrong',
           NEW r \in Requests, req[r].pc \in Underway \cup UnlockedPc,
           NEW st \in {"ready", "failed", "stopped"}, NEW pc \in {"wait", "done"}, Commits(r, st, pc),
           UNCHANGED <<scav, ctr, net>>,
           st = "ready" => ctr.st = "up" /\ net # "none" /\ ctr.tok = row.tok,
           st = "stopped" => ctr.st = "none" /\ net # "own"
    PROVE  TruthInv'
<1>1. req[r].copy = row
  BY DEF TruthInv, Stage
<1>2. row'.ide = st /\ row'.tok = row.tok
  BY <1>1 DEF Commits
<1>3. Truth'
  BY <1>2 DEF Truth
<1>4. Stage(r)'
  BY DEF Commits, Becomes, Stage, Underway, LockedPc, UnlockedPc
<1>5. GoneIdle'
  BY <1>2 DEF GoneIdle, Gone
<1> QED
  BY <1>3, <1>4, <1>5, TruthOfRequest DEF Commits, Becomes, Underway

\* Every step of a request.
LEMMA RequestKeepsTruth ==
    ASSUME TypeOK, TruthInv, KeepHistory, ~muddle', NEW r \in Requests, RequestSteps(r)
    PROVE  TruthInv'
<1>0. ~muddle /\ ~Overlap' /\ ~DownWentWrong' /\ ~Overlap /\ ~DownWentWrong
  BY HistoryGrows DEF TruthInv
<1>1. CASE TakeLock(r)
  <2>1. Becomes(r, "prepare", req[r].copy, CurrentBrowser(req[r].copy))
    BY <1>1, TakeLockTypes
  <2>2. UNCHANGED <<row, ctr, net, scav>> /\ req[r].pc = "wait"
    BY <1>1 DEF TakeLock
  <2>3. \A q \in Requests : Stage(q)'
    BY <1>0, <2>1, <2>2 DEF TruthInv, Stage, Becomes, Underway, LockedPc, UnlockedPc
  <2>4. ScavStage' /\ GoneIdle'
    BY <1>0, <2>1, <2>2 DEF TruthInv, ScavStage, GoneIdle, Gone, Idle, Becomes
  <2>5. Untouched' => Truth'
    <3>1. Untouched' => Untouched
      BY <2>1, <2>2 DEF Untouched, Becomes
    <3> QED
      BY <1>0, <2>2, <3>1 DEF TruthInv, Truth
  <2> QED
    BY <1>0, <2>3, <2>4, <2>5 DEF TruthInv
<1>2. CASE Prepare(r)
  <2>1. req[r].pc = "prepare" /\ UNCHANGED <<ctr, net, scav>>
    BY <1>2 DEF Prepare
  <2>2. ~Gone
    BY <1>0, <2>1, NotGone DEF Idle
  <2>3. PICK b \in Nat : Becomes(r, "upnet", row', b)
    BY <1>2, <2>2, PrepareTypes
  <2>4. row'.ide # "gone"
    BY <1>2, <2>2, PrepareTypes
  <2>5. Stage(r)'
    BY <2>3 DEF Becomes, Stage
  <2>6. GoneIdle'
    BY <2>4 DEF GoneIdle, Gone
  <2>7. ~Untouched'
    BY <2>3 DEF Becomes, Untouched
  <2> QED
    BY <1>0, <2>1, <2>3, <2>5, <2>6, <2>7, TruthOfRequest DEF Becomes, LockedPc
<1>3. CASE UpNetwork(r)
  <2>1. req[r].pc \in Underway /\ UNCHANGED <<row, scav>>
    BY <1>3 DEF UpNetwork, Underway, LockedPc
  <2>2. CASE CreateContainers(req[r].copy.tok) /\ \E pc \in {"upctr", "reupctr"} : Goto(r, pc)
    <3>1. ctr \in Containers
      BY TypeParts DEF Types
    <3>2. net' # "none" /\ ctr'.st # "none" /\ ctr'.tok = req[r].copy.tok
      BY <2>2, <3>1 DEF CreateContainers, Containers
    <3> QED
      BY <1>0, <2>1, <2>2, <3>2, TruthOfMove DEF Pcs, LockedPc
  <2>3. CASE \E pc \in {"recover", "fail"} : Goto(r, pc)
    BY <1>0, <2>1, <2>3, TruthOfMove DEF Pcs, LockedPc
  <2> QED
    BY <1>3, <2>2, <2>3 DEF UpNetwork
<1>4. CASE UpContainers(r)
  <2>1. req[r].pc \in {"upctr", "reupctr"} /\ UNCHANGED <<row, scav, net>>
    BY <1>4 DEF UpContainers
  <2>2. req[r].pc \in Underway
    BY <2>1 DEF Underway, LockedPc
  <2>3. req[r].copy = row /\ net # "none" /\ ctr.tok = row.tok
    BY <1>0, <2>1, <2>2 DEF TruthInv, Stage
  <2>4. CASE StartContainers /\ Goto(r, "health")
    <3>1. ctr \in Containers
      BY TypeParts DEF Types
    <3>2. ctr'.st = "up" /\ ctr'.tok = ctr.tok
      BY <2>4, <3>1 DEF StartContainers, Containers
    <3> QED
      BY <1>0, <2>1, <2>2, <2>3, <2>4, <3>2, TruthOfMove DEF Pcs, LockedPc
  <2>5. CASE \E pc \in {"recover", "fail"} : Goto(r, pc)
    BY <1>0, <2>1, <2>2, <2>5, TruthOfMove DEF Pcs, LockedPc
  <2> QED
    BY <1>4, <2>4, <2>5 DEF UpContainers
<1>5. CASE Recover(r)
  <2>1. req[r].pc \in Underway /\ UNCHANGED <<row, scav>> /\ Goto(r, "reupnet")
    BY <1>5 DEF Recover, Underway, LockedPc
  <2> QED
    BY <1>0, <2>1, TruthOfMove DEF Pcs, LockedPc
<1>6. CASE Probe(r)
  <2>1. req[r].pc = "health" /\ UNCHANGED <<row, scav, net, ctr>>
    BY <1>6 DEF Probe
  <2>2. req[r].pc \in Underway
    BY <2>1 DEF Underway, LockedPc
  <2>3. req[r].copy = row /\ net # "none" /\ ctr.tok = row.tok /\ ctr.st = "up"
    BY <1>0, <2>1, <2>2 DEF TruthInv, Stage
  <2>4. \E pc \in {"finish", "fail"} : Goto(r, pc)
    BY <1>6 DEF Probe
  <2> QED
    BY <1>0, <2>1, <2>2, <2>3, <2>4, TruthOfMove DEF Pcs, LockedPc
<1>7. ASSUME NEW pc \in {"finish", "fail"}, NEW st \in {"ready", "failed"}, Settle(r, pc, st),
             pc = "finish" <=> st = "ready"
      PROVE  TruthInv'
  <2>1. req[r].pc = pc /\ UNCHANGED <<scav, ctr, net>>
    BY <1>7 DEF Settle
  <2>2. req[r].pc \in Underway /\ ~Idle(r)
    BY <2>1 DEF Underway, LockedPc, Idle
  <2>3. Commits(r, st, "done")
    BY <1>0, <1>7, <2>2, SettleTypes, NotGone DEF Vanishes
  <2>4. st = "ready" => ctr.st = "up" /\ net # "none" /\ ctr.tok = row.tok
    BY <1>0, <1>7, <2>1 DEF TruthInv, Stage
  <2> QED
    BY <1>0, <2>1, <2>2, <2>3, <2>4, TruthOfCommit
<1>8. CASE DownContainers(r)
  <2>1. req[r].pc \in UnlockedPc /\ UNCHANGED <<row, scav>>
    BY <1>8 DEF DownContainers, UnlockedPc
  <2>2. CASE RemoveContainers /\ Goto(r, "downnet")
    <3>1. ctr'.st = "none"
      BY <2>2, TypeParts DEF RemoveContainers, Types, Containers
    <3> QED
      BY <1>0, <2>1, <2>2, <3>1, TruthOfMove DEF Pcs, UnlockedPc
  <2>3. CASE Goto(r, "downfail")
    BY <1>0, <2>1, <2>3, TruthOfMove DEF Pcs, UnlockedPc
  <2> QED
    BY <1>8, <2>2, <2>3 DEF DownContainers
<1>9. CASE DownNetwork(r)
  <2>1. req[r].pc \in UnlockedPc /\ UNCHANGED <<row, scav, ctr>> /\ ctr.st = "none"
    BY <1>0, <1>9 DEF DownNetwork, UnlockedPc, TruthInv, Stage
  <2>2. CASE RemoveNetwork /\ Goto(r, "commit")
    <3>1. net' # "own"
      BY <2>1, <2>2 DEF RemoveNetwork
    <3> QED
      BY <1>0, <2>1, <2>2, <3>1, TruthOfMove DEF Pcs, UnlockedPc
  <2>3. CASE Goto(r, "downfail")
    BY <1>0, <2>1, <2>3, TruthOfMove DEF Pcs, UnlockedPc
  <2> QED
    BY <1>9, <2>2, <2>3 DEF DownNetwork
<1>10. ~DownFailed(r)
  BY <1>0 DEF DownFailed, DownWentWrong
<1>11. CASE StopCommit(r)
  <2>1. req[r].pc = "commit" /\ UNCHANGED <<scav, ctr, net>>
    BY <1>11 DEF StopCommit
  <2>2. req[r].pc \in UnlockedPc /\ ~Idle(r)
    BY <2>1 DEF UnlockedPc, Idle
  <2>3. \E pc \in {"wait", "done"} : Commits(r, "stopped", pc)
    BY <1>0, <1>11, <2>2, StopCommitTypes, NotGone DEF Vanishes
  <2>4. ctr.st = "none" /\ net # "own"
    BY <1>0, <2>1 DEF TruthInv, Stage
  <2> QED
    BY <1>0, <2>1, <2>2, <2>3, <2>4, TruthOfCommit
<1>12. CASE DeleteCommit(r)
  <2>1. /\ req[r].pc = "commit" /\ UNCHANGED <<scav, ctr>> /\ row'.ide = "gone"
        /\ net' = "own" => net = "own"
    BY <1>12 DEF DeleteCommit
  <2>2. Becomes(r, "done", req[r].copy, req[r].b)
    BY <1>12, DeleteCommitTypes
  <2>3. \A q \in Requests : Idle(q)'
    BY <1>0, <2>1, <2>2, Alone DEF Becomes, Idle, UnlockedPc
  <2>4. GoneIdle'
    BY <2>3 DEF GoneIdle
  <2>5. Truth'
    BY <1>0, <2>1 DEF TruthInv, Stage, Truth
  <2>6. Stage(r)'
    BY <2>2 DEF Becomes, Stage, Underway, LockedPc, UnlockedPc
  <2> QED
    BY <1>0, <2>1, <2>2, <2>4, <2>5, <2>6, TruthOfRequest DEF Becomes, UnlockedPc
<1> QED
  BY <1>1, <1>2, <1>3, <1>4, <1>5, <1>6, <1>7, <1>8, <1>9, <1>10, <1>11, <1>12
     DEF RequestSteps, Finish, GiveUp

\* A step that touches neither the row nor the containers, nor those who do.
LEMMA TruthRests ==
    ASSUME TruthInv, ~muddle, ~Overlap', ~DownWentWrong', UNCHANGED <<row, ctr, net, scav, req>>
    PROVE  TruthInv'
BY DEF TruthInv, Stage, ScavStage, GoneIdle, Gone, Idle, Untouched, Truth

\* A request comes in.
LEMMA ArriveKeepsTruth ==
    ASSUME TypeOK, TruthInv, KeepHistory, ~muddle',
           NEW r \in Requests, NEW k \in Kinds, Arrive(r, k)
    PROVE  TruthInv'
<1>0. ~muddle /\ ~Overlap' /\ ~DownWentWrong'
  BY HistoryGrows
<1>1. Becomes(r, IF k = "ensure" THEN "wait" ELSE "downctr", row, CurrentBrowser(row))
  BY ArriveTypes
<1>2. UNCHANGED <<row, ctr, net, scav>> /\ ~Gone /\ req[r].pc = "new"
  BY DEF Arrive
<1>3. \A q \in Requests : Stage(q)'
  BY <1>0, <1>1, <1>2 DEF TruthInv, Stage, Becomes, Underway, LockedPc, UnlockedPc
<1>4. ScavStage' /\ GoneIdle'
  BY <1>0, <1>2 DEF TruthInv, ScavStage, GoneIdle, Gone
<1>5. Untouched' => Truth'
  <2>1. Untouched' => Untouched
    BY <1>1, <1>2 DEF Untouched, Becomes
  <2> QED
    BY <1>0, <1>2, <2>1 DEF TruthInv, Truth
<1> QED
  BY <1>0, <1>3, <1>4, <1>5 DEF TruthInv

\* The scavenger, when it is alone.
LEMMA ScavengerKeepsTruth ==
    ASSUME TypeOK, TruthInv, KeepHistory, ~muddle', Scavenger
    PROVE  TruthInv'
<1>0. ~muddle /\ ~Overlap' /\ ~DownWentWrong' /\ ~Overlap /\ ~DownWentWrong
  BY HistoryGrows DEF TruthInv
<1>1. UNCHANGED req
  BY DEF Scavenger, ScavList, ScavDownContainers, ScavDownNetwork, ScavSkip, ScavUpdate, ScavDrop
<1>2. scav # "sleep" \/ scav' # "sleep"
  BY DEF Scavenger, ScavList, ScavDownContainers, ScavDownNetwork, ScavSkip, ScavUpdate, ScavDrop
<1>3. \A r \in Requests : Idle(r) /\ Idle(r)'
  <2>1. scav # "sleep" => \A r \in Requests : Idle(r)
    BY <1>0 DEF Overlap
  <2>2. scav' # "sleep" => \A r \in Requests : Idle(r)'
    BY <1>0 DEF Overlap
  <2>3. \A r \in Requests : Idle(r)' <=> Idle(r)
    BY <1>1 DEF Idle
  <2> QED
    BY <1>2, <2>1, <2>2, <2>3
<1>4. \A r \in Requests : Stage(r)'
  BY <1>3 DEF Idle, Stage, Underway, LockedPc, UnlockedPc
<1>5. GoneIdle'
  BY <1>3 DEF GoneIdle
<1>6. ctr \in Containers /\ row \in Rows /\ net \in NetState
  BY TypeParts DEF Types
<1>7. Untouched <=> scav \in {"sleep", "downctr", "drop"}
  BY <1>3 DEF Untouched, Idle
<1>8. ASSUME ScavStage', scav' \in {"sleep", "downctr", "drop"} => Truth'
      PROVE  TruthInv'
  BY <1>0, <1>4, <1>5, <1>8 DEF TruthInv, Untouched
<1>9. CASE ScavList \/ ScavDrop
  BY <1>0, <1>7, <1>8, <1>9 DEF ScavList, ScavDrop, TruthInv, ScavStage, Truth
<1>10. CASE ScavDownContainers
  <2>1. CASE RemoveContainers /\ scav' = "downnet"
    BY <1>6, <1>8, <2>1 DEF RemoveContainers, Containers, ScavStage
  <2>2. CASE scav' = "downfail"
    BY <1>0, <2>2 DEF DownWentWrong
  <2> QED
    BY <1>10, <2>1, <2>2 DEF ScavDownContainers
<1>11. CASE ScavDownNetwork
  <2>1. ctr.st = "none" /\ UNCHANGED ctr
    BY <1>0, <1>11 DEF ScavDownNetwork, TruthInv, ScavStage
  <2>2. CASE RemoveNetwork /\ scav' = "update"
    BY <1>8, <2>1, <2>2 DEF RemoveNetwork, ScavStage
  <2>3. CASE scav' = "downfail"
    BY <1>0, <2>3 DEF DownWentWrong
  <2> QED
    BY <1>11, <2>2, <2>3 DEF ScavDownNetwork
<1>12. ~ScavSkip
  BY <1>0 DEF ScavSkip, DownWentWrong
<1>13. CASE ScavUpdate
  <2>1. ctr.st = "none" /\ net # "own" /\ UNCHANGED <<ctr, net>> /\ scav' = "drop"
    BY <1>0, <1>13 DEF ScavUpdate, TruthInv, ScavStage
  <2>2. row'.ide \in {"gone", "stopped"}
    BY <1>6, <1>13 DEF ScavUpdate, Gone, Rows
  <2>3. ScavStage' /\ Truth'
    BY <2>1, <2>2 DEF ScavStage, Truth
  <2> QED
    BY <1>8, <2>3
<1> QED
  BY <1>9, <1>10, <1>11, <1>12, <1>13 DEF Scavenger

\* A dev dependency comes or goes: a network that is there stays, and none is the
\* workspace's alone afterwards.
LEMMA DepKeepsTruth ==
    ASSUME TruthInv, KeepHistory, ~muddle', DepAttaches \/ DepDetaches
    PROVE  TruthInv'
<1>1. ~muddle /\ ~Overlap' /\ ~DownWentWrong'
  BY HistoryGrows
<1>2. UNCHANGED <<row, ctr, scav, req>> /\ net' # "none" /\ net' # "own" /\ net # "none"
  BY DEF DepAttaches, DepDetaches, rest
<1>3. (\A r \in Requests : Stage(r)') /\ ScavStage' /\ GoneIdle'
  BY <1>1, <1>2 DEF TruthInv, Stage, ScavStage, GoneIdle, Gone, Idle
<1>4. Untouched' => Truth'
  BY <1>1, <1>2 DEF TruthInv, Untouched, Truth
<1> QED
  BY <1>1, <1>3, <1>4 DEF TruthInv

\* Every step.
LEMMA TruthStep ==
    ASSUME TypeOK, TruthInv, Next \/ RuntimeRests \/ UNCHANGED rtvars
    PROVE  TruthInv'
<1>1. CASE muddle'
  BY <1>1 DEF TruthInv
<1>2. CASE ~muddle' /\ UNCHANGED rtvars
  <2>1. UNCHANGED <<row, ctr, net, scav, req, muddle>>
    BY <1>2 DEF rtvars
  <2>2. ~Overlap' /\ ~DownWentWrong'
    BY <1>2, <2>1 DEF TruthInv, Overlap, DownWentWrong, Idle, Unlocked
  <2> QED
    BY <1>2, <2>1, <2>2, TruthRests
<1>3. CASE ~muddle' /\ (Next \/ RuntimeRests)
  <2>1. KeepHistory /\ ~muddle /\ ~Overlap' /\ ~DownWentWrong'
    BY <1>3, HistoryGrows DEF Next, RuntimeRests
  <2>2. CASE RuntimeRests \/ Lapse \/ \E s \in Sessions : PostSession(s) \/ EndSession(s)
    <3>1. UNCHANGED <<row, ctr, net, scav, req>>
      BY <2>2 DEF RuntimeRests, Lapse, PostSession, EndSession
    <3> QED
      BY <2>1, <3>1, TruthRests
  <2> QED
    BY <1>3, <2>1, <2>2, RequestKeepsTruth, ArriveKeepsTruth, ScavengerKeepsTruth, DepKeepsTruth
    DEF Next, RuntimeSteps
<1> QED
  BY <1>1, <1>2, <1>3

-----------------------------------------------------------------------------
RuntimeInv == TypeOK /\ BrowserInv /\ TruthInv

\* A workspace that has no containers yet.
LEMMA RuntimeInit == Init => RuntimeInv
<1> SUFFICES ASSUME Init PROVE RuntimeInv
  OBVIOUS
<1>1. row \in Rows /\ row.ide = "new"
  BY DEF Init, Rows, IdeStatus
<1>2. req \in [Requests -> Request] /\ \A r \in Requests : req[r].pc = "new"
  BY <1>1 DEF Init, Request, Pcs, AllKinds
<1>3. LockRule
  BY <1>2, RuntimeAssumption DEF Init, LockRule, LockedPc
<1>4. Types
  <2>1. faults \in 0..MaxFaults
    BY RuntimeAssumption DEF Init
  <2>2. ctr \in Containers
    BY DEF Init, Containers
  <2>3. browsers \in Seq(BrowserStatus)
    BY DEF Init
  <2> QED
    BY <1>1, <1>2, <2>1, <2>2, <2>3 DEF Init, Types, NetState
<1>5. BrowserInv
  BY <1>2 DEF Init, BrowserInv, OneBrowserSession
<1>6. ~Overlap /\ ~DownWentWrong
  BY <1>2 DEF Init, Overlap, DownWentWrong, Unlocked, UnlockedPc
<1>7. TruthInv
  BY <1>1, <1>2, <1>6
     DEF Init, TruthInv, Stage, ScavStage, GoneIdle, Gone, Truth, Underway, LockedPc, UnlockedPc
<1> QED
  BY <1>3, <1>4, <1>5, <1>7, TypeParts DEF RuntimeInv

\* Every step of the runtime and of the connections.
LEMMA RuntimeStep ==
    ASSUME RuntimeInv, Next \/ RuntimeRests \/ UNCHANGED rtvars
    PROVE  RuntimeInv'
BY RuntimeTypes, BrowsersStep, TruthStep DEF RuntimeInv

\* A step of the composition is one of the runtime, or leaves the runtime alone.
LEMMA CacheIsRuntime ==
    ASSUME [CacheNext]_vars PROVE Next \/ RuntimeRests \/ UNCHANGED rtvars
<1>1. CASE UNCHANGED vars
  BY <1>1 DEF vars
<1>2. CASE CacheSteps /\ KeepHistory
  <2>1. UNCHANGED faults \/ Fault
    BY <1>2 DEF CacheSteps, RunSteps, Handshake, EndTurn
  <2> QED
    BY <1>2, <2>1 DEF CacheSteps, RuntimeRests
<1>3. CASE (\E s \in Sessions : SessionEnds(s)) /\ KeepHistory
  BY <1>3 DEF SessionEnds, Next
<1>4. CASE Runtime /\ KeepHistory
  BY <1>4 DEF Runtime, Next
<1> QED
  BY <1>1, <1>2, <1>3, <1>4 DEF CacheNext

\* The invariant of the runtime, next to any use of the connections.
THEOREM RuntimeInvHolds == CacheSpec => []RuntimeInv
<1>1. CacheInit => RuntimeInv
  BY RuntimeInit DEF CacheInit
<1>2. RuntimeInv /\ [CacheNext]_vars => RuntimeInv'
  BY CacheIsRuntime, RuntimeStep
<1> QED
  BY <1>1, <1>2, PTL DEF CacheSpec

\* When nothing is under way and no two requests have worked on the containers at
\* once, a row that says "ready" has its containers up, and one that says
\* "stopped" has none: every end of a body commits what it has made of them.
THEOREM RowTellsTruthHolds == CacheSpec => []RowTellsTruth
<1>1. RuntimeInv => RowTellsTruth
  <2>1. Quiet => Untouched
    BY DEF Quiet, Untouched, Idle
  <2> QED
    BY <2>1 DEF RuntimeInv, TruthInv, RowTellsTruth, Truth
<1> QED
  BY <1>1, RuntimeInvHolds, PTL

\* _ensure_workspace_runtime_locked creates a browser session only when it has found
\* none, newest row included, and it has found none under the lock it still holds:
\* no interleaving of requests creates a second one.
THEOREM OneBrowserSessionHolds == CacheSpec => []OneBrowserSession
<1>1. RuntimeInv => OneBrowserSession
  BY DEF RuntimeInv, BrowserInv
<1> QED
  BY <1>1, RuntimeInvHolds, PTL

-----------------------------------------------------------------------------
(* The connections.                                                        *)

Run == [pc : RunPc, conn : Nat, ip : Addresses]
UnderLock == {"resolve", "check", "connect", "handshake"}

CacheTypes ==
    /\ addr \in Addresses
    /\ conns \in Seq(Conns)
    /\ cache \in 0..Len(conns)
    /\ slock \in Sessions \cup {None}
    /\ run \in [Sessions -> Run]
    /\ \A s \in Sessions : run[s].conn <= Len(conns)

\* The session lock is the run's that is on its way to a connection.
SessionLockRule == \A s \in Sessions : run[s].pc \in UnderLock => slock = s

\* A run opens a connection once.
Connected == {s \in Sessions : run[s].pc \in {"handshake", "turn", "drop", "end"}}

\* The cache is empty while a connection is being opened: the run that opens it
\* has dropped the cached one, and only the holder of the lock fills the cache.
CacheEmpty == \A s \in Sessions : run[s].pc \in {"connect", "handshake"} => cache = 0

\* A connection that is open is the cached one, or the one being opened.
Useful(c)  == conns[c].st = "open" /\ ~conns[c].refused
Opening(c) == \E s \in Sessions : run[s].pc = "handshake" /\ run[s].conn = c
Tracked    == \A c \in 1..Len(conns) : Useful(c) => c = cache \/ Opening(c)

CacheInv ==
    /\ CacheTypes /\ SessionLockRule
    /\ Len(conns) <= Cardinality(Connected)
    /\ CacheEmpty /\ Tracked

\* s's record becomes this one; the other runs stay.
RunBecomes(s, pc, conn, ip) ==
    /\ run' \in [Sessions -> Run]
    /\ \A t \in Sessions \ {s} : run'[t] = run[t]
    /\ run'[s].pc = pc /\ run'[s].conn = conn /\ run'[s].ip = ip

\* Connections are lost, closed or given up.
Fewer ==
    /\ conns' \in Seq(Conns) /\ Len(conns') = Len(conns)
    /\ \A c \in 1..Len(conns) : Useful(c)' => Useful(c)

\* A run goes elsewhere and keeps what it knows.
LEMMA SetEffect ==
    ASSUME CacheTypes, NEW s \in Sessions, NEW pc \in RunPc, Set(s, pc)
    PROVE  RunBecomes(s, pc, run[s].conn, run[s].ip)
BY DEF CacheTypes, Set, RunBecomes, Run

\* A connection is closed or lost.
LEMMA CloseEffect ==
    ASSUME CacheTypes, NEW c \in 1..Len(conns), NEW st \in {"lost", "closed"},
           conns' = [conns EXCEPT ![c].st = st]
    PROVE  Fewer /\ ~Useful(c)'
<1>1. conns \in Seq(Conns) /\ DOMAIN conns = 1..Len(conns) /\ conns[c] \in Conns
  BY DEF CacheTypes
<1>2. [conns[c] EXCEPT !.st = st] \in Conns /\ [conns[c] EXCEPT !.st = st].st = st
  BY <1>1 DEF Conns
<1>3. conns' = [conns EXCEPT ![c] = [conns[c] EXCEPT !.st = st]]
  OBVIOUS
<1>4. /\ conns' \in Seq(Conns) /\ Len(conns') = Len(conns)
      /\ \A d \in 1..Len(conns) : conns'[d] = IF d = c THEN [conns[c] EXCEPT !.st = st] ELSE conns[d]
  BY <1>1, <1>2, <1>3, ExceptSeq
<1> QED
  BY <1>2, <1>4 DEF Fewer, Useful

\* A connection is refused.
LEMMA RefuseEffect ==
    ASSUME CacheTypes, NEW c \in 1..Len(conns), conns' = [conns EXCEPT ![c].refused = TRUE]
    PROVE  Fewer /\ ~Useful(c)'
<1>1. conns \in Seq(Conns) /\ DOMAIN conns = 1..Len(conns) /\ conns[c] \in Conns
  BY DEF CacheTypes
<1>2. [conns[c] EXCEPT !.refused = TRUE] \in Conns /\ [conns[c] EXCEPT !.refused = TRUE].refused
  BY <1>1 DEF Conns
<1>3. conns' = [conns EXCEPT ![c] = [conns[c] EXCEPT !.refused = TRUE]]
  OBVIOUS
<1>4. /\ conns' \in Seq(Conns) /\ Len(conns') = Len(conns)
      /\ \A d \in 1..Len(conns) : conns'[d] = IF d = c THEN [conns[c] EXCEPT !.refused = TRUE] ELSE conns[d]
  BY <1>1, <1>2, <1>3, ExceptSeq
<1> QED
  BY <1>2, <1>4 DEF Fewer, Useful

\* drop: the cached connection is closed, and the cache is empty.
LEMMA DropEffect ==
    ASSUME CacheTypes, DropCached
    PROVE  /\ cache' = 0 /\ Fewer
           /\ \A c \in 1..Len(conns) : Useful(c)' => c # cache
<1>1. CASE cache = 0
  BY <1>1 DEF CacheTypes, DropCached, Fewer, Useful
<1>2. CASE cache # 0
  <2>1. cache \in 1..Len(conns)
    BY <1>2 DEF CacheTypes
  <2> QED
    BY <1>2, <2>1, CloseEffect DEF DropCached
<1> QED
  BY <1>1, <1>2

\* The number of connections is bounded by the runs that have come so far.
LEMMA ConnectedGrows ==
    ASSUME CacheTypes, NEW s \in Sessions, \A t \in Sessions \ {s} : run'[t] = run[t],
           s \in Connected => s \in Connected'
    PROVE  /\ Cardinality(Connected) <= Cardinality(Connected')
           /\ s \in Connected' \ Connected => Cardinality(Connected) + 1 <= Cardinality(Connected')
           /\ Cardinality(Connected) \in Nat /\ Cardinality(Connected') \in Nat
<1>1. IsFiniteSet(Connected) /\ IsFiniteSet(Connected')
  BY CacheAssumption, FS_Subset DEF Connected
<1>2. Connected \subseteq Connected'
  BY DEF Connected
<1>3. Cardinality(Connected) \in Nat /\ Cardinality(Connected') \in Nat
  BY <1>1, FS_CardinalityType
<1>4. Cardinality(Connected) <= Cardinality(Connected')
  BY <1>1, <1>2, FS_Subset
<1>5. ASSUME s \in Connected' \ Connected PROVE Cardinality(Connected) + 1 <= Cardinality(Connected')
  <2>1. IsFiniteSet(Connected \cup {s}) /\ Cardinality(Connected \cup {s}) = Cardinality(Connected) + 1
    BY <1>1, <1>5, FS_AddElement
  <2>2. Connected \cup {s} \subseteq Connected'
    BY <1>2, <1>5
  <2>3. Cardinality(Connected \cup {s}) <= Cardinality(Connected')
    BY <1>1, <2>2, FS_Subset
  <2> QED
    BY <2>1, <2>3
<1> QED
  BY <1>3, <1>4, <1>5

\* Only the run that moves can take or free the session lock.
LEMMA SessionLockKept ==
    ASSUME CacheInv, NEW s \in Sessions, NEW pc, NEW conn, NEW ip, RunBecomes(s, pc, conn, ip),
           \/ slock' = slock /\ (pc \in UnderLock => run[s].pc \in UnderLock)
           \/ slock = None /\ slock' = s
           \/ slock' = None /\ run[s].pc \in UnderLock /\ pc \notin UnderLock
    PROVE  SessionLockRule' /\ slock' \in Sessions \cup {None}
BY CacheAssumption DEF CacheInv, CacheTypes, SessionLockRule, RunBecomes

\* A run moves on, and neither opens a connection nor says what is cached.
LEMMA RunMoves ==
    ASSUME CacheInv, NEW s \in Sessions, NEW pc \in RunPc, NEW ip,
           RunBecomes(s, pc, run[s].conn, ip), UNCHANGED <<addr, conns, cache>>,
           s \in Connected => pc \in {"drop", "end"},
           run[s].pc # "handshake", pc \notin {"connect", "handshake"},
           SessionLockRule', slock' \in Sessions \cup {None}
    PROVE  CacheInv'
<1>1. CacheTypes'
  BY DEF CacheInv, CacheTypes, RunBecomes
<1>2. Len(conns') <= Cardinality(Connected')
  <2>1. s \in Connected => s \in Connected'
    BY DEF Connected, RunBecomes
  <2>2. Len(conns) \in Nat /\ Len(conns') = Len(conns) /\ Len(conns) <= Cardinality(Connected)
    BY DEF CacheInv, CacheTypes
  <2>3. /\ Cardinality(Connected) <= Cardinality(Connected')
        /\ Cardinality(Connected) \in Nat /\ Cardinality(Connected') \in Nat
    BY <2>1, ConnectedGrows DEF CacheInv, RunBecomes
  <2> QED
    BY <2>2, <2>3
<1>3. CacheEmpty'
  BY DEF CacheInv, CacheEmpty, RunBecomes
<1>4. \A c : Opening(c) => Opening(c)'
  BY DEF Opening, RunBecomes
<1>5. Tracked'
  BY <1>4 DEF CacheInv, Tracked, Useful
<1> QED
  BY <1>1, <1>2, <1>3, <1>5 DEF CacheInv

\* A prompt comes in.
LEMMA BeginStep ==
    ASSUME CacheInv, NEW s \in Sessions, BeginRun(s), UNCHANGED addr PROVE CacheInv'
<1>1. RunBecomes(s, "lock", run[s].conn, run[s].ip) /\ run[s].pc = "none"
  BY SetEffect DEF CacheInv, BeginRun, RunPc
<1>2. SessionLockRule' /\ slock' \in Sessions \cup {None}
  BY <1>1, SessionLockKept DEF BeginRun, UnderLock
<1> QED
  BY <1>1, <1>2, RunMoves DEF BeginRun, RunPc, Connected

\* get, under the lock of the session.
LEMMA TakeSessionLockStep ==
    ASSUME CacheInv, NEW s \in Sessions, TakeSessionLock(s), UNCHANGED addr PROVE CacheInv'
<1>1. RunBecomes(s, "resolve", run[s].conn, run[s].ip) /\ run[s].pc = "lock"
  BY SetEffect DEF CacheInv, TakeSessionLock, RunPc
<1>2. SessionLockRule' /\ slock' \in Sessions \cup {None}
  BY <1>1, SessionLockKept DEF TakeSessionLock
<1> QED
  BY <1>1, <1>2, RunMoves DEF TakeSessionLock, RunPc, Connected

\* The address of the workspace is asked for.
LEMMA ResolveStep ==
    ASSUME CacheInv, NEW s \in Sessions, Resolve(s), UNCHANGED addr PROVE CacheInv'
<1>1. CacheTypes /\ run[s].pc = "resolve" /\ UNCHANGED <<addr, conns, cache>>
  BY DEF CacheInv, Resolve
<1>2. CASE run' = [run EXCEPT ![s].pc = "check", ![s].ip = addr] /\ UNCHANGED slock
  <2>1. RunBecomes(s, "check", run[s].conn, addr)
    BY <1>1, <1>2 DEF CacheTypes, RunBecomes, Run, RunPc
  <2>2. SessionLockRule' /\ slock' \in Sessions \cup {None}
    BY <1>1, <1>2, <2>1, SessionLockKept DEF UnderLock
  <2> QED
    BY <1>1, <2>1, <2>2, RunMoves DEF RunPc, Connected
<1>3. CASE Set(s, "end") /\ slock' = None
  <2>1. RunBecomes(s, "end", run[s].conn, run[s].ip)
    BY <1>1, <1>3, SetEffect DEF RunPc
  <2>2. SessionLockRule' /\ slock' \in Sessions \cup {None}
    BY <1>1, <1>3, <2>1, SessionLockKept DEF UnderLock
  <2> QED
    BY <1>1, <2>1, <2>2, RunMoves DEF RunPc, Connected
<1> QED
  BY <1>2, <1>3 DEF Resolve

\* The turn ends.
LEMMA EndTurnStep ==
    ASSUME CacheInv, NEW s \in Sessions, EndTurn(s), UNCHANGED addr PROVE CacheInv'
<1>1. PICK pc \in {"end", "drop"} : Set(s, pc)
  BY DEF EndTurn
<1>2. RunBecomes(s, pc, run[s].conn, run[s].ip) /\ run[s].pc = "turn"
  BY <1>1, SetEffect DEF CacheInv, EndTurn, RunPc
<1>3. SessionLockRule' /\ slock' \in Sessions \cup {None}
  BY <1>2, SessionLockKept DEF EndTurn, UnderLock
<1> QED
  BY <1>2, <1>3, RunMoves DEF EndTurn, RunPc

\* A run moves on after the cache has been emptied.
LEMMA EmptyCacheMoves ==
    ASSUME CacheInv, NEW s \in Sessions, NEW pc \in RunPc, DropCached,
           RunBecomes(s, pc, run[s].conn, run[s].ip), UNCHANGED addr,
           s \in Connected => pc = "end",
           run[s].pc # "handshake", pc # "handshake",
           SessionLockRule', slock' \in Sessions \cup {None}
    PROVE  CacheInv'
<1>1. cache' = 0 /\ Fewer /\ \A c \in 1..Len(conns) : Useful(c)' => c # cache
  BY DropEffect DEF CacheInv
<1>2. CacheTypes'
  BY <1>1 DEF CacheInv, CacheTypes, RunBecomes, Fewer
<1>3. Len(conns') <= Cardinality(Connected')
  <2>1. s \in Connected => s \in Connected'
    BY DEF Connected, RunBecomes
  <2>2. Len(conns) \in Nat /\ Len(conns') = Len(conns) /\ Len(conns) <= Cardinality(Connected)
    BY <1>1 DEF CacheInv, CacheTypes, Fewer
  <2>3. /\ Cardinality(Connected) <= Cardinality(Connected')
        /\ Cardinality(Connected) \in Nat /\ Cardinality(Connected') \in Nat
    BY <2>1, ConnectedGrows DEF CacheInv, RunBecomes
  <2> QED
    BY <2>2, <2>3
<1>4. CacheEmpty'
  BY <1>1 DEF CacheEmpty
<1>5. \A c : Opening(c) => Opening(c)'
  BY DEF Opening, RunBecomes
<1>6. Tracked'
  BY <1>1, <1>5 DEF CacheInv, Tracked, Fewer
<1> QED
  BY <1>2, <1>3, <1>4, <1>6 DEF CacheInv

\* The cached connection is used again, or dropped for a new one.
LEMMA CheckCachedStep ==
    ASSUME CacheInv, NEW s \in Sessions, CheckCached(s), UNCHANGED addr PROVE CacheInv'
<1>1. CacheTypes /\ run[s].pc = "check"
  BY DEF CacheInv, CheckCached
<1>2. CASE /\ run' = [run EXCEPT ![s].pc = "turn", ![s].conn = cache]
           /\ slock' = None /\ UNCHANGED <<conns, cache>>
  <2>0. Len(conns) \in Nat /\ cache \in Nat /\ cache <= Len(conns)
    BY <1>1 DEF CacheTypes
  <2>1. RunBecomes(s, "turn", cache, run[s].ip)
    BY <1>1, <1>2, <2>0 DEF CacheTypes, RunBecomes, Run, RunPc
  <2>2. SessionLockRule' /\ slock' \in Sessions \cup {None}
    BY <1>1, <1>2, <2>1, SessionLockKept DEF UnderLock
  <2>3. CacheTypes'
    BY <1>1, <1>2, <2>0, <2>1, <2>2 DEF CacheTypes, RunBecomes
  <2>4. Len(conns') <= Cardinality(Connected')
    <3>1. s \notin Connected
      BY <1>1 DEF Connected
    <3>2. Len(conns) \in Nat /\ Len(conns') = Len(conns) /\ Len(conns) <= Cardinality(Connected)
      BY <1>2 DEF CacheInv, CacheTypes
    <3>3. /\ Cardinality(Connected) <= Cardinality(Connected')
          /\ Cardinality(Connected) \in Nat /\ Cardinality(Connected') \in Nat
      BY <1>1, <2>1, <3>1, ConnectedGrows DEF RunBecomes
    <3> QED
      BY <3>2, <3>3
  <2>5. CacheEmpty'
    BY <1>2, <2>1 DEF CacheInv, CacheEmpty, RunBecomes
  <2>6. \A c : Opening(c) => Opening(c)'
    BY <1>1, <2>1 DEF Opening, RunBecomes
  <2>7. Tracked'
    BY <1>2, <2>6 DEF CacheInv, Tracked, Useful
  <2> QED
    BY <2>2, <2>3, <2>4, <2>5, <2>7 DEF CacheInv
<1>3. CASE DropCached /\ Set(s, "connect") /\ UNCHANGED slock
  <2>1. RunBecomes(s, "connect", run[s].conn, run[s].ip)
    BY <1>1, <1>3, SetEffect DEF RunPc
  <2>2. SessionLockRule' /\ slock' \in Sessions \cup {None}
    BY <1>1, <1>3, <2>1, SessionLockKept DEF UnderLock
  <2> QED
    BY <1>1, <1>3, <2>1, <2>2, EmptyCacheMoves DEF RunPc, Connected
<1> QED
  BY <1>2, <1>3 DEF CheckCached

\* The run drops the connection that has failed it.
LEMMA DropAfterFailureStep ==
    ASSUME CacheInv, NEW s \in Sessions, DropAfterFailure(s), UNCHANGED addr PROVE CacheInv'
<1>1. RunBecomes(s, "end", run[s].conn, run[s].ip) /\ run[s].pc = "drop"
  BY SetEffect DEF CacheInv, DropAfterFailure, RunPc
<1>2. SessionLockRule' /\ slock' \in Sessions \cup {None}
  BY <1>1, SessionLockKept DEF DropAfterFailure, UnderLock
<1> QED
  BY <1>1, <1>2, EmptyCacheMoves DEF DropAfterFailure, RunPc

\* A connection is opened: the cache is empty, so no other one is of use.
LEMMA ConnectStep ==
    ASSUME CacheInv, TypeOK, NEW s \in Sessions, Connect(s), UNCHANGED addr PROVE CacheInv'
<1>1. CacheTypes /\ run[s].pc = "connect" /\ cache = 0 /\ UNCHANGED cache
  BY DEF CacheInv, CacheEmpty, Connect
<1>2. ASSUME Set(s, "end"), slock' = None, UNCHANGED conns
      PROVE  CacheInv'
  <2>1. RunBecomes(s, "end", run[s].conn, run[s].ip)
    BY <1>1, <1>2, SetEffect DEF RunPc
  <2>2. SessionLockRule' /\ slock' \in Sessions \cup {None}
    BY <1>1, <1>2, <2>1, SessionLockKept DEF UnderLock
  <2> QED
    BY <1>1, <1>2, <2>1, <2>2, RunMoves DEF RunPc, Connected
<1>3. ASSUME NEW new \in Conns, conns' = Append(conns, new),
             run' = [run EXCEPT ![s].pc = "handshake", ![s].conn = Len(conns')], UNCHANGED slock
      PROVE  CacheInv'
  <2>1. /\ Len(conns) \in Nat /\ conns' \in Seq(Conns) /\ Len(conns') = Len(conns) + 1
        /\ \A c \in 1..Len(conns) : conns'[c] = conns[c]
    BY <1>1, <1>3 DEF CacheTypes
  <2>2. RunBecomes(s, "handshake", Len(conns'), run[s].ip)
    BY <1>1, <1>3, <2>1 DEF CacheTypes, RunBecomes, Run, RunPc
  <2>3. SessionLockRule' /\ slock' \in Sessions \cup {None}
    BY <1>1, <1>3, <2>2, SessionLockKept DEF UnderLock
  <2>4. CacheTypes'
    <3>1. \A t \in Sessions : run'[t].conn <= Len(conns')
      BY <1>1, <2>1, <2>2 DEF CacheTypes, RunBecomes, Run
    <3>2. cache' \in 0..Len(conns')
      BY <1>1, <2>1
    <3> QED
      BY <1>1, <2>1, <2>2, <2>3, <3>1, <3>2 DEF CacheTypes, RunBecomes
  <2>5. Len(conns') <= Cardinality(Connected')
    <3>1. s \in Connected' \ Connected
      BY <1>1, <2>2 DEF Connected, RunBecomes
    <3>2. Len(conns) <= Cardinality(Connected)
      BY DEF CacheInv
    <3>3. /\ Cardinality(Connected) + 1 <= Cardinality(Connected')
          /\ Cardinality(Connected) \in Nat /\ Cardinality(Connected') \in Nat
      BY <1>1, <2>2, <3>1, ConnectedGrows DEF RunBecomes
    <3> QED
      BY <2>1, <3>2, <3>3
  <2>6. CacheEmpty'
    BY <1>1 DEF CacheEmpty
  <2>7. \A c : Opening(c) => Opening(c)'
    BY <1>1, <2>2 DEF Opening, RunBecomes
  <2>8. \A c : c = Len(conns) + 1 => Opening(c)'
    BY <2>1, <2>2 DEF Opening, RunBecomes
  <2>9. \A c \in 1..Len(conns) : Useful(c)' => c = cache \/ Opening(c)
    BY <2>1 DEF CacheInv, Tracked, Useful
  <2>10. Tracked'
    BY <1>1, <2>1, <2>7, <2>8, <2>9 DEF Tracked
  <2> QED
    BY <2>3, <2>4, <2>5, <2>6, <2>10 DEF CacheInv
<1>4. [inst |-> ctr.inst, addr |-> addr, st |-> "open", refused |-> FALSE] \in Conns
  BY <1>1, TypeParts DEF CacheTypes, Conns, Types, Containers
<1> QED
  BY <1>1, <1>2, <1>3, <1>4 DEF Connect

\* A connection that is taken over by the cache, or given up, was the one being
\* opened: another run on its way would hold the lock as well.
LEMMA HandshakeStep ==
    ASSUME CacheInv, NEW s \in Sessions, Handshake(s), UNCHANGED addr PROVE CacheInv'
<1>0. PICK c : c = run[s].conn
  OBVIOUS
<1>1. CacheTypes /\ run[s].pc = "handshake" /\ cache = 0 /\ slock' = None
  BY DEF CacheInv, CacheEmpty, Handshake
<1>2. PICK pc \in {"turn", "end"} : Set(s, pc)
  BY DEF Handshake
<1>3. RunBecomes(s, pc, c, run[s].ip)
  BY <1>0, <1>1, <1>2, SetEffect DEF RunPc
<1>4. SessionLockRule' /\ slock' \in Sessions \cup {None}
  BY <1>1, <1>3, SessionLockKept DEF UnderLock
<1>5. \A t \in Sessions : run[t].pc \in {"connect", "handshake"} => t = s
  BY <1>1 DEF CacheInv, SessionLockRule, UnderLock
<1>6. c \in Nat /\ c <= Len(conns) /\ Len(conns) \in Nat
  BY <1>0, <1>1 DEF CacheTypes, Run
<1>7. /\ Fewer /\ cache' \in {0, c}
      /\ \A d \in 1..Len(conns) : Useful(d)' => d # c \/ d = cache'
  <2>1. CASE Alive(c) /\ cache' = c /\ UNCHANGED conns
    BY <1>1, <2>1 DEF CacheTypes, Fewer, Useful
  <2>2. CASE ~Alive(c) /\ UNCHANGED <<conns, cache>>
    BY <1>1, <1>6, <2>2 DEF CacheTypes, Fewer, Useful, Alive
  <2>3. CASE Alive(c) /\ conns' = [conns EXCEPT ![c].refused = TRUE] /\ UNCHANGED cache
    <3>1. c \in 1..Len(conns)
      BY <1>6, <2>3 DEF Alive
    <3>2. Fewer /\ ~Useful(c)'
      BY <1>1, <2>3, <3>1, RefuseEffect
    <3> QED
      BY <1>1, <2>3, <3>2
  <2> QED
    BY <1>0, <2>1, <2>2, <2>3 DEF Handshake
<1>8. CacheTypes'
  <2>1. cache' \in 0..Len(conns')
    BY <1>6, <1>7 DEF Fewer
  <2>2. \A t \in Sessions : run'[t].conn <= Len(conns')
    BY <1>1, <1>3, <1>6, <1>7 DEF CacheTypes, RunBecomes, Fewer
  <2> QED
    BY <1>1, <1>3, <1>4, <1>7, <2>1, <2>2 DEF CacheTypes, RunBecomes, Fewer
<1>9. Len(conns') <= Cardinality(Connected')
  <2>1. s \in Connected => s \in Connected'
    BY <1>3 DEF Connected, RunBecomes
  <2>2. Len(conns') = Len(conns) /\ Len(conns) <= Cardinality(Connected)
    BY <1>7 DEF CacheInv, Fewer
  <2>3. /\ Cardinality(Connected) <= Cardinality(Connected')
        /\ Cardinality(Connected) \in Nat /\ Cardinality(Connected') \in Nat
    BY <1>1, <1>3, <2>1, ConnectedGrows DEF RunBecomes
  <2> QED
    BY <1>6, <2>2, <2>3
<1>10. CacheEmpty'
  BY <1>3, <1>5 DEF CacheEmpty, RunBecomes
<1>11. Tracked'
  <2> SUFFICES ASSUME NEW d \in 1..Len(conns), Useful(d)' PROVE d = cache'
    BY <1>7 DEF Tracked, Fewer
  <2>1. Useful(d) /\ d \in 1..Len(conns) /\ d # 0
    BY <1>6, <1>7 DEF Fewer
  <2>2. Opening(d)
    BY <1>1, <2>1 DEF CacheInv, Tracked
  <2>3. d = c
    BY <1>0, <1>5, <2>2 DEF Opening
  <2> QED
    BY <1>7, <2>3
<1> QED
  BY <1>4, <1>8, <1>9, <1>10, <1>11 DEF CacheInv

\* The cache is emptied, a connection is lost, or the runtime moves: no run does.
LEMMA RunsRest ==
    ASSUME CacheInv, Fewer, cache' = 0 \/ cache' = cache,
           \A c \in 1..Len(conns) : Useful(c)' => c # cache \/ cache' = cache,
           addr' \in Addresses, UNCHANGED <<slock, run>>
    PROVE  CacheInv'
<1>1. CacheTypes'
  BY DEF CacheInv, CacheTypes, Fewer
<1>2. Len(conns') <= Cardinality(Connected')
  BY DEF CacheInv, Fewer, Connected
<1>3. CacheEmpty' /\ SessionLockRule'
  BY DEF CacheInv, CacheEmpty, SessionLockRule
<1>4. \A c : Opening(c) => Opening(c)'
  BY DEF Opening
<1>5. Tracked'
  BY <1>4 DEF CacheInv, Tracked, Fewer
<1> QED
  BY <1>1, <1>2, <1>3, <1>5 DEF CacheInv

\* A step that leaves the connections alone.
LEMMA NothingLost ==
    ASSUME CacheInv, UNCHANGED conns PROVE Fewer
BY DEF CacheInv, CacheTypes, Fewer, Useful

\* Every step.
LEMMA CacheStep ==
    ASSUME RuntimeInv, CacheInv, [CacheNext]_vars
    PROVE  CacheInv'
<1>0. addr \in Addresses /\ TypeOK
  BY DEF CacheInv, CacheTypes, RuntimeInv
<1>1. CASE UNCHANGED <<addr, cachevars>>
  BY <1>0, <1>1, NothingLost, RunsRest DEF cachevars
<1>2. ASSUME NEW s \in Sessions, RunSteps(s), UNCHANGED addr PROVE CacheInv'
  BY <1>0, <1>2, BeginStep, TakeSessionLockStep, ResolveStep, CheckCachedStep, ConnectStep,
     HandshakeStep, EndTurnStep, DropAfterFailureStep DEF RunSteps
<1>3. ASSUME NEW c \in DOMAIN conns, LoseConnection(c), UNCHANGED addr PROVE CacheInv'
  <2>1. CacheTypes /\ c \in 1..Len(conns)
    BY DEF CacheInv, CacheTypes
  <2>2. Fewer /\ UNCHANGED <<cache, slock, run>>
    BY <1>3, <2>1, CloseEffect DEF LoseConnection
  <2> QED
    BY <1>0, <1>3, <2>2, RunsRest
<1>4. CASE CacheSteps
  BY <1>2, <1>3, <1>4 DEF CacheSteps
<1>5. CASE Runtime
  <2>1. addr' \in Addresses
    BY <1>0, <1>5 DEF Runtime
  <2>2. CASE DropCached /\ UNCHANGED <<slock, run>>
    <3>1. cache' = 0 /\ Fewer /\ \A c \in 1..Len(conns) : Useful(c)' => c # cache
      BY <2>2, DropEffect DEF CacheInv
    <3> QED
      BY <2>1, <2>2, <3>1, RunsRest
  <2>3. CASE UNCHANGED cachevars
    BY <2>1, <2>3, NothingLost, RunsRest DEF cachevars
  <2> QED
    BY <1>5, <2>2, <2>3 DEF Runtime
<1> QED
  BY <1>1, <1>4, <1>5 DEF CacheNext, SessionEnds, vars

\* No connection.
LEMMA CacheStart == CacheInit => CacheInv
<1> SUFFICES ASSUME CacheInit PROVE CacheInv
  OBVIOUS
<1>1. run \in [Sessions -> Run] /\ \A s \in Sessions : run[s].pc = "none" /\ run[s].conn = 0
  BY DEF CacheInit, Run, RunPc
<1>2. conns \in Seq(Conns) /\ Len(conns) = 0
  BY DEF CacheInit
<1>3. CacheTypes
  BY <1>1, <1>2 DEF CacheInit, CacheTypes
<1>4. Connected = {} /\ Cardinality(Connected) = 0
  BY <1>1, FS_EmptySet DEF Connected
<1> QED
  BY <1>1, <1>2, <1>3, <1>4 DEF CacheInv, SessionLockRule, CacheEmpty, Tracked, UnderLock

-----------------------------------------------------------------------------
\* The invariants of the runtime and of the cache, the latter on top of the former.
THEOREM CacheInvHolds == CacheSpec => [](RuntimeInv /\ CacheInv)
<1>1. CacheInit => RuntimeInv /\ CacheInv
  BY RuntimeInit, CacheStart DEF CacheInit
<1>2. RuntimeInv /\ CacheInv /\ [CacheNext]_vars => (RuntimeInv /\ CacheInv)'
  BY CacheIsRuntime, RuntimeStep, CacheStep
<1> QED
  BY <1>1, <1>2, PTL DEF CacheSpec

\* The variables of the runtime and of the cache keep their types, and no more
\* connections are opened than there are prompts.
THEOREM CacheTypeOKHolds == CacheSpec => []CacheTypeOK
<1>1. RuntimeInv /\ CacheInv => CacheTypeOK
  <2> SUFFICES ASSUME RuntimeInv, CacheInv PROVE CacheTypeOK
    OBVIOUS
  <2>1. CacheTypes /\ Len(conns) \in Nat
    BY DEF CacheInv, CacheTypes
  <2>2. Len(conns) <= Cardinality(Sessions)
    <3>1. IsFiniteSet(Connected) /\ Cardinality(Connected) <= Cardinality(Sessions)
      BY CacheAssumption, FS_Subset DEF Connected
    <3>2. Cardinality(Connected) \in Nat /\ Cardinality(Sessions) \in Nat
      BY <3>1, CacheAssumption, FS_CardinalityType
    <3> QED
      BY <2>1, <3>1, <3>2 DEF CacheInv
  <2>3. run \in [Sessions -> [pc : RunPc, conn : 0..Len(conns), ip : Addresses]]
    BY <2>1 DEF CacheTypes, Run
  <2> QED
    BY <2>1, <2>2, <2>3 DEF RuntimeInv, CacheInv, CacheTypes, SessionLockRule, UnderLock, CacheTypeOK
<1> QED
  BY <1>1, CacheInvHolds, PTL

\* Whatever runs, losses and the scavenger do to the cache, at most one
\* connection is open that a run may use (OneOpenConnection): it is the cached
\* one, or the one that the holder of the session lock is opening.
THEOREM OneOpenConnectionHolds == CacheSpec => []OneOpenConnection
<1> DEFINE open == {c \in DOMAIN conns : Alive(c) /\ ~conns[c].refused}
<1>1. ASSUME CacheInv, NEW c \in open, NEW d \in open PROVE c = d
  <2>1. CacheTypes /\ DOMAIN conns = 1..Len(conns)
    BY <1>1 DEF CacheInv, CacheTypes
  <2>2. c \in 1..Len(conns) /\ d \in 1..Len(conns) /\ Useful(c) /\ Useful(d)
    BY <2>1 DEF Alive, Useful
  <2>3. (c = cache \/ Opening(c)) /\ (d = cache \/ Opening(d))
    BY <1>1, <2>2 DEF CacheInv, Tracked
  <2>4. \A e : Opening(e) => cache = 0
    BY <1>1 DEF CacheInv, CacheEmpty, Opening
  <2>5. Opening(c) /\ Opening(d) => c = d
    BY <1>1 DEF CacheInv, SessionLockRule, UnderLock, Opening
  <2> QED
    BY <2>2, <2>3, <2>4, <2>5
<1>2. CacheInv => OneOpenConnection
  <2> SUFFICES ASSUME CacheInv PROVE Cardinality(open) <= 1
    BY DEF OneOpenConnection
  <2> HIDE DEF open
  <2>1. CASE open = {}
    BY <2>1, FS_EmptySet
  <2>2. CASE open # {}
    <3>1. PICK c \in open : TRUE
      BY <2>2
    <3>2. open = {c}
      BY <1>1, <3>1
    <3> QED
      BY <3>2, FS_Singleton
  <2> QED
    BY <2>1, <2>2
<1> QED
  BY <1>2, CacheInvHolds, PTL

=============================================================================
