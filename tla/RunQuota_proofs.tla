--------------------------- MODULE RunQuota_proofs ---------------------------
(***************************************************************************)
(* What holds of RunQuota for every number of sessions and users, every    *)
(* owner and every limit, proved by induction over its steps.              *)
(***************************************************************************)
EXTENDS RunQuota, FiniteSetTheorems, TLAPS

\* Whatever is purged or cleared, a smaller set of members is a finite set with
\* no more elements.
LEMMA FewerMembers ==
    ASSUME NEW A \in SUBSET Sessions, NEW B \in SUBSET Sessions, A \subseteq B
    PROVE  /\ Cardinality(A) \in Nat
           /\ Cardinality(A) <= Cardinality(B)
<1>1. IsFiniteSet(A) /\ IsFiniteSet(B)
  BY FS_Subset, QuotaAssumption
<1> QED
  BY <1>1, FS_Subset, FS_CardinalityType

\* The purge of one key keeps the type of the sorted set and adds no member.
LEMMA PurgeRemoves ==
    ASSUME NEW zset \in [Sessions -> Nat], NEW key, NEW t \in Nat
    PROVE  /\ Purge(zset, key, t) \in [Sessions -> Nat]
           /\ Members(Purge(zset, key, t)) \subseteq Members(zset)
BY DEF Purge, Members

\* A successful script leaves its key within the limit, and the members outside
\* the key as they were.
LEMMA ClaimKeepsLimit ==
    ASSUME NEW zset \in [Sessions -> Nat], NEW key \in SUBSET Sessions,
           NEW t \in Nat, NEW limit \in Nat, NEW s \in key,
           HasRoom(zset, key, t, limit)
    PROVE  /\ Claim(zset, key, t, s) \in [Sessions -> Nat]
           /\ Cardinality(Members(Claim(zset, key, t, s)) \cap key) <= limit
           /\ Members(Claim(zset, key, t, s)) \subseteq Members(zset) \cup {s}
<1> DEFINE Before == Members(Purge(zset, key, t)) \cap key
           After  == Members(Claim(zset, key, t, s)) \cap key
<1>1. Purge(zset, key, t) \in [Sessions -> Nat]
  BY PurgeRemoves
<1>2. Claim(zset, key, t, s) \in [Sessions -> Nat]
  BY <1>1, QuotaAssumption DEF Claim
<1>3. After \subseteq Before \cup {s}
  BY <1>1 DEF Claim, Members
<1>4. IsFiniteSet(Before) /\ Cardinality(Before) \in Nat
  BY FS_Subset, FS_CardinalityType, QuotaAssumption DEF Members
<1>5. /\ IsFiniteSet(Before \cup {s})
      /\ Cardinality(Before \cup {s}) \in Nat
      /\ Cardinality(Before \cup {s}) <= Cardinality(Before) + 1
  <2> HIDE DEF Before
  <2>1. /\ IsFiniteSet(Before \cup {s})
        /\ Cardinality(Before \cup {s}) =
             IF s \in Before THEN Cardinality(Before) ELSE Cardinality(Before) + 1
    BY <1>4, FS_AddElement
  <2> QED
    BY <1>4, <2>1
<1>6. Cardinality(After) <= Cardinality(Before \cup {s}) /\ Cardinality(After) \in Nat
  BY <1>3, FewerMembers DEF Members
<1>7. Cardinality(Before) < limit
  BY DEF HasRoom
<1>8. Members(Claim(zset, key, t, s)) \subseteq Members(zset) \cup {s}
  BY <1>1, PurgeRemoves DEF Claim, Members
<1> QED
  BY <1>2, <1>4, <1>5, <1>6, <1>7, <1>8

\* Type correctness of the quota.
THEOREM TypeCorrect == Spec => []TypeOK
<1>1. Init => TypeOK
  BY QuotaAssumption DEF Init, TypeOK, RequestState, ReleaseState
<1>2. TypeOK /\ [Next]_vars => TypeOK'
  <2> SUFFICES ASSUME TypeOK, [Next]_vars PROVE TypeOK'
    OBVIOUS
  <2> USE DEF TypeOK, RequestState, ReleaseState
  <2>1. ASSUME NEW s \in Sessions, BeginAcquire(s) PROVE TypeOK'
    BY <2>1 DEF BeginAcquire
  <2>2. ASSUME NEW s \in Sessions, AcquireGlobal(s) PROVE TypeOK'
    <3>1. Purge(globalRuns, Sessions, now[s]) \in [Sessions -> Nat]
      BY PurgeRemoves
    <3>2. Claim(globalRuns, Sessions, now[s], s) \in [Sessions -> Nat]
      BY <3>1, QuotaAssumption DEF Claim
    <3> QED
      BY <2>2, <3>1, <3>2 DEF AcquireGlobal
  <2>3. ASSUME NEW s \in Sessions, AcquireUser(s) PROVE TypeOK'
    <3> DEFINE key == SessionsOf(Owner[s])
    <3>1. Purge(userRuns, key, now[s]) \in [Sessions -> Nat]
      BY PurgeRemoves
    <3>2. Claim(userRuns, key, now[s], s) \in [Sessions -> Nat]
      BY <3>1, QuotaAssumption DEF Claim
    <3> QED
      BY <2>3, <3>1, <3>2 DEF AcquireUser
  <2>4. ASSUME NEW s \in Sessions, Rollback(s) PROVE TypeOK'
    BY <2>4 DEF Rollback
  <2>5. ASSUME NEW s \in Sessions, AcquireDies(s) PROVE TypeOK'
    BY <2>5 DEF AcquireDies
  <2>6. ASSUME NEW s \in Sessions, NEW r \in Releasers, ReleaseGlobal(s, r)
        PROVE  TypeOK'
    BY <2>6 DEF ReleaseGlobal
  <2>7. ASSUME NEW s \in Sessions, NEW r \in Releasers, ReleaseUser(s, r)
        PROVE  TypeOK'
    BY <2>7 DEF ReleaseUser
  <2>8. CASE Tick
    BY <2>8 DEF Tick
  <2>9. CASE UNCHANGED vars
    BY <2>9 DEF vars
  <2> QED
    BY <2>1, <2>2, <2>3, <2>4, <2>5, <2>6, <2>7, <2>8, <2>9 DEF Next
<1> QED
  BY <1>1, <1>2, PTL DEF Spec

\* A step that adds no member to the global set or to the set of any user keeps
\* both limits.
LEMMA ShrinkKeepsCap ==
    ASSUME TypeOK, TypeOK', SlotCap,
           Members(globalRuns') \subseteq Members(globalRuns),
           Members(userRuns') \subseteq Members(userRuns)
    PROVE  SlotCap'
<1>1. Cardinality(Members(globalRuns')) <= MaxGlobalRuns
  <2>1. Members(globalRuns) \in SUBSET Sessions /\ Members(globalRuns') \in SUBSET Sessions
    BY DEF Members
  <2>2. /\ Cardinality(Members(globalRuns')) \in Nat
        /\ Cardinality(Members(globalRuns)) \in Nat
        /\ Cardinality(Members(globalRuns')) <= Cardinality(Members(globalRuns))
    BY <2>1, FewerMembers
  <2> QED
    BY <2>2, QuotaAssumption DEF SlotCap
<1>2. ASSUME NEW u \in Users
      PROVE  Cardinality(UserMembers(u)') <= MaxUserRuns
  <2>1. UserMembers(u) \in SUBSET Sessions /\ UserMembers(u)' \in SUBSET Sessions
    BY DEF UserMembers, Members
  <2>2. UserMembers(u)' \subseteq UserMembers(u)
    BY DEF UserMembers, SessionsOf
  <2>3. /\ Cardinality(UserMembers(u)') \in Nat
        /\ Cardinality(UserMembers(u)) \in Nat
        /\ Cardinality(UserMembers(u)') <= Cardinality(UserMembers(u))
    BY <2>1, <2>2, FewerMembers
  <2> QED
    BY <2>3, QuotaAssumption DEF SlotCap
<1> QED
  BY <1>1, <1>2 DEF SlotCap

\* Neither sorted set ever exceeds its limit.
THEOREM SlotCapHolds == Spec => []SlotCap
<1>1. Init => SlotCap
  <2> SUFFICES ASSUME Init PROVE SlotCap
    OBVIOUS
  <2>1. Members(globalRuns) = {} /\ \A u \in Users : UserMembers(u) = {}
    BY DEF Init, Members, UserMembers
  <2> QED
    BY <2>1, FS_EmptySet, QuotaAssumption DEF SlotCap
<1>2. TypeOK /\ TypeOK' /\ SlotCap /\ [Next]_vars => SlotCap'
  <2> SUFFICES ASSUME TypeOK, TypeOK', SlotCap, [Next]_vars PROVE SlotCap'
    OBVIOUS
  <2>1. ASSUME NEW s \in Sessions, BeginAcquire(s) PROVE SlotCap'
    BY <2>1, ShrinkKeepsCap DEF BeginAcquire
  <2>2. ASSUME NEW s \in Sessions, AcquireGlobal(s) PROVE SlotCap'
    <3>1. now[s] \in Nat /\ MaxGlobalRuns \in Nat /\ globalRuns \in [Sessions -> Nat]
      BY QuotaAssumption DEF TypeOK
    <3>2. CASE HasRoom(globalRuns, Sessions, now[s], MaxGlobalRuns)
      <4>1. globalRuns' = Claim(globalRuns, Sessions, now[s], s) /\ userRuns' = userRuns
        BY <2>2, <3>2 DEF AcquireGlobal
      <4>2. Cardinality(Members(globalRuns') \cap Sessions) <= MaxGlobalRuns
        BY <3>1, <3>2, <4>1, ClaimKeepsLimit
      <4>3. Members(globalRuns') \cap Sessions = Members(globalRuns')
        BY DEF Members
      <4> QED
        BY <4>1, <4>2, <4>3 DEF SlotCap, UserMembers, SessionsOf
    <3>3. CASE ~HasRoom(globalRuns, Sessions, now[s], MaxGlobalRuns)
      <4>1. globalRuns' = Purge(globalRuns, Sessions, now[s]) /\ userRuns' = userRuns
        BY <2>2, <3>3 DEF AcquireGlobal
      <4> QED
        BY <3>1, <4>1, PurgeRemoves, ShrinkKeepsCap
    <3> QED
      BY <3>2, <3>3
  <2>3. ASSUME NEW s \in Sessions, AcquireUser(s) PROVE SlotCap'
    <3> DEFINE key == SessionsOf(Owner[s])
    <3>1. /\ now[s] \in Nat /\ MaxUserRuns \in Nat /\ userRuns \in [Sessions -> Nat]
          /\ key \in SUBSET Sessions /\ s \in key
      BY QuotaAssumption DEF TypeOK, SessionsOf
    <3>2. CASE HasRoom(userRuns, key, now[s], MaxUserRuns)
      <4>1. userRuns' = Claim(userRuns, key, now[s], s) /\ globalRuns' = globalRuns
        BY <2>3, <3>2 DEF AcquireUser
      <4>2. /\ Cardinality(Members(userRuns') \cap key) <= MaxUserRuns
            /\ Members(userRuns') \subseteq Members(userRuns) \cup {s}
        BY <3>1, <3>2, <4>1, ClaimKeepsLimit
      <4>3. ASSUME NEW u \in Users
            PROVE  Cardinality(UserMembers(u)') <= MaxUserRuns
        <5>1. CASE u = Owner[s]
          BY <4>2, <5>1 DEF UserMembers, SessionsOf
        <5>2. CASE u # Owner[s]
          <6>1. UserMembers(u)' \subseteq UserMembers(u)
            BY <4>2, <5>2 DEF UserMembers, SessionsOf
          <6>2. UserMembers(u) \in SUBSET Sessions /\ UserMembers(u)' \in SUBSET Sessions
            BY DEF UserMembers, Members
          <6>3. /\ Cardinality(UserMembers(u)') \in Nat
                /\ Cardinality(UserMembers(u)) \in Nat
                /\ Cardinality(UserMembers(u)') <= Cardinality(UserMembers(u))
            BY <6>1, <6>2, FewerMembers
          <6> QED
            BY <6>3, <3>1 DEF SlotCap
        <5> QED
          BY <5>1, <5>2
      <4>4. Members(globalRuns') = Members(globalRuns)
        BY <4>1
      <4> QED
        BY <4>3, <4>4 DEF SlotCap
    <3>3. CASE ~HasRoom(userRuns, key, now[s], MaxUserRuns)
      <4>1. userRuns' = Purge(userRuns, key, now[s]) /\ globalRuns' = globalRuns
        BY <2>3, <3>3 DEF AcquireUser
      <4> QED
        BY <3>1, <4>1, PurgeRemoves, ShrinkKeepsCap
    <3> QED
      BY <3>2, <3>3
  <2>4. ASSUME NEW s \in Sessions, Rollback(s) PROVE SlotCap'
    <3>1. Members(globalRuns') \subseteq Members(globalRuns) /\ userRuns' = userRuns
      BY <2>4 DEF Rollback, Members, TypeOK
    <3> QED
      BY <3>1, ShrinkKeepsCap
  <2>5. ASSUME NEW s \in Sessions, AcquireDies(s) PROVE SlotCap'
    BY <2>5, ShrinkKeepsCap DEF AcquireDies
  <2>6. ASSUME NEW s \in Sessions, NEW r \in Releasers, ReleaseGlobal(s, r)
        PROVE  SlotCap'
    <3>1. Members(globalRuns') \subseteq Members(globalRuns) /\ userRuns' = userRuns
      BY <2>6 DEF ReleaseGlobal, Members, TypeOK
    <3> QED
      BY <3>1, ShrinkKeepsCap
  <2>7. ASSUME NEW s \in Sessions, NEW r \in Releasers, ReleaseUser(s, r)
        PROVE  SlotCap'
    <3>1. Members(userRuns') \subseteq Members(userRuns) /\ globalRuns' = globalRuns
      BY <2>7 DEF ReleaseUser, Members, TypeOK
    <3> QED
      BY <3>1, ShrinkKeepsCap
  <2>8. CASE Tick
    BY <2>8, ShrinkKeepsCap DEF Tick
  <2>9. CASE UNCHANGED vars
    BY <2>9, ShrinkKeepsCap DEF vars
  <2> QED
    BY <2>1, <2>2, <2>3, <2>4, <2>5, <2>6, <2>7, <2>8, <2>9 DEF Next
<1> QED
  BY <1>1, <1>2, TypeCorrect, PTL DEF Spec

-----------------------------------------------------------------------------
\* Where the slots of a session are at each point of its life: nowhere before
\* the first script and after a rejection, in the global set only between the
\* scripts, in both from the admission to the first release or the expiry.
SlotsFollowRequest ==
    \A s \in Sessions :
        /\ request[s] \in {"none", "acquire_global", "rejected_global", "rejected_user"} =>
              globalRuns[s] = 0 /\ userRuns[s] = 0
        /\ request[s] \in {"acquire_user", "rollback", "died"} => userRuns[s] = 0
        /\ \A r \in Releasers :
              /\ release[s][r] # "none" => request[s] = "admitted" /\ globalRuns[s] = 0
              /\ release[s][r] = "released" => userRuns[s] = 0

\* The clock that a request read is past.
OnTime ==
    \A s \in Sessions : request[s] # "none" => now[s] <= clock

\* The strengthening that makes the invariants of the runs inductive.
QuotaInv == SlotsFollowRequest /\ OnTime /\ NoEarlyEviction

\* A purge spares every entry that expires later than its time.
LEMMA PurgeSparesLive ==
    ASSUME NEW zset \in [Sessions -> Nat], NEW key, NEW t \in Nat, NEW s \in Sessions
    PROVE  /\ zset[s] > t => Purge(zset, key, t)[s] = zset[s]
           /\ zset[s] = 0 => Purge(zset, key, t)[s] = 0
BY DEF Purge

\* Every step keeps the strengthening.
LEMMA QuotaInvStep ==
    TypeOK /\ TypeOK' /\ QuotaInv /\ [Next]_vars => QuotaInv'
<1> SUFFICES ASSUME TypeOK, TypeOK', QuotaInv, [Next]_vars PROVE QuotaInv'
  OBVIOUS
<1> USE QuotaAssumption
    DEF TypeOK, QuotaInv, SlotsFollowRequest, OnTime, NoEarlyEviction, InFlight,
        RequestState, ReleaseState, Releasers
<1>1. ASSUME NEW s \in Sessions, BeginAcquire(s) PROVE QuotaInv'
  BY <1>1 DEF BeginAcquire
<1>2. ASSUME NEW s \in Sessions, AcquireGlobal(s) PROVE QuotaInv'
  <2>1. now[s] \in Nat /\ now[s] <= clock
    BY <1>2 DEF AcquireGlobal
  <2>2. CASE HasRoom(globalRuns, Sessions, now[s], MaxGlobalRuns)
    <3>1. /\ globalRuns'[s] = now[s] + TTL
          /\ \A x \in Sessions : x # s /\ globalRuns[x] > now[s] =>
                globalRuns'[x] = globalRuns[x]
          /\ \A x \in Sessions : x # s /\ globalRuns[x] = 0 => globalRuns'[x] = 0
      <4>1. globalRuns' = Claim(globalRuns, Sessions, now[s], s) /\ globalRuns \in [Sessions -> Nat]
        BY <1>2, <2>2 DEF AcquireGlobal
      <4> QED
        BY <2>1, <4>1 DEF Claim, Purge
    <3>2. SlotsFollowRequest'
      BY <1>2, <2>1, <2>2, <3>1 DEF AcquireGlobal
    <3>3. OnTime'
      BY <1>2, <2>1, <2>2 DEF AcquireGlobal
    <3>4. NoEarlyEviction'
      BY <1>2, <2>1, <2>2, <3>1 DEF AcquireGlobal
    <3> QED
      BY <3>2, <3>3, <3>4 DEF QuotaInv
  <2>3. CASE ~HasRoom(globalRuns, Sessions, now[s], MaxGlobalRuns)
    <3>1. \A x \in Sessions :
             /\ globalRuns[x] > now[s] => globalRuns'[x] = globalRuns[x]
             /\ globalRuns[x] = 0 => globalRuns'[x] = 0
      BY <1>2, <2>1, <2>3, PurgeSparesLive DEF AcquireGlobal
    <3> QED
      BY <1>2, <2>1, <2>3, <3>1 DEF AcquireGlobal
  <2> QED
    BY <2>2, <2>3
<1>3. ASSUME NEW s \in Sessions, AcquireUser(s) PROVE QuotaInv'
  <2> DEFINE key == SessionsOf(Owner[s])
  <2>1. now[s] \in Nat /\ now[s] <= clock
    BY <1>3 DEF AcquireUser
  <2>2. CASE HasRoom(userRuns, key, now[s], MaxUserRuns)
    <3>1. /\ userRuns'[s] = now[s] + TTL
          /\ \A x \in Sessions : x # s /\ userRuns[x] > now[s] =>
                userRuns'[x] = userRuns[x]
          /\ \A x \in Sessions : x # s /\ userRuns[x] = 0 => userRuns'[x] = 0
      <4>1. userRuns' = Claim(userRuns, key, now[s], s) /\ userRuns \in [Sessions -> Nat]
        BY <1>3, <2>2 DEF AcquireUser
      <4> QED
        BY <2>1, <4>1 DEF Claim, Purge
    <3>2. SlotsFollowRequest'
      BY <1>3, <2>1, <2>2, <3>1 DEF AcquireUser
    <3>3. OnTime'
      BY <1>3, <2>1, <2>2 DEF AcquireUser
    <3>4. NoEarlyEviction'
      BY <1>3, <2>1, <2>2, <3>1 DEF AcquireUser
    <3> QED
      BY <3>2, <3>3, <3>4 DEF QuotaInv
  <2>3. CASE ~HasRoom(userRuns, key, now[s], MaxUserRuns)
    <3>1. \A x \in Sessions :
             /\ userRuns[x] > now[s] => userRuns'[x] = userRuns[x]
             /\ userRuns[x] = 0 => userRuns'[x] = 0
      BY <1>3, <2>1, <2>3, PurgeSparesLive DEF AcquireUser
    <3> QED
      BY <1>3, <2>1, <2>3, <3>1 DEF AcquireUser
  <2> QED
    BY <2>2, <2>3
<1>4. ASSUME NEW s \in Sessions, Rollback(s) PROVE QuotaInv'
  BY <1>4 DEF Rollback
<1>5. ASSUME NEW s \in Sessions, AcquireDies(s) PROVE QuotaInv'
  BY <1>5 DEF AcquireDies
<1>6. ASSUME NEW s \in Sessions, NEW r \in Releasers, ReleaseGlobal(s, r)
      PROVE  QuotaInv'
  BY <1>6 DEF ReleaseGlobal
<1>7. ASSUME NEW s \in Sessions, NEW r \in Releasers, ReleaseUser(s, r)
      PROVE  QuotaInv'
  BY <1>7 DEF ReleaseUser
<1>8. CASE Tick
  BY <1>8 DEF Tick
<1>9. CASE UNCHANGED vars
  BY <1>9 DEF vars
<1> QED
  BY <1>1, <1>2, <1>3, <1>4, <1>5, <1>6, <1>7, <1>8, <1>9 DEF Next

THEOREM QuotaInvHolds == Spec => []QuotaInv
<1>1. Init => QuotaInv
  BY QuotaAssumption
     DEF Init, QuotaInv, SlotsFollowRequest, OnTime, NoEarlyEviction, InFlight
<1> QED
  BY <1>1, QuotaInvStep, TypeCorrect, PTL DEF Spec

\* A rejected request leaves nothing behind, whatever ran between its calls.
THEOREM RejectionClean == Spec => []RejectionLeavesNothing
<1>1. QuotaInv => RejectionLeavesNothing
  BY DEF QuotaInv, SlotsFollowRequest, RejectionLeavesNothing
<1> QED
  BY <1>1, QuotaInvHolds, PTL

\* A complete release by either side is final, however the two interleave.
THEOREM ReleaseStays == Spec => []ReleaseIsFinal
<1>1. QuotaInv => ReleaseIsFinal
  BY DEF QuotaInv, SlotsFollowRequest, ReleaseIsFinal
<1> QED
  BY <1>1, QuotaInvHolds, PTL

\* A session in flight keeps what it claimed until its expiry time.
THEOREM EvictionIsNeverEarly == Spec => []NoEarlyEviction
<1>1. QuotaInv => NoEarlyEviction
  BY DEF QuotaInv
<1> QED
  BY <1>1, QuotaInvHolds, PTL

\* The two sorted sets do what they are for: of the sessions in flight that the TTL has
\* not overtaken there are never more than the limits allow.
THEOREM FreshCapped == Spec => []FreshWithinCap
<1>1. TypeOK /\ SlotCap /\ QuotaInv => FreshWithinCap
  <2> SUFFICES ASSUME TypeOK, SlotCap, QuotaInv PROVE FreshWithinCap
    OBVIOUS
  <2>1. Fresh \subseteq Members(globalRuns) /\ Fresh \subseteq Members(userRuns)
    BY QuotaAssumption
       DEF TypeOK, QuotaInv, OnTime, NoEarlyEviction, Fresh, Admitted, Members
  <2>2. Cardinality(Fresh) <= MaxGlobalRuns
    <3>1. Members(globalRuns) \in SUBSET Sessions /\ Fresh \in SUBSET Sessions
      BY DEF Members, Fresh, Admitted
    <3>2. /\ Cardinality(Fresh) \in Nat /\ Cardinality(Members(globalRuns)) \in Nat
          /\ Cardinality(Fresh) <= Cardinality(Members(globalRuns))
      BY <2>1, <3>1, FewerMembers
    <3> QED
      BY <3>2, QuotaAssumption DEF SlotCap
  <2>3. ASSUME NEW u \in Users
        PROVE  Cardinality(Fresh \cap SessionsOf(u)) <= MaxUserRuns
    <3> DEFINE mine == Fresh \cap SessionsOf(u)
    <3>1. UserMembers(u) \in SUBSET Sessions /\ mine \in SUBSET Sessions
      BY DEF UserMembers, Members, Fresh, Admitted
    <3>2. mine \subseteq UserMembers(u)
      BY <2>1 DEF UserMembers
    <3>3. /\ Cardinality(mine) \in Nat /\ Cardinality(UserMembers(u)) \in Nat
          /\ Cardinality(mine) <= Cardinality(UserMembers(u))
      BY <3>1, <3>2, FewerMembers
    <3> QED
      BY <3>3, QuotaAssumption DEF SlotCap
  <2> QED
    BY <2>2, <2>3 DEF FreshWithinCap
<1> QED
  BY <1>1, TypeCorrect, SlotCapHolds, QuotaInvHolds, PTL

-----------------------------------------------------------------------------
\* What is left of a key after its purge are the entries that expire later.
LEMMA PurgedIsLive ==
    ASSUME NEW zset \in [Sessions -> Nat], NEW key \in SUBSET Sessions, NEW t \in Nat
    PROVE  Members(Purge(zset, key, t)) \cap key = {x \in key : zset[x] > t}
BY DEF Purge, Members

\* An expired entry never turns a request away: at a rejection the live entries
\* alone fill the key.
THEOREM ExpiredIsFree == Spec => ExpiredNeverRejects
<1> DEFINE live(s, zset, key) == {t \in key : zset[t] > now[s]}
           GlobalFull(s) == Cardinality(live(s, globalRuns, Sessions)) >= MaxGlobalRuns
           UserFull(s) ==
               Cardinality(live(s, userRuns, SessionsOf(Owner[s]))) >= MaxUserRuns
           Justified ==
               \A s \in Sessions :
                  /\ request[s] # "rejected_global" /\ request'[s] = "rejected_global" =>
                        GlobalFull(s)
                  /\ request[s] # "rollback" /\ request'[s] = "rollback" => UserFull(s)
<1>1. TypeOK /\ [Next]_vars => Justified
  <2> SUFFICES ASSUME TypeOK, [Next]_vars, NEW s \in Sessions, request'[s] # request[s]
               PROVE  /\ request'[s] = "rejected_global" => GlobalFull(s)
                      /\ request'[s] = "rollback" => UserFull(s)
    OBVIOUS
  <2>1. /\ now[s] \in Nat /\ MaxGlobalRuns \in Nat /\ MaxUserRuns \in Nat
        /\ globalRuns \in [Sessions -> Nat] /\ userRuns \in [Sessions -> Nat]
        /\ SessionsOf(Owner[s]) \in SUBSET Sessions
    BY QuotaAssumption DEF TypeOK, SessionsOf
  <2>2. /\ request'[s] = "rejected_global" =>
              ~HasRoom(globalRuns, Sessions, now[s], MaxGlobalRuns)
        /\ request'[s] = "rollback" =>
              ~HasRoom(userRuns, SessionsOf(Owner[s]), now[s], MaxUserRuns)
    <3> USE DEF TypeOK
    <3>1. ASSUME NEW t \in Sessions, AcquireGlobal(t)
          PROVE  s = t /\ request'[s] # "rollback"
                 /\ (request'[s] = "rejected_global" =>
                        ~HasRoom(globalRuns, Sessions, now[s], MaxGlobalRuns))
      BY <3>1 DEF AcquireGlobal
    <3>2. ASSUME NEW t \in Sessions, AcquireUser(t)
          PROVE  s = t /\ request'[s] # "rejected_global"
                 /\ (request'[s] = "rollback" =>
                        ~HasRoom(userRuns, SessionsOf(Owner[s]), now[s], MaxUserRuns))
      BY <3>2 DEF AcquireUser
    <3>3. ASSUME NEW t \in Sessions, BeginAcquire(t) \/ Rollback(t) \/ AcquireDies(t)
          PROVE  request'[s] \notin {"rejected_global", "rollback"}
      BY <3>3 DEF BeginAcquire, Rollback, AcquireDies
    <3>4. ASSUME NEW t \in Sessions, NEW r \in Releasers,
                 ReleaseGlobal(t, r) \/ ReleaseUser(t, r)
          PROVE  FALSE
      BY <3>4 DEF ReleaseGlobal, ReleaseUser
    <3> QED
      BY <3>1, <3>2, <3>3, <3>4 DEF Next, Tick, vars
  <2>3. /\ ~HasRoom(globalRuns, Sessions, now[s], MaxGlobalRuns) => GlobalFull(s)
        /\ ~HasRoom(userRuns, SessionsOf(Owner[s]), now[s], MaxUserRuns) => UserFull(s)
    <3>1. /\ IsFiniteSet(live(s, globalRuns, Sessions))
          /\ IsFiniteSet(live(s, userRuns, SessionsOf(Owner[s])))
      BY <2>1, FS_Subset, QuotaAssumption
    <3>2. /\ Cardinality(live(s, globalRuns, Sessions)) \in Nat
          /\ Cardinality(live(s, userRuns, SessionsOf(Owner[s]))) \in Nat
      BY <3>1, FS_CardinalityType
    <3>3. Members(Purge(globalRuns, Sessions, now[s])) \cap Sessions
            = live(s, globalRuns, Sessions)
      BY <2>1, PurgedIsLive
    <3>4. Members(Purge(userRuns, SessionsOf(Owner[s]), now[s])) \cap SessionsOf(Owner[s])
            = live(s, userRuns, SessionsOf(Owner[s]))
      BY <2>1, PurgedIsLive
    <3> QED
      BY <2>1, <3>2, <3>3, <3>4 DEF HasRoom
  <2> QED
    BY <2>2, <2>3
<1>2. TypeOK /\ [Next]_vars => [Justified]_vars
  BY <1>1
<1> QED
  BY <1>2, TypeCorrect, PTL DEF Spec, ExpiredNeverRejects

-----------------------------------------------------------------------------
(* The refinement of the ledger. *)

Holders == Members(globalRuns) \cap Members(userRuns)

\* Only the second script of an acquisition makes a session a holder.
LEMMA HoldersGrowByAcquire ==
    TypeOK /\ QuotaInv /\ [Next]_vars =>
        \/ Holders' \subseteq Holders
        \/ \E s \in Sessions \ Holders : Holders' \subseteq Holders \cup {s}
<1> SUFFICES ASSUME TypeOK, QuotaInv, [Next]_vars
             PROVE  \/ Holders' \subseteq Holders
                    \/ \E s \in Sessions \ Holders : Holders' \subseteq Holders \cup {s}
  OBVIOUS
<1> USE DEF TypeOK, Holders, Members
<1>1. ASSUME NEW s \in Sessions, AcquireGlobal(s) PROVE Holders' \subseteq Holders
  <2>1. userRuns[s] = 0 /\ userRuns' = userRuns
    BY <1>1 DEF AcquireGlobal, QuotaInv, SlotsFollowRequest
  <2>2. \A x \in Sessions \ {s} : globalRuns[x] = 0 => globalRuns'[x] = 0
    BY <1>1 DEF AcquireGlobal, Claim, Purge
  <2> QED
    BY <2>1, <2>2
<1>2. ASSUME NEW s \in Sessions, AcquireUser(s)
      PROVE  s \notin Holders /\ Holders' \subseteq Holders \cup {s}
  <2>1. userRuns[s] = 0 /\ globalRuns' = globalRuns
    BY <1>2 DEF AcquireUser, QuotaInv, SlotsFollowRequest
  <2>2. \A x \in Sessions \ {s} : userRuns[x] = 0 => userRuns'[x] = 0
    BY <1>2 DEF AcquireUser, Claim, Purge
  <2> QED
    BY <2>1, <2>2
<1>3. ASSUME NEW s \in Sessions, BeginAcquire(s) \/ Rollback(s) \/ AcquireDies(s)
      PROVE  Holders' \subseteq Holders
  BY <1>3 DEF BeginAcquire, Rollback, AcquireDies
<1>4. ASSUME NEW s \in Sessions, NEW r \in Releasers,
             ReleaseGlobal(s, r) \/ ReleaseUser(s, r)
      PROVE  Holders' \subseteq Holders
  BY <1>4 DEF ReleaseGlobal, ReleaseUser
<1>5. CASE Tick \/ UNCHANGED vars
  BY <1>5 DEF Tick, vars
<1> QED
  BY <1>1, <1>2, <1>3, <1>4, <1>5 DEF Next

\* The ledger counts as this module does.
LEMMA LedgerCounts == ASSUME NEW S PROVE Ledger!Cardinality(S) = Cardinality(S)
BY DEF Ledger!Cardinality, Cardinality

\* The two keys together implement the ledger, however requests interleave
\* between the scripts, die there, or purge each other's entries.
THEOREM LedgerKept == Spec => KeepsLedger
<1>1. Init => Ledger!Init
  BY DEF Init, Ledger!Init, Members
<1>2. ASSUME Holders' \subseteq Holders
      PROVE  Ledger!Next
  <2> DEFINE gone == Holders \ Holders'
  <2>1. gone \in SUBSET Holders /\ Holders' = Holders \ gone
    BY <1>2
  <2>2. Ledger!GiveBack(gone)
    BY <2>1 DEF Ledger!GiveBack, Holders
  <2> HIDE DEF gone
  <2> QED
    BY <2>1, <2>2 DEF Ledger!Next, Holders
<1>3. ASSUME SlotCap', NEW s \in Sessions, s \notin Holders, s \in Holders',
             Holders' \subseteq Holders \cup {s}
      PROVE  Ledger!Next
  <2> DEFINE gone == Holders \ Holders'
  <2>1. gone \in SUBSET Holders /\ Holders' = (Holders \ gone) \cup {s}
    BY <1>3
  <2>2. Cardinality(Holders') <= MaxGlobalRuns
    <3>1. /\ Holders' \subseteq Members(globalRuns')
          /\ Holders' \in SUBSET Sessions /\ Members(globalRuns') \in SUBSET Sessions
      BY DEF Holders, Members
    <3>2. /\ Cardinality(Holders') \in Nat /\ Cardinality(Members(globalRuns')) \in Nat
          /\ Cardinality(Holders') <= Cardinality(Members(globalRuns'))
      BY <3>1, FewerMembers
    <3> QED
      BY <1>3, <3>2, QuotaAssumption DEF SlotCap
  <2>3. ASSUME NEW u \in Users
        PROVE  Cardinality({x \in Holders' : Owner[x] = u}) <= MaxUserRuns
    <3> DEFINE mine == {x \in Holders' : Owner[x] = u}
    <3>1. /\ mine \subseteq UserMembers(u)'
          /\ mine \in SUBSET Sessions /\ UserMembers(u)' \in SUBSET Sessions
      BY DEF Holders, Members, UserMembers, SessionsOf
    <3>2. /\ Cardinality(mine) \in Nat /\ Cardinality(UserMembers(u)') \in Nat
          /\ Cardinality(mine) <= Cardinality(UserMembers(u)')
      BY <3>1, FewerMembers
    <3> QED
      BY <1>3, <3>2, QuotaAssumption DEF SlotCap
  <2>4. Ledger!Take(s, gone)
    <3> HIDE DEF gone
    <3>1. Ledger!Cardinality(Holders') <= MaxGlobalRuns
      BY <2>2, LedgerCounts
    <3>2. ASSUME NEW u \in Users
          PROVE  Ledger!Cardinality(Ledger!HoldersOf(u)') <= MaxUserRuns
      BY <2>3, LedgerCounts DEF Ledger!HoldersOf, Holders
    <3> QED
      BY <2>1, <3>1, <3>2 DEF Ledger!Take, Holders
  <2> HIDE DEF gone
  <2> QED
    BY <1>3, <2>1, <2>4 DEF Ledger!Next, Holders
<1>4. TypeOK /\ QuotaInv /\ SlotCap' /\ [Next]_vars => [Ledger!Next]_Holders
  BY <1>2, <1>3, HoldersGrowByAcquire
<1> QED
  BY <1>1, <1>4, TypeCorrect, QuotaInvHolds, SlotCapHolds, PTL
     DEF Spec, KeepsLedger, Ledger!Spec, Holders

=============================================================================
