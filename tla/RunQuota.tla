------------------------------- MODULE RunQuota -------------------------------
(***************************************************************************)
(* The run concurrency quota: apps/api/.../services/run_quota.py.          *)
(*                                                                         *)
(* Two kinds of Redis sorted set, polaris:runs:global and                  *)
(* polaris:runs:user:<id>, hold session ids scored with an expiry time.    *)
(* A POST /sessions claims a slot in the global set and then one in the    *)
(* set of the user, each with one atomic Lua script; a rejection by the    *)
(* second rolls the first back.  The API (a failed create, an interrupt)   *)
(* and the worker (the orchestrator's finally) both release, each with two *)
(* ZREMs.  Requests of different sessions interleave between any two Redis *)
(* calls, and a request may die between them.                              *)
(***************************************************************************)
EXTENDS Naturals, FiniteSets

CONSTANTS
    Sessions,       \* session ids, one per POST /sessions request
    Users,
    Owner,          \* the user who sends the request of a session
    MaxGlobalRuns,  \* settings.max_global_runs
    MaxUserRuns,    \* settings.max_user_runs
    TTL,            \* settings.run_quota_ttl_seconds
    MaxClock        \* bound: no request starts after MaxClock

ASSUME QuotaAssumption ==
    /\ IsFiniteSet(Sessions)
    /\ Owner \in [Sessions -> Users]
    /\ MaxGlobalRuns \in Nat \ {0}
    /\ MaxUserRuns \in Nat \ {0}
    /\ TTL \in Nat \ {0}
    /\ MaxClock \in Nat

VARIABLES
    clock,       \* time.time()
    globalRuns,  \* ZSET polaris:runs:global: score of a member, 0 for none
    userRuns,    \* ZSETs polaris:runs:user:*: score of s in the set of Owner[s]
    request,     \* where the POST of a session stands
    now,         \* the time.time() its acquire call read first
    release      \* where each releaser of a session stands

vars == <<clock, globalRuns, userRuns, request, now, release>>

RequestState == {"none", "acquire_global", "acquire_user", "rollback",
                 "admitted", "rejected_global", "rejected_user", "died"}
Releasers    == {"api", "worker"}
ReleaseState == {"none", "release_user", "released"}

Members(zset)    == {s \in Sessions : zset[s] # 0}
SessionsOf(u)    == {s \in Sessions : Owner[s] = u}
UserMembers(u)   == Members(userRuns) \cap SessionsOf(u)

\* Mutant: the script gets the new expiry time where it expects the time.
PurgeByExpiry(zset, key, t) ==
    [s \in Sessions |-> IF s \in key /\ zset[s] <= t + TTL THEN 0 ELSE zset[s]]

\* ZREMRANGEBYSCORE key -inf t, for the members of one key.
Purge(zset, key, t) ==
    [s \in Sessions |-> IF s \in key /\ zset[s] <= t THEN 0 ELSE zset[s]]

\* _ACQUIRE_LUA: TRUE when the purged key still has room.
HasRoom(zset, key, t, limit) ==
    Cardinality(Members(Purge(zset, key, t)) \cap key) < limit

\* Mutant: the score is the time of the claim.
ClaimExpired(zset, key, t, s) ==
    [Purge(zset, key, t) EXCEPT ![s] = t]

\* ... in which case ZADD key exp sid.
Claim(zset, key, t, s) ==
    [Purge(zset, key, t) EXCEPT ![s] = t + TTL]

-----------------------------------------------------------------------------
Init ==
    /\ clock = 1
    /\ globalRuns = [s \in Sessions |-> 0]
    /\ userRuns = [s \in Sessions |-> 0]
    /\ request = [s \in Sessions |-> "none"]
    /\ now = [s \in Sessions |-> 0]
    /\ release = [s \in Sessions |-> [r \in Releasers |-> "none"]]

\* acquire_run_slot reads the clock once, before its first Redis call.
BeginAcquire(s) ==
    /\ request[s] = "none"
    /\ clock <= MaxClock
    /\ now' = [now EXCEPT ![s] = clock]
    /\ request' = [request EXCEPT ![s] = "acquire_global"]
    /\ UNCHANGED <<clock, globalRuns, userRuns, release>>

\* The first eval.  The script purges before it counts, also when it rejects.
AcquireGlobal(s) ==
    /\ request[s] = "acquire_global"
    /\ IF HasRoom(globalRuns, Sessions, now[s], MaxGlobalRuns)
       THEN /\ globalRuns' = Claim(globalRuns, Sessions, now[s], s)
            /\ request' = [request EXCEPT ![s] = "acquire_user"]
       ELSE /\ globalRuns' = Purge(globalRuns, Sessions, now[s])
            /\ request' = [request EXCEPT ![s] = "rejected_global"]
    /\ UNCHANGED <<clock, userRuns, now, release>>

\* Mutant: the user's set is held to the global limit.
AcquireUserGlobalLimit(s) ==
    LET key == SessionsOf(Owner[s]) IN
    /\ request[s] = "acquire_user"
    /\ IF HasRoom(userRuns, key, now[s], MaxGlobalRuns)
       THEN /\ userRuns' = Claim(userRuns, key, now[s], s)
            /\ request' = [request EXCEPT ![s] = "admitted"]
       ELSE /\ userRuns' = Purge(userRuns, key, now[s])
            /\ request' = [request EXCEPT ![s] = "rollback"]
    /\ UNCHANGED <<clock, globalRuns, now, release>>

\* The second eval, on the key of the user, with the same `now`.
AcquireUser(s) ==
    LET key == SessionsOf(Owner[s]) IN
    /\ request[s] = "acquire_user"
    /\ IF HasRoom(userRuns, key, now[s], MaxUserRuns)
       THEN /\ userRuns' = Claim(userRuns, key, now[s], s)
            /\ request' = [request EXCEPT ![s] = "admitted"]
       ELSE /\ userRuns' = Purge(userRuns, key, now[s])
            /\ request' = [request EXCEPT ![s] = "rollback"]
    /\ UNCHANGED <<clock, globalRuns, now, release>>

\* The ZREM of the global slot after a rejection by the user's key.
Rollback(s) ==
    /\ request[s] = "rollback"
    /\ globalRuns' = [globalRuns EXCEPT ![s] = 0]
    /\ request' = [request EXCEPT ![s] = "rejected_user"]
    /\ UNCHANGED <<clock, userRuns, now, release>>

\* A Redis error or the death of the process between the calls: create_session
\* releases only what fails after acquire_run_slot has returned.
AcquireDies(s) ==
    /\ request[s] \in {"acquire_user", "rollback"}
    /\ request' = [request EXCEPT ![s] = "died"]
    /\ UNCHANGED <<clock, globalRuns, userRuns, now, release>>

\* release_run_slot, first ZREM.  The API calls it when the create fails or the
\* session is interrupted, the worker when the orchestrator returns.
ReleaseGlobal(s, r) ==
    /\ request[s] = "admitted"
    /\ release[s][r] = "none"
    /\ globalRuns' = [globalRuns EXCEPT ![s] = 0]
    /\ release' = [release EXCEPT ![s][r] = "release_user"]
    /\ UNCHANGED <<clock, userRuns, request, now>>

\* release_run_slot, second ZREM.
ReleaseUser(s, r) ==
    /\ release[s][r] = "release_user"
    /\ userRuns' = [userRuns EXCEPT ![s] = 0]
    /\ release' = [release EXCEPT ![s][r] = "released"]
    /\ UNCHANGED <<clock, globalRuns, request, now>>

\* A session that is claiming or holds its slots and that no one has begun to
\* release: what the quota exists to count.
InFlight(s) ==
    /\ request[s] \in {"acquire_global", "acquire_user", "admitted"}
    /\ \A r \in Releasers : release[s][r] = "none"

\* Time passes.  A session may last longer than the TTL: the default is 1800 s, and
\* a single turn may take 7200 s.
Tick ==
    /\ clock <= MaxClock + TTL
    /\ clock' = clock + 1
    /\ UNCHANGED <<globalRuns, userRuns, request, now, release>>

Next ==
    \/ \E s \in Sessions :
          \/ BeginAcquire(s) \/ AcquireGlobal(s) \/ AcquireUser(s)
          \/ Rollback(s) \/ AcquireDies(s)
          \/ \E r \in Releasers : ReleaseGlobal(s, r) \/ ReleaseUser(s, r)
    \/ Tick

Spec == Init /\ [][Next]_vars

-----------------------------------------------------------------------------
TypeOK ==
    /\ clock \in Nat
    /\ globalRuns \in [Sessions -> Nat]
    /\ userRuns \in [Sessions -> Nat]
    /\ request \in [Sessions -> RequestState]
    /\ now \in [Sessions -> Nat]
    /\ release \in [Sessions -> [Releasers -> ReleaseState]]

\* However the requests interleave and die, neither sorted set ever has more
\* members than its limit ("two concurrent requests can't both squeeze past
\* the cap", run_quota.py).
SlotCap ==
    /\ Cardinality(Members(globalRuns)) <= MaxGlobalRuns
    /\ \A u \in Users : Cardinality(UserMembers(u)) <= MaxUserRuns

\* A rejected request has left nothing in either set, whatever ran between its
\* claim and its rollback ("a failed call leaves nothing behind").
RejectionLeavesNothing ==
    \A s \in Sessions :
        request[s] \in {"rejected_global", "rejected_user"} =>
            globalRuns[s] = 0 /\ userRuns[s] = 0

\* A session that someone released completely is in neither set: the releases
\* of the API and of the worker may interleave in any way, and nothing claims
\* the slots again.
ReleaseIsFinal ==
    \A s \in Sessions :
        (\E r \in Releasers : release[s][r] = "released") =>
            globalRuns[s] = 0 /\ userRuns[s] = 0

\* A session in flight keeps the slots it claimed until its expiry time: no
\* other request purges it earlier, whatever `now` that request carries.
NoEarlyEviction ==
    \A s \in Sessions :
        InFlight(s) /\ clock < now[s] + TTL =>
            /\ request[s] # "acquire_global" => globalRuns[s] = now[s] + TTL
            /\ request[s] = "admitted" => userRuns[s] = now[s] + TTL

\* An entry whose time is over never turns a request away, whoever left it: the
\* TTL gives back the slot of a crashed worker or of a request that died.
ExpiredNeverRejects ==
    [][\A s \in Sessions :
        LET live(zset, key) == {t \in key : zset[t] > now[s]} IN
        /\ (request[s] # "rejected_global" /\ request'[s] = "rejected_global") =>
              Cardinality(live(globalRuns, Sessions)) >= MaxGlobalRuns
        /\ (request[s] # "rollback" /\ request'[s] = "rollback") =>
              Cardinality(live(userRuns, SessionsOf(Owner[s]))) >= MaxUserRuns]_vars

\* Of the sessions in flight that are younger than the TTL there are never more than
\* the limits allow, whoever is purged, rolled back or dies meanwhile.
Admitted == {s \in Sessions : request[s] = "admitted" /\ InFlight(s)}
Fresh    == {s \in Admitted : clock < now[s] + TTL}

FreshWithinCap ==
    /\ Cardinality(Fresh) <= MaxGlobalRuns
    /\ \A u \in Users : Cardinality(Fresh \cap SessionsOf(u)) <= MaxUserRuns

\* The same of all that are in flight, however old: "TTL should comfortably exceed the
\* worst-case session wall-clock" (config.py).
InFlightWithinCap ==
    /\ Cardinality(Admitted) <= MaxGlobalRuns
    /\ \A u \in Users :
          Cardinality(Admitted \cap SessionsOf(u)) <= MaxUserRuns

\* What an atomic acquisition of both slots would give: no request is turned away
\* by the global limit because of a request that the limit of its own user has
\* already turned away.
GlobalRejectionIsJustified ==
    [][\A s \in Sessions :
        (request[s] # "rejected_global" /\ request'[s] = "rejected_global") =>
            Cardinality({t \in Sessions : /\ request[t] # "rollback"
                                          /\ globalRuns[t] > now[s]})
                >= MaxGlobalRuns]_vars

\* The two sorted sets together keep the ledger of the quota: a session holds a
\* slot when it is in both.  Requests that interleave between the two scripts,
\* die there, or purge each other's entries never admit one session too many.
Ledger == INSTANCE QuotaLedger
          WITH holders <- Members(globalRuns) \cap Members(userRuns)

KeepsLedger == Ledger!Spec

=============================================================================
