---------------------------- MODULE SessionCache ----------------------------
(***************************************************************************)
(* The worker's cache of Codex connections (agents/codex.py), composed     *)
(* with the runtime whose container they lead to.  One connection is kept  *)
(* per workspace.  A run that needs it resolves the container's address    *)
(* and takes the cached connection if its socket is open and leads to that *)
(* address, under a lock of the workspace; a run that fails, and the idle  *)
(* scavenger, drop whatever is cached without taking that lock.            *)
(***************************************************************************)
EXTENDS WorkspaceRuntime

CONSTANT Addresses  \* addresses docker may give the container

ASSUME CacheAssumption ==
    /\ Addresses # {}
    /\ IsFiniteSet(Sessions) /\ None \notin Sessions

VARIABLES
    addr,       \* address of the workspace container on polaris-shared
    conns,      \* the connections opened so far
    cache,      \* _sessions: index of the cached connection, 0 if none
    slock,      \* holder of the session lock
    run         \* the Codex run of each session

cachevars == <<conns, cache, slock, run>>
vars == <<rtvars, addr, cachevars>>

Conns == [inst : Nat, addr : Addresses, st : {"open", "lost", "closed"}, refused : BOOLEAN]
RunPc == {"none", "lock", "resolve", "check", "connect", "handshake", "turn", "drop", "end"}

CacheInit ==
    /\ Init
    /\ addr \in Addresses
    /\ conns = <<>>
    /\ cache = 0
    /\ slock = None
    /\ run = [s \in Sessions |-> [pc |-> "none", conn |-> 0, ip |-> addr]]

Set(s, pc) == run' = [run EXCEPT ![s].pc = pc]

\* is_alive: the socket is open as far as this end knows.
Alive(c) == c # 0 /\ conns[c].st = "open"

\* The app-server a connection leads to is still there.
Leads(c) == ctr.st = "up" /\ conns[c].inst = ctr.inst

\* Mutant of DropCached: the connection is popped and not closed.
PopCached ==
    /\ cache' = 0
    /\ UNCHANGED conns

\* _drop_session: pop the cached connection, whoever uses it, and close it.
DropCached ==
    /\ cache' = 0
    /\ conns' = IF cache = 0 THEN conns ELSE [conns EXCEPT ![cache].st = "closed"]

-----------------------------------------------------------------------------
(* A run's way to its connection and through its turn.                     *)

BeginRun(s) ==
    /\ run[s].pc = "none"
    /\ sess[s] = "active"
    /\ Set(s, "lock")
    /\ UNCHANGED <<conns, cache, slock>>

TakeSessionLock(s) ==
    /\ run[s].pc = "lock"
    /\ slock = None
    /\ slock' = s
    /\ Set(s, "resolve")
    /\ UNCHANGED <<conns, cache>>

\* Mutant of Resolve: the address is waited for as long as it takes.
ResolvePatiently(s) ==
    /\ run[s].pc = "resolve"
    /\ ctr.st = "up"
    /\ run' = [run EXCEPT ![s].pc = "check", ![s].ip = addr]
    /\ UNCHANGED <<conns, cache, slock>>

\* docker inspect, once a second for thirty seconds.
Resolve(s) ==
    /\ run[s].pc = "resolve"
    /\ \/ /\ ctr.st = "up"
          /\ run' = [run EXCEPT ![s].pc = "check", ![s].ip = addr]
          /\ UNCHANGED slock
       \/ /\ ctr.st # "up"
          /\ Set(s, "end")
          /\ slock' = None
    /\ UNCHANGED <<conns, cache>>

\* Reuse the cached connection, or drop it if it is stale.
CheckCached(s) ==
    /\ run[s].pc = "check"
    /\ IF Alive(cache) /\ conns[cache].addr = run[s].ip
       THEN /\ run' = [run EXCEPT ![s].pc = "turn", ![s].conn = cache]
            /\ slock' = None
            /\ UNCHANGED <<conns, cache>>
       ELSE /\ DropCached
            /\ Set(s, "connect")
            /\ UNCHANGED slock

\* websockets.connect, retried for a while: it fails when nothing listens there.
Connect(s) ==
    /\ run[s].pc = "connect"
    /\ \/ /\ ctr.st = "up" /\ addr = run[s].ip
          /\ conns' = Append(conns, [inst |-> ctr.inst, addr |-> addr, st |-> "open", refused |-> FALSE])
          /\ run' = [run EXCEPT ![s].pc = "handshake", ![s].conn = Len(conns')]
          /\ UNCHANGED slock
       \/ /\ ctr.st # "up" \/ addr # run[s].ip
          /\ Set(s, "end")
          /\ slock' = None
          /\ UNCHANGED conns
    /\ UNCHANGED cache

\* initialize; the connection is cached only when it has been answered.  One
\* that is refused is forgotten without being closed.
Handshake(s) ==
    /\ run[s].pc = "handshake"
    /\ slock' = None
    /\ LET c == run[s].conn IN
       \/ /\ Alive(c)
          /\ cache' = c
          /\ Set(s, "turn")
          /\ UNCHANGED <<conns, faults>>
       \/ /\ ~Alive(c)
          /\ Set(s, "end")
          /\ UNCHANGED <<conns, cache, faults>>
       \/ /\ Alive(c)
          /\ Fault
          /\ conns' = [conns EXCEPT ![c].refused = TRUE]
          /\ Set(s, "end")
          /\ UNCHANGED cache

\* run_turn returns, or raises because the connection is gone or by itself.
EndTurn(s) ==
    /\ run[s].pc = "turn"
    /\ \/ Alive(run[s].conn) /\ Leads(run[s].conn) /\ Set(s, "end") /\ UNCHANGED faults
       \/ ~Alive(run[s].conn) /\ Set(s, "drop") /\ UNCHANGED faults
       \/ Alive(run[s].conn) /\ Fault /\ Set(s, "drop")
    /\ UNCHANGED <<conns, cache, slock>>

DropAfterFailure(s) ==
    /\ run[s].pc = "drop"
    /\ DropCached
    /\ Set(s, "end")
    /\ UNCHANGED slock

\* The other end goes away with its container, and the socket closes.
LoseConnection(c) ==
    /\ conns[c].st = "open"
    /\ ~Leads(c)
    /\ conns' = [conns EXCEPT ![c].st = "lost"]
    /\ UNCHANGED <<cache, slock, run>>

RunSteps(s) ==
    \/ /\ BeginRun(s) \/ TakeSessionLock(s) \/ Resolve(s) \/ CheckCached(s) \/ Connect(s)
          \/ DropAfterFailure(s)
       /\ UNCHANGED faults
    \/ Handshake(s)
    \/ EndTurn(s)

-----------------------------------------------------------------------------
(* The composition: the scavenger's last step drops the cached connection, *)
(* docker gives a container that starts an address, and a session ends     *)
(* when its run has ended.                                                 *)

CacheSteps ==
    /\ \/ \E s \in Sessions : RunSteps(s)
       \/ \E c \in DOMAIN conns : LoseConnection(c) /\ UNCHANGED faults
    /\ UNCHANGED <<row, browsers, ctr, net, lock, req, scav, recent, sess, addr>>

SessionEnds(s) ==
    /\ run[s].pc = "end"
    /\ EndSession(s)
    /\ UNCHANGED <<addr, cachevars>>

Runtime ==
    /\ RuntimeSteps
    /\ IF ctr'.inst = ctr.inst THEN UNCHANGED addr ELSE addr' \in Addresses
    /\ IF scav = "drop" /\ scav' = "sleep"
       THEN DropCached /\ UNCHANGED <<slock, run>>
       ELSE UNCHANGED cachevars

CacheNext ==
    /\ \/ CacheSteps
       \/ \E s \in Sessions : SessionEnds(s)
       \/ Runtime
    /\ KeepHistory

\* The worker's tasks and the API's requests are scheduled by their event
\* loops; a prompt that is posted is picked up; a closed socket is noticed.
ScavengerStep == Scavenger /\ Runtime /\ KeepHistory
RequestStep(r) == RequestSteps(r) /\ Runtime /\ KeepHistory
RunStep(s) == (SessionEnds(s) \/ (RunSteps(s) /\ CacheSteps)) /\ KeepHistory
SocketStep == (\E c \in DOMAIN conns : LoseConnection(c) /\ UNCHANGED faults)
              /\ CacheSteps /\ KeepHistory

CacheFairness ==
    /\ \A r \in Requests : WF_vars(RequestStep(r))
    /\ \A s \in Sessions : WF_vars(RunStep(s))
    /\ WF_vars(ScavengerStep)
    /\ WF_vars(SocketStep)

CacheSpec == CacheInit /\ [][CacheNext]_vars /\ CacheFairness

-----------------------------------------------------------------------------

CacheTypeOK ==
    /\ TypeOK
    /\ addr \in Addresses
    /\ conns \in Seq(Conns) /\ Len(conns) <= Cardinality(Sessions)
    /\ cache \in 0..Len(conns)
    /\ slock \in Sessions \cup {None}
    /\ run \in [Sessions -> [pc : RunPc, conn : 0..Len(conns), ip : Addresses]]
    /\ \A s \in Sessions : run[s].pc \in {"resolve", "check", "connect", "handshake"} => slock = s

\* Two runs and the scavenger drop and reopen the connection of a workspace
\* in any order, and still no two open connections lead to it at a time: a
\* second client of one Codex thread would take the first one's answers.  A
\* connection whose initialize was refused is the exception: nothing closes it.
OneOpenConnection ==
    Cardinality({c \in DOMAIN conns : Alive(c) /\ ~conns[c].refused}) <= 1

\* A prompt ends whatever becomes of the container meanwhile: a run waits for
\* the address and for its turn no longer than the socket stays open.
PromptEnds == \A s \in Sessions : (sess[s] = "active") ~> (sess[s] = "ended")

=============================================================================
