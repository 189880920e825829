# Formal models of Polaris

TLA+ models of Polaris, checked by TLC on small instances, with theorems checked by TLAPS for
every instance. The reference is the code under `src/`; `PROJECT.json` maps each definition to
the lines it translates.

How to run, from this directory:

    tlc -workers 2 -config SessionLifecycle.cfg MCSessionLifecycle
    tlapm SessionLifecycle_proofs.tla

## The system

A user signs in, creates a *project* and describes an app in the browser. The API (FastAPI)
stores a *session* and puts a job on a Redis stream; the worker runs a chain of agents for it
(discovery, then Codex; or Codex alone), talks to a Codex app-server inside the workspace
container of the project, and reports by pub/sub; the API forwards the frames to the browser by
SSE. The agent publishes the app with a CLI in the container, which calls the API back. Postgres
holds the rows; Redis holds the job stream, the quota and the channels; docker compose holds a
runtime per workspace, its dependencies, and a site per published project.

| Component | State | Operations | Talks to |
| --- | --- | --- | --- |
| Run quota (`services/run_quota.py`) | two kinds of sorted set in Redis | acquire, release, expiry | API and worker, both release |
| Session routes (`routes/sessions.py`, `queue.py`) | `sessions` row, job stream | create, interrupt, steer, event stream | worker by stream, row and channels |
| Worker loop and orchestrator (`runner.py`, `orchestrator.py`) | `sessions`, `agent_runs`, local loop | deliver, run the chain, finalize, control consumer | agents, API |
| Clarification (`clarification.py`, `routes/clarify.py`, web reducer) | `clarifications` row, card on screen | ask, answer, time out, recover | worker, API and browser by three channels |
| Event sink (`sink.py`) and page (`useSessionEventHandler.ts`) | `events` rows, counters, list of bubbles | emit, append, close, flush; reduce, reload | browser by pub/sub |
| Codex client (`codex_app_server.py`, `agents/codex.py`) | one cached WebSocket per workspace, futures, notification queue | connect, run turn, read loop, interrupt, timeouts | app-server in the container |
| Discovery (`agents/discovery.py`, `polaris_design_intent`) | LangGraph state, open stages | rounds of questions, review, search, scoring, brief, mood board | clarification, sink |
| Publish (`routes/deploy.py`, `services/publish.py`) | `deployments` rows, live compose project, archives, `secrets.env` | publish, roll back, stream | docker, browser, CLI |
| Workspace runtime (`runtime.py`, `compose.py`, worker scavenger) | `workspaces` and `browser_sessions` rows, compose project, network | ensure, restart, stop, delete, scavenge | docker, prompts |
| Projects (`routes/projects.py`, `services/workspaces.py`) | `projects` and `workspaces` rows, directories | create, delete, write a file | runtime, agent's files |
| Authentication (`routes/auth.py`, `services/auth.py`) | `verification_codes`, `users`, cookie | send a code, verify it, log out | mail, browser |
| Dependency services (`services/dev_deps.py`) | `workspace_dep_services` rows, containers, volumes | up, list, down | docker, CLI |
| `polaris` CLI (`infra/workspace/polaris-cli`) | a process per command, files of the project | publish, rollback, dev-up/-down/-list, audit, scaffold | API |
| Record/replay, image search, icons, MCP, scripts | files, caches | tooling | - |

What is hard here: no row update is guarded by the old value, so every status is last-writer-wins
between two processes; pub/sub forgets; asyncio tasks interleave at each await; cancellation hits
a task anywhere; the quota is two Redis calls; the Codex connection outlives a turn and is shared
by the sessions of a workspace; the runtime's lock is one process's and most operations do not
take it; a commit writes only the columns that differ from a copy that may be old; files and rows
of a project change in separate steps; a CLI gives up before the API does; and a process that
crashes leaves rows that nobody takes up again. `PROJECT.json` lists the hazards line by line,
with the properties that cover them.

What makes each part correct: the quota never exceeds its limits and forgets the dead; a session
keeps its slot while it runs, but for an interrupt or the TTL, and only these let more agents work
than the limits say; it ends in one terminal status, tells the browser that status, and leaves
nothing behind; agents run in order; an answer reaches the wait it belongs to; counters
count each change at most once; the bubbles of the page tell the rows; discovery closes what it
opens and does not question the user for ever; a run gets the outcome of its own turn, and every
turn ends; a workspace's row tells the truth about its containers, and an idle one is stopped;
what a site runs was smoked, is what the head of the chain of deployments says, and keeps its
secrets; a container of a dependency has a row that leads to it, and a project loses its files only
to a delete of its own, with the exceptions that the properties name; a login code is spent only on
a login.

## Modules

| Module | Models | State and actions |
| --- | --- | --- |
| `QuotaLedger` | the abstract promise of the quota | the holders; a session takes a slot within both limits, or slots go back |
| `SessionContract` | the abstract promise of a session's row and terminal frames | status, frames, who was asked to stop; the status goes forward, a frame says what the row says unless an interrupt overtook it |
| `ItemBoard` | the abstract promise of a chat's progress items | how far each item is on record and on the page; an item begins and ends once, and nothing shown is taken back but by a reload |
| `AnswerLedger` | the abstract promise of a clarification | questions one after another; each ends once, empty or with answers given to it |
| `RunQuota` | `run_quota.py` | both sorted sets with scores, the clock, each request between its Redis calls; `AcquireGlobal`, `AcquireUser` (one Lua eval each), `Rollback`, the two ZREMs of each releaser, requests that die, time |
| `SessionLifecycle` | create and interrupt routes, worker task, control consumer | one step per SQL statement or Redis call of the four; agents are start, end, tail; failing calls, API deaths, worker crashes; the quota is one set of slots, from which the TTL may take any at any time |
| `Clarification` | `wait_for_answers`, `submit_clarification`, snapshot and event stream, reducer | one session; requests one after another; subscriptions that begin late; page loads |
| `StatsSink` | counters of `DbEventSink` | buffer, two flushers at each of their awaits, the connection lock, cancellation |
| `EventFeed` | event calls of `DbEventSink`, reducer and loading of the page | rows, script of calls still to make, the call between its INSERT and its PUBLISH, channel, bubbles |
| `DesignIntent` | LangGraph of discovery, node by node | messages by what the code tells them apart by, counters, retries, recursion limit; replies of the models are choices |
| `Discovery` | the discovery agent; extends `EventFeed` and `DesignIntent` | task, callbacks, stages that are open, interrupt at any await |
| `DiscoverBuild` | the session's two runs in a row; extends `Discovery` | adds the Codex run's items, up to two messages at once |
| `CodexTurn` | JSON-RPC client, `run_turn`, control consumer | queue, wire, read loop (which runs question handlers inline), timeouts, loss of connection; the app-server is external |
| `WorkspaceRuntime` | `runtime.py`, `compose.py`, workspace and browser routes, scavenger | row, lock, containers, network and whether a dependency is attached to it, browser rows; a request carries the copy of the row it loaded and commits only what differs |
| `SessionCache` | cached Codex connections; extends `WorkspaceRuntime` | connections, cache, its lock, each prompt between its awaits; container addresses that change |
| `Publish` | `trigger_publish`, `run_publish`, `run_rollback` | one project; rows, archives, previews, compose files and site; one step per command or transaction; docker and git are outcomes |
| `PublishFollow` | polling event stream, CLI and panel as readers; extends `Publish` | log in pieces (whose sanitizing shortens it), what was sent, reader |
| `DevDeps` | `dev_deps.py` and its routes | row, container, volume, network, calls between their steps, CLI that gives up; statements and commits that fail, deaths of the API |
| `SiteConfig` | scaffold, manifest defaults, `secrets.env`, audit of the start command | manifest, archives, secrets by origin and number of escapings |
| `PolarisCli` | the commands of the CLI; extends the three above | which group of commands is in use |
| `Accounts` | e-mail login in several tabs | codes, account, tabs between the statements of a request, any of which may fail, ticks |
| `Projects` | create and delete of projects of one name, writers of files | workspace row per project, request positions, whose files the directory of a slug holds, writers; system calls and commits that fail, deaths of the API |
| `Portal` | extends `Accounts` and `Projects` | which of the two a behaviour does |
| `*_proofs` | theorems: `RunQuota`; `SessionLifecycle`; `Clarification`; `CodexTurn`; `SessionCache` (with `WorkspaceRuntime`); `Publish` (with all of `PolarisCli`); `Feed` (`DiscoverBuild` and what it extends, `StatsSink`); `Portal` | - |
| `MC*` | - | constants for TLC; a module without one is checked as it is |

`RunQuota` implements `QuotaLedger` (`KeepsLedger`), one set of holders that nobody joins beyond a
limit. This is why `SessionLifecycle` has one set of slots and no sorted sets; what the TTL does
to a session that outlives it is its action `SlotExpires`, which takes the slot of any session,
running or not. `SessionLifecycle` implements `SessionContract` (`SessionsKeepContract`), with
`asked` as the sessions that have an interrupt request, and `Clarification` implements
`AnswerLedger` (`WaitsKeepLedger`), with the submits that have begun as what was given;
`DiscoverBuild` implements `ItemBoard` (`PageKeepsBoard`), which reads off rows and bubbles how
far an item is. `DiscoverBuild`, `SessionCache` and `PublishFollow` are compositions in which the
parts share state: the graph drives the agent, which drives the feed; a stopped container kills
the connection that leads to it; the stream reads the row the pipeline writes. `Portal` and
`PolarisCli` put parts side by side that share none, so a behaviour does one of them.

Abstractions: names, prompts, payloads and events are left out; in `SessionLifecycle` the agent
is its outcome and the points at which it can be cancelled; the two stats counters behave alike
and one is modelled; the Lua script is one step because Redis runs it atomically. Pub/sub
delivers in order to who has subscribed and to nobody else, as Redis does. `Publish` meets the
rest only in the working tree, which an agent may change at any time (`Edit`), and is not
composed with the session modules.

## Runs

| Run | Configuration | What it shows |
| --- | --- | --- |
| `quota` | `RunQuota.cfg` | limits, rollback, release and expiry over three requests of two users, whose sessions may outlive the TTL; refinement of the ledger |
| `session` | `SessionLifecycle.cfg` | two sessions and their interrupts: everything settles in the end, and the agents at work are within the quota but for those that were interrupted |
| `session_faults` | `SessionFaults.cfg` | what holds through failing calls, a crash and a TTL that is too short; refinement of the contract of rows and frames; recovery by an interrupt |
| `clarification` | `Clarification.cfg` | refinement of the ledger of answers, so that a wait gets its own; it does not miss an answer that reached it |
| `stats` | `StatsSink.cfg` | no double counting under cancellation, a final flush that ends |
| `codex` | `CodexTurn.cfg` | own outcome unless a timeout killed a turn; every turn and every control request ends |
| `publish` | `Publish.cfg` | smoked image, site as the head says, publishes that end, under overlap, failures and a death of the API |
| `workspace` | `Workspace.cfg` | row, containers and network agree after overlapping requests, scavenges and prompts, with a dependency attached or not; one browser session; one open connection |
| `workspace_live` | `WorkspaceLive.cfg` | an idle workspace is stopped; a prompt ends although its container may vanish |
| `cli` | `Cli.cfg` | the followed log is complete, no dependency container without its row but by the ways named, audit, secrets, commands that return |
| `discovery` | `Discovery.cfg` | stages in order and closed, page and rows agree, rounds of questions accounted for |
| `portal` | `Portal.cfg` | codes, and files under concurrent creates, deletes (two of one project too) and writers, with a fault |

Each invariant and property of a run has a mutant in `PROJECT.json`: a plausible bug in the
modelled code that makes TLC report it violated. The type invariants (`TypeOK`, `CacheTypeOK`,
`CliTypeOK`) can be added to any of the configurations; most are theorems.
`WorkspaceReturns.cfg` is a further configuration, of `WorkspaceRuntime` alone: every runtime request
returns (`RequestsReturn`), so the lock is not kept for ever. `DiscoverBoard.cfg` checks
`PageKeepsBoard` with one question less than `Discovery.cfg`. `SessionQuota.cfg` checks
`AgentsWithinQuota` with sessions that outlive their slots (0.9 million states); together with the
liveness of `session` that would be too large.

Bounds. `RunQuota`: three requests, limits 2 and 1, so that both limits bind, a user is refused
while another is admitted, and the slot of a
session that is still running expires and is claimed again (`TTL` 2, `MaxClock` 4).
`SessionLifecycle`: two sessions of one user with one slot race for sequence number, slot and
worker, an interrupt each, and slots that do not expire (`MaxOutlived = 0`; in `SessionQuota.cfg`
both may); the faulty run has one session (the processes of different sessions
meet only in slots and sequence numbers), two faults (a call and its handler) and a crash,
followed by a second interrupt, and a slot that may expire. `Clarification`: two requests and two submits are what a late
answer needs; one control message, one reload. `StatsSink`: six bumps refill the buffer behind a
flush several times. `CodexTurn`: three turns, so that what a turn leaves behind can reach the
next and the one after it. `Publish`: two publishes that pass the in-flight check together and a
rollback, which needs a row that is ready, give three promotes of two commits; a transaction that
fails and a death of the API.

`Workspace`: two requests of any kind, so that each kind meets each at every step, with the
scavenger and two prompts, which is what a shared connection needs; two addresses; one failing
docker command (`MaxFaults`); a dependency's container, on the network or not. `WorkspaceLive` has
one request and no symmetry, which would be unsound for liveness. `Cli`: a publish and a rollback
with one failing transaction (`MaxDbFaults`) and one death (`MaxDeaths`), two streams
(`MaxStreams`); or three dependency calls, of which two overlap and the third retries, with one
fault (`MaxDepFaults`: a docker command, a statement or commit, or the API); or three publishes
and rollbacks (`MaxRounds`), so that a manifest changes and comes back; or start commands of up to
four words, which holds a wrapper, its option and what it runs. `Discovery`: a cap of one round
and two questions (`MaxAsks`), so that a round passes the cap by one rejection
(`MaxReviewRejections`) or one empty emission (`MaxEmptyEmits`); a recursion limit of seven steps
instead of LangGraph's default, so that it is reached; one reload, one lost frame, two frames
behind. `Portal`: two tabs, three ticks with codes that live for two, three sign-ins; three
creates and two deletes of one name, so that a slug is taken again while its last owner is being
deleted and both deletes may be of one project, with one writer at a time (`MaxWriters`) and one
fault (`MaxFaults`: an rmtree that leaves files, a system call, a commit, or the API). The largest
are `workspace` (7.6 million states) and `portal` (5.2 million). Deadlock is not checked: every
bounded model stops when its requests are used up.

Fairness. The event loop runs every ready task, and a request that has begun goes on (weak
fairness per process); an agent ends, because each turn has two timeouts. Nobody has to create,
answer or interrupt anything. Nothing has to fail, but in `CodexTurn` the timeouts do come, since
they are timers of the client; Codex need not make progress. In `Clarification` the timeout need
not come, which makes `AnswerUnblocks` speak of the answer alone. In `Publish` and `DevDeps`
tasks go on and commands end, well or badly: each docker command has a timeout; the stream goes
on polling. `StatsSink` has strong fairness for the connection lock: asyncio's lock is a FIFO
queue. In `SessionCache` the requests, the scavenger's loop and the prompts go on, and a socket
that is closed is noticed, as its read loop gets an exception. `Discovery` and `Portal` have
safety properties only.

## What disagrees with the documentation

Each of these has a definition in its module; adding it to the configuration (as INVARIANT, or as
PROPERTY, and without SYMMETRY, where marked P) makes TLC show a behaviour in which it is violated,
most within seconds. They are kept out of the runs, which check what holds.

| Property | Add to | The code | The promise |
| --- | --- | --- | --- |
| `InFlightWithinCap` | `RunQuota.cfg` | the TTL defaults to 1800 s, a session may take 7200 s: the quota forgets sessions that run | "TTL should comfortably exceed the worst-case session wall-clock" (`config.py:239`) |
| `GlobalRejectionIsJustified` P | `RunQuota.cfg` | two evals: a doomed request holds a global slot until its rollback and turns another user away | "acquires both atomically" (`docs/ARCHITECTURE.md:315`) |
| `TerminalFramesAgree` | `SessionFaults.cfg` | an interrupt that races with a finished agent gives frames `interrupted` and `completed` | "will also publish the same shape" (`routes/sessions.py:383`) |
| `NoRunAfterInterrupt` P | `SessionFaults.cfg` | status is polled once before an agent; an interrupt after the poll does not stop it | "also short-circuits" (`docs/ARCHITECTURE.md:301`) |
| `RunningWithinUserQuota` | `SessionLifecycle.cfg` | the interrupt frees the slot while the agent winds down | "per-user in-flight sessions" (`docs/CONFIGURATION.md:170`) |
| `NoAnswerMissed` P | `Clarification.cfg` | an answer between the frame and the SUBSCRIBE is lost | "fallback if missed pubsub" (`docs/API.md:106`) |
| `EmptyOnlyOnTimeoutOrInterrupt` | `Clarification.cfg` | a steer ends the wait | "{} on timeout or interrupt" (`clarification.py:72`) |
| `RecoveredIsInFlight` P | `Clarification.cfg` | the row of a wait that is over stays pending and its card comes back | "any in-flight clarification" (`routes/clarify.py:184`) |
| `OpenStreamShowsRequest` | `Clarification.cfg` | snapshot first, SUBSCRIBE second: a request between the two is not shown | "close the fire-and-forget pubsub race" (`routes/sessions.py:64`) |
| `FinalizeLosesNothing` | `StatsSink.cfg` | a cancelled flush takes its delta with it | "so the last 500ms of activity isn't lost" (`sink.py:296`) |
| `EveryBumpIsFlushed` P | `StatsSink.cfg` | a bump during a flush schedules none | "one frame per ~500ms" (`docs/API.md:70`) |
| `NoBubbleLeftOpen` | `Discovery.cfg` | the interrupt cuts the INSERT of a stage, which is then not among the started | "Close whatever is still open" (`agents/discovery.py:304`) |
| `RoundsCapped` | `Discovery.cfg` | a rejecting review and an empty emission append messages behind the forced emit, and the clarifier asks again | "force the next call to emit rather than ask again" (`nodes/clarifier.py:214`) |
| `ChosenIsUsed` | `Discovery.cfg` with `Refs = {"r1", "r2"}`, `MaxScore = 2` | the bubble marks the best-scored reference, the compiler uses the first one above the threshold | "FINAL scored refs + chosen_id" (`agents/discovery.py:167`) |
| `OwnOutcome` | `CodexTurn.cfg` | a killed turn's last notification ends the next one | a killed turn is interrupted and completed as failed (`codex_app_server.py:576`) |
| `TokenIsStable` P | `Workspace.cfg` | two ensures that loaded the row before the lock mint a token each | "rotates only when the workspace is recreated" (`models.py:87`) |
| `NoEnsureFails` | `Workspace.cfg` | stop and the scavenger take no lock: the network goes under an ensure | "concurrent ensure / restart / stop calls ... would otherwise race" (`runtime.py:179`) |
| `ScavengerSparesSessions` P | `Workspace.cfg` | the list is queried once; a session created since is not looked for | "workspaces that haven't seen a Session" (`runner.py:55`) |
| `RetrySucceeds` | `Cli.cfg` | a container left by a failed ensure makes `docker run` fail on its name | "the caller CAN retry" (`routes/dev_deps.py:116`) |
| `TerminalOnce` | `CliPanel.cfg` | EventSource reconnects when the stream has ended, and gets the end again | "a terminal `ready` / `failed` event" (`routes/deploy.py:212`) |
| `AppOpensDatabase` | `Cli.cfg` | a `DATABASE_URL` drawn before `postgres` was a dependency stays | "always agree on the credential" (`services/publish.py:367`) |
| `EscapedOnce` | `Cli.cfg` | every rewrite of `secrets.env` escapes the static values again | "`$` escaped as `$$`" (`docs/CONFIGURATION.md:264`) |
| `SiteHasSetting` | `Cli.cfg` | a value that is in `secrets.env` is never changed, nor added when no secret is missing | "env vars baked into deploys" (`infra/publish-templates/node/polaris.yaml:30`) |
| `OneInFlight` | `Publish.cfg` | two requests check before either inserts; a rollback does not check | "Don't let more than one in-flight publish per project" (`routes/deploy.py:107`) |
| `OldVersionStaysLive` P | `Publish.cfg` | compose up has replaced the containers when their health check fails | "old version stays live" (`services/publish.py:855`) |
| `NoHostPorts` | `Publish.cfg` | a rollback unpacks the raw archive and promotes it as it is | "before anything downstream consumes it" (`services/publish.py:1035`) |
| `PreviewTornDown` P | `Publish.cfg` | `probe_succeeded` is unbound when the preview's compose up fails | "Always tear down the preview" (`services/publish.py:800`) |
| `OnlyOwnDelete` P | `Portal.cfg` | nothing stops a second delete of a project; it removes the directory of the project that has the slug by then | "rm -rf the workspace bind-mount dir" (`routes/projects.py:331`) |
| `DeletedLeavesNothing` | `Cli.cfg` | a first ensure that never gets healthy, whose transaction is lost, or that dies with the API after `docker run` leaves a container without a row, which the deletion does not find | "Stops + removes all dep containers + volumes" (`services/dev_deps.py:336`) |
| `AuditFindsEveryBin` | `Cli.cfg` | after a wrapper the scan takes the next word as its script, also behind `&&`: `yarn && next start` passes | "Bare ``next start ...`` / ``tsx foo.ts`` → fail" (`polaris.py:89`) |

A deployment also stays in flight for good when the API dies or the handler's own commit fails,
and blocks every later publish; `EveryPublishEnds` excludes these two cases by name, since the
code promises nothing about them. `LiveIsHead` excludes promotes that overlap, and `RowTellsTruth`
operations that take no lock next to another one and a compose down that failed; of the network of a
stopped workspace it says that it is gone unless a dependency is attached, since compose then leaves
it. `NoOrphan` excludes, by name, a first ensure that ends between its `docker run` and its commit,
an ensure next to a removal, and a `delete_project` whose `docker rm` fails; `AuditFindsBareBins` a
tool behind a wrapper that is a command of its own; `FilesSurvive` a delete that another delete of
its project has overtaken. Without these premises TLC refutes them. `RefusedOnlyLeftovers` counts
as left over what a writer puts into the directory before the row is ready or after the rmtree.

Nothing is claimed of a provisioning that fails otherwise than by a `WorkspaceError`: an `OSError` of
`mkdir` or `iterdir`, a commit that fails, a refused chown (whose handler calls `logger`, which
`services/workspaces.py:193` does not define) and a death of the API all leave the workspace in
`provisioning`, and nothing takes it out. `Projects` has these steps (`Initialize`, `Update`,
`ApiDies`), but no property would hold.

Read in the code, and without a property: the audit recommends `scaffold-publish
--stack=node-prisma`, which argparse rejects (`polaris.py:350`, `763`), and does not look at
that stack itself (`polaris.py:205`); it flags `npm run serve` and the `pnpm exec vite` its
docstring allows (`polaris.py:84`); `dry_run` is ignored by `deploy.py`; `dev-up` says it writes `.env` but never
calls `_merge_env_file`; two concurrent sessions of a project leave two active design intents
(`models.py:276` says at most one); the reducer shows a failed event as completed
(`useSessionEventHandler.ts:318`); Codex items that are open at the end of a turn stay open.

## What is proved

`RunQuota_proofs`, for any finite set of sessions, any users, owners, limits and TTL
(`QuotaAssumption`): types, `SlotCap`, `RejectionLeavesNothing`, `ReleaseIsFinal`,
`NoEarlyEviction`, `ExpiredNeverRejects`, `KeepsLedger`, and `FreshWithinCap`, for sessions of any
length: it counts those that are younger than the TTL. `SlotCap` is inductive by itself: an acquisition counts after its
own purge. The others need `QuotaInv`, which says for each point of a request which set holds it
and with which score: a slot that is claimed carries `now + TTL`, a purge compares with a `now`
that is not ahead of the clock, and so takes nothing that is live.

`SessionLifecycle_proofs`, for any finite set of sessions, any chains, limits and bounds on
interrupts, faults, crashes and slots that expire (`LifecycleAssumption`): types, `SlotCoversRun`,
`AgentsWithinQuota`, `FailedCreateHoldsNoSlot`, `FrameTellsStatus`, `ChainInOrder`,
`AckedIsSettled`. None is inductive: each speaks of two processes and follows only from where both
stand. `LifecycleInv` has a part per pair: `WorkerLocals` (task and agent), `CreateFirst` and
`JobFirst` (create request, interrupt and worker), `SlotOwned` (who holds the slot, unless the TTL
has taken it), `RowFollows` (row, frames and worker), `RunsFollow` (runs and loop), `EndsClean`
(nothing undone as long as no call failed). One lemma per part shows that every step keeps it.
That rows and frames keep `SessionContract` (`SessionContractKept`) needs `RowsInStep` besides: at
each point where the worker writes the row without reading it, the row is as the worker left it or
carries the mark of an interrupt. `ContractIsFinal` shows of the contract alone that a frame no
interrupt overtook is the last word, which is `FrameTellsStatus`, the invariant the code's
duplicate frame must not break.

`Publish_proofs` has the whole CLI. For any finite sets of publishes and rollbacks of which none is
the value that means "no job", any number of edits, faults and deaths (`PublishAssumption`):
types, `ChainPointsForward`, `LiveIsSmoked`, `LiveIsHead`. `PublishInv` has four
parts: `ReadyIsOver` (a job whose row is ready has finished, and the rows selected to be
superseded stay ready), `ChainNumbered` (the last of n ready rows has number n, and every pointer
leads to a greater number, so that the last row is a head), `CommitFixed` (a job knows its commit
before it archives, builds or promotes) and `SmokedFirst` (what can be promoted, and what the
compose files name, has been smoked). A cycle would need two jobs that each select the other,
and a job is selected only when it has nothing left to do. `LiveIsHead` says nothing of a promote
that is under way; `SiteInv` does: until two promotes overlap, or one is not recorded, there is
at most one, the files are its own when it starts them, the site shows its image once they are
started, and what it has selected to supersede is all that is ready.

Of the CLI, with any reader, any number of streams, calls and rounds (`FollowAssumption`,
`DepAssumption`, `SiteAssumption`): `CliPublishes`, that `CliSpec` implements `Publish!Spec`, so
that what is proved of the pipeline holds while it is followed; `TailComplete`,
`SiteKeepsSecrets`, `NoOrphan`, `RowIsRecovered`. `TailLines` carries the first: what the reader
has is a prefix of the column, as long as the stream has sent, and no write to the column is
shorter than the one before as long as no path is printed. That is the point of the premise of
`TailComplete`: sanitizing shortens a log, and a stream that counts what it has sent then skips.
`SecretsInv` says that the password is a generated one and a composed URL holds it, and `DepInv`
has, next to types and program counters (`CallsInv`), who can be at which container: until
something is left over no ensure and no removal are active together, and a container without a row
has an ensure that is about to write it (`OrphanInv`), whatever transaction is lost and whenever
the API dies; an ensure that nobody has disturbed is alone and finds what it left (`CalmInv`).
`AuditFindsBareBins` is proved for start commands of any length (`CommandsAssumption`: they are
sequences of the words of the audit): all the scan jumps over is the word behind a wrapper. A
shell runs that word only if the wrapper ended its command there, which is the case the property
names (`BehindWrapper`). The scan is a recursive function, and that its equation has a solution is
proved first, by taking the least place where it would fail (`ScanExists`).

`SessionCache_proofs`, for any set of requests and routes, any number of faults
(`RuntimeAssumption`), any addresses and finitely many sessions (`CacheAssumption`): types,
`RowTellsTruth`, `OneBrowserSession`, `OneOpenConnection`. A request that is going to create a browser
session has seen, under the lock, that there is none (`BrowserInv`). `TruthInv` says of each point
of a request and of the scavenger what has been made of network and containers so far, and that
the copy of the row it carries is the row; its premise, that no operation without the lock has
overlapped another one and no compose down failed, is that of the property, and without it TLC
refutes the property. `CacheInv` says that a connection that is open is the cached one or the one
that the holder of the session lock is opening, and that no more are opened than there are sessions
that have come as far as connecting, which bounds the index of the cached one.

`Feed_proofs` is about what the worker tells the page. Counters (`StatsSpec`): types,
`NeverOvercounts`, and that the bar is monotonic and never ahead of
the row. `StatsInv` gives each bump at most one place - row, buffer, or the hands of one of the
two flushers - at each await where the cancellation can hit. Stages (`DiscoverBuild`, any items,
backlog, page loads, lost frames and interrupts): `StagesInOrder`, `ClosedOnReturn`. Both speak of
rows, and what the agent does next depends on what it has noted and on the calls it has still to
make: `StageInv` says how rows, notes and calls fit together (`RowsKnown`, `ScriptSound`), that
the calls are those of the node at which the graph stands (`Control`), and that what a start, or the
return, waits for has ended or is about to be closed (`StagesClosing`). What the page shows of
them is `PageTellsRows`, over frames that are lost, late, or replaced by a snapshot. Its `PageInv`
says that the last frame on its way about an item, or else its bubble, says what the row does,
unless the row is written and not yet published (`Told`); that nothing is shown to have ended that
has not (`EndedTold`), so that the update of a stage finds its bubble open; and that an item has one
row and one bubble (`OneRow`, `OneBubble`). `PageKeepsBoard` needs two more parts: what is shown or
on its way is on record (`Recorded`), and the frame that starts an item is read before any that ends
it and finds no bubble that has ended (`NoLateStart`), which is what keeps a page that loads, or
subscribes late, from showing a finished stage as open again. Rounds (`DesignIntent`, any
bounds and any replies): `RoundsAccountedFor`. `RoundsInv` counts, next
to the rounds shown, the one that is being asked and the one the last message still allows; each
of them was paid for by the cap, a rejection or an empty emission. The counters of the code
alone are not inductive: between a rejection and the next question the permission is only in the
messages.

`Clarification_proofs`, for any set of requests, submits and bounds (`ClarificationAssumption`):
types, `OwnAnswer` and `WaitsKeepLedger`. `ClarificationInv` says that the card, the snapshot, the frames and the
submits name only requests that have been asked, that an answer on a channel was submitted for its
request, and that a row once answered stays so. For the ledger, `Waits` adds that a wait goes on
exactly as long as its question is open, so that a question ends once.

`Portal_proofs`. For any tabs and times, `UsedCodeLetIn`: `CodesInv` follows a code through the
uncommitted transaction that has marked it, of which any statement may fail. For any finite set of
create and delete requests, any number of writers and faults (`ProjectsAssumption`): `FilesSurvive`
and `RefusedOnlyLeftovers`. `RowsInv` places rows and requests: a row is there from the INSERT of
its request to its deletion, is in provisioning until the request has ended, and the slugs of living
projects are distinct (and stay in range, which is a pigeonhole argument over the requests that hold
one). `FilesInv` says that files that are not left over are those of the project that has the slug,
whose directory has been looked at and is not yet removed. Both hold however many deletes name one
project.

`CodexTurn_proofs`, for any number of turns, interrupts, questions, items and lost connections:
types and `OwnOutcomeBarTimeouts`. `OwnInv` follows a turn from its request to its completion:
the start is the only one in the list of requests; once the server has read it the turn runs and
no completion exists; the one completion is on the wire or in the queue, and is the current
turn's; and between two turns on a connection that lives there is neither. A timeout is what
breaks the last part, which is why the invariant has it as a premise.

Only model-checked: liveness (`EverySessionEnds`, `InterruptRecovers`, `AnswerUnblocks`,
`FinalizeEnds`, `EveryTurnEnds`, `ControlReturns`, `EveryPublishEnds`, `IdleIsStopped`, `PromptEnds`,
`EveryCommandReturns`), since fairness and ENABLED are out of the prover's reach.

## What is not modelled

EventSource's automatic reconnects on the session stream and a second browser; the in-container
CLI's own polling of clarifications; cancellation of a whole worker task by a shutdown (a crash
stands for it); two turns at once on one Codex connection (their sharing of it is in
`SessionCache`, the drain of each other's notifications is not); the decoding of Codex items,
dynamic tools and the file watcher; the rows of design intents; the file editor's revisions
and contents (that it writes is in `Projects`) and the snapshot routes; an UPDATE of the sink that
raises inside `finalize_all` (`discovery.py:315`); the screenshot of a published site; the signature and age of the cookie; the deep audit,
which asks a model; record and replay, a development aid; scripts and images; image search, icons,
quota display and MCP, which have no protocol of their own. LLM calls and prompts, rendering, and
the text of compose files have nothing to check here.

## Plan

1. `CodexTurn` with two sessions of a workspace on one connection, composed with `SessionCache`.
2. The rows of design intents across sessions, and the snapshot routes.
