# server-monitor-rs: a TLA+ model of the panel, the agents and their supervisors

The repository is a monitoring system in Rust. A **panel** (Axum over HTTP and WebSocket, tonic gRPC,
Postgres) serves a browser frontend and a fleet of **agents**. Each agent holds one bidirectional gRPC
stream to the panel and is launched by a **supervisor** on its host, which talks to it over a Unix socket
and replaces its binary when the panel ships a release. This directory models the parts of it whose
correctness depends on the order of things: tasks that await between reading and writing, streams that
die and come back, bounded queues that refuse frames, processes that restart, statements that run on
what the previous one left.

Paths below are relative to `crates/`. Every definition that stands for code is listed with its lines in
`PROJECT.json` under `map`.

## 1. Inventory

| component | state it keeps | operations | what is hard |
|---|---|---|---|
| update rollouts: `panel/src/updates/{rollout,dispatch}.rs`, `api/updates.rs`, `grpc/agent_service.rs` | tables `update_rollouts`, `update_assignments` | create, pause, resume, abort; three dispatchers; status ingest; correlation of the version an agent connects with | dispatchers, the inbound loops of all streams and the endpoints write the same rows with awaits in between |
| sessions: `panel/src/grpc/session.rs`, `agent_service.rs` | `SessionHub`, one queue per stream | register, get, `try_send`, `remove_if_matches` | a reconnect overlaps the end of the stream it replaces; a full queue refuses frames |
| supervisor: `agent-supervisor/src/{main,staging,ipc}.rs` | `state.json`, `versions/`, grace window, pending swap, in-flight slot | launch, stage, swap, confirm, roll back, prune, abort | staging tasks overlap; the agent may die at any point; a restart forgets what is in memory |
| probe assignment: `panel/src/api/probes.rs`, `panel/src/probes/scheduler.rs`, `agent/src/probes/scheduler.rs` | tables `probes`, `probe_agent_overrides`; `last_pushed`; the agent's task table | edit a probe, override it, tick, push Sync or Delta, apply | the tick awaits between looking up the session, reading and sending; the agent forgets on reconnect, the panel does not |
| terminal sessions: `panel/src/terminal/hub.rs`, `api/terminal_ws.rs`, `agent/src/terminal/` | hub slots, table `terminal_sessions`, the agent's `Manager`, one pty task per session | open, bridge, input, output, close from either side | two ends close at once over a lossy path; the stream may die under open sessions |
| recordings: `agent/src/recordings.rs`, `panel/src/terminal/recordings.rs`, `api/terminals.rs` | one fetch slot per session, a channel per download, files | download, chunked reply, retention | frames name the session and not the request; chunks are dropped when a channel is full; no timeout |
| registration and server identity: `agent_service.rs`, `agent/src/{register,main,config}.rs`, `api/servers.rs` | table `servers` (join token, server token), the agent's config file and process | create, show, rotate, delete; register, save, reconnect | check and update are two statements; the answer may be lost after the update |
| accounts: `api/{auth,users,setup,totp}.rs`, `auth/` | users, web sessions, backup codes, TOTP secrets | set up, log in, create, delete, change and reset passwords, enroll, confirm, disable, regenerate | read, await, write in each of them, on the same rows |
| metrics: `agent/src/stream.rs`, `panel/src/metrics/`, `live.rs` | the agent's capped buffer, `metric_snapshots`, a live bus | sample, flush, ingest | a flush drains before it sends; a batch may be dropped |
| roll-ups: `panel/src/metrics/rollup.rs`, `panel/src/probes/rollup.rs` | four tiers of each series | aggregate raw to minutes to five minutes to hours, prune | windows against buckets; ticks that come late or fail half way |
| probe results: `agent/src/probes/scheduler.rs`, `stream.rs`, `panel/src/probes/ingest.rs` | a semaphore, a bounded channel, `probe_results` | execute, report, batch, ingest | one batch is one INSERT under a foreign key |
| releases: `panel/src/updates/{poller,rollout}.rs`, `.github/workflows/release.yml` | two cached rows in `settings` | publish, upload, poll, choose, sample | a release is listed before its files are there; a poll awaits between reading settings and writing |
| settings, groups, audit, installer, static files, frontend, scripts | rows and files | CRUD | - |

How they meet: the panel's HTTP handlers run their dispatchers inside the request (`api/updates.rs:80`, `:112`), so a
client that leaves drops them at whatever they await, and a failed statement ends them with the rows they had not
reached still pending; only the catch-up dispatcher of a stream (`agent_service.rs:193`) and the inbound loops are
spawned. Dispatchers and the probe scheduler look an agent up in the `SessionHub` and `try_send` to its queue; the
agent's stream loop hands frames to its supervisor client, its probe scheduler, its terminal manager or a recording
task; their answers, its samples and its probe results travel up the same stream and are applied, one at a time, by
that stream's inbound loop in the panel. The tables and the hub are the only state the panel's tasks share. An agent
that has registered is one of the rollout's `Agents`, whose rows `create_rollout` makes from the poller's cache.

What makes each component correct: a rollout ships each pending row once, to the live stream, and ends when its rows
have ended; a host is never left on a binary that was not proven when a proven one is known; an agent runs the probes
the tables assign to it; a terminal's row and slot end together, whichever side goes first, and its shell ends with
them unless the pty is stuck; a download that passes for whole is the file; a join token works until it is used or
replaced; there is always an admin, and what opens an account is what its user was last given; a roll-up takes nothing
back; the cache of releases becomes what is published.

## 2. Modules

| module | models | proofs |
|---|---|---|
| `Rollout` | rollouts, dispatchers, streams, the agent's answers | `RolloutProofs` |
| `Supervisor` | run loop, staging tasks, grace window, restart | `SupervisorProofs` |
| `SelfUpdate`, `SupervisorRefinement` | what the supervisor promises of a host, and the mapping under which it keeps it | `SupervisorProofs` |
| `ProbeSync` | probe tables, scheduler, agent task table | `ProbeSyncProofs` |
| `Terminal` | WebSocket handler, hub, agent manager, pty task | `TerminalProofs` |
| `Recordings` | download handlers, fetch slot, agent's reply tasks, streams | `RecordingsProofs` |
| `Identity` | server rows, join tokens, the Register RPC, the agent's process and configuration | `LiveProofs` |
| `Accounts` | users, sessions, login, setup, TOTP, backup codes | `AccountsProofs` |
| `Releases` | publishing, poller, cache, create_rollout up to its rows | `LiveProofs` |
| `Tiers` | the roll-up SQL: windows, buckets, the aggregating upsert, pruning | `RollupsProofs` |
| `Metrics` | the agent's buffer, ingest, the metric roll-up task (extends `Tiers`) | `RollupsProofs` |
| `Results` | executions, the results channel, ingest under the foreign key, the probe roll-up task (extends `Tiers`) | `RollupsProofs` |
| `MCRollout`, `MCSupervisor`, `MCProbeSync`, `MCTerminal`, `MCAccounts` | constants and symmetry for TLC | |
| `MCLive`, `MCServices` | the sum of three components each, for TLC | |

Conventions. An action is what the code does between two awaits. A task that awaits carries a program counter
and what it has read (`rollTask`, `agentTask`, `abortTask`, `loop`, `sched`, `overrides`, `inbound`, `ws`,
`call`, `calls`, `poll`, `request`, `fetch`, `insert`). A queue is a sequence with the channel's capacity,
scaled down. Definitions named `X_Something` next to a definition `X` are mutants: what `X` would be with a
plausible mistake; no specification uses them. Variables marked "history" are not in the code; properties read
them, guards do not, except where they bound a count.

### Rollout

`rollout` and `assign` are the two tables. `CreateRollout` inserts a rollout with a row per agent and goes on, in the
same request, with `dispatch_pending_for_rollout` (`RollSelect`, then per row `RollSkip` or `RollSend`, then
`RollMark`). `RollCut` is its early end: the client leaves, or a statement fails and the handler logs "assignments
stay pending"; it can come between a `RollSend` and its `RollMark`, and then the frame is in the queue and the row
still pending. A transition reads the state (`BeginRequest`) and later writes it unconditionally (`FinishRequest`), or
is dropped before it does (`DropRequest`); an abort continues with `dispatch_aborts_for_rollout` (`AbortSelect`,
`AbortSend`, `AbortMark`, or `AbortCut`). `StreamAuth` authenticates a stream and correlates the reported version;
`StreamRegister` puts the session in the hub and spawns the catch-up dispatcher (`AgentSelect`, `AgentGet`,
`AgentSend`, `AgentMark`, or `CatchupFails`; it is not part of a request and cannot be dropped). The inbound loop
takes a Hello or a status, then counts and completes (`IngestHello`, `IngestStatus`, `CountInFlight`, `MarkCompleted`,
or `CompletionFails`), and ends late (`InboundEnd`) after a `Disconnect`. A statement of a stream that fails is logged
and passed over (`Attempt`). The agent answers from tasks it spawned per command (`ReportStart`, `ReportResult`,
`ReportAbort`), and its supervisor may restart it with another release (`Restart`). `PanelRestart` loses everything
but the tables. `Register` also correlates the version it is told (`agent_service.rs:131`); it is the statement that
`StreamAuth` runs at the stream that follows, and is modelled there only. Three histories say what a dispatcher left
behind on an agent's present connection: `skipped` (its queue was full), `cut` (the dispatcher ended before it came to
the row), `unmarked` (it ended between the frame and the row); a new connection empties them, because its own
dispatcher takes over what they name.

### Supervisor, SelfUpdate

`current`, `lkg`, `staging`, `failed` are `state.json`; `dirs` and `partial` are the directories; `window`,
`pending`, `inflight` are memory. `Launch` is the top of `run_loop`, with `apply_swap`; `Resolve` is what
follows the child's exit: confirm or roll back, record, prune; `Wake` ends the back-off. `HandleUpdate`,
`HandleAbort` and `ApplyResult` are the branches of `run_child`'s `select!`. `Staging(t)` is one task of
`stage_cancellable`. Time is one bit: the child has outlived the grace period or not.

`SelfUpdate` says what all this is for, in four variables: a host has a `home`; a release is put on `trial`;
a trial that `lived` past the grace period ends with the release as the new home (`Keep`), one that did not
with the old home (`Revert`); a restart of the supervisor forgets an open trial and takes the release for
home (`Forget`), which is what the code does. `SupervisorRefinement` instantiates it: the trial is `window`,
the home is `lkg` while a window is open and `current` otherwise.

### ProbeSync

`probe` and `override` are the tables; `set_override` is two actions (`BeginOverride`, `FinishOverride`) because it
reads the default before it writes. `sched` is `Scheduler::tick`: `SchedWake` lists the connected agents, `SchedFetch`
reads the probes, `SchedRead` takes the session and awaits the overrides, `SchedPush` sends the difference and records
it in `last`. On the agent, `Deliver` applies a frame to `active`; `Disconnect` starts a fresh scheduler and leaves
the old loops running (`detached`). Every endpoint writes, awaits the audit record and publishes last (`Publish`), so
a handler whose client leaves at that await has written and wakes nobody (`HandlerDropped`); `OverrideDropped` is the
same before the write, and `TickFails` a SELECT of the tick that fails. `unwoken` remembers that one of the first or
the last has happened since the scheduler was last woken, `synced` that the agent's present connection was sent a
Sync.

### Terminal

`ws` is the WebSocket handler from the cap check to its return, `slots` and `frames` the hub, `row` the table,
`inbound` the panel's loop inside `deliver_closed`, `mgr` the agent's `Manager`, `pty` the task of a session.
`pty[s].pc` says where the task is: waiting in its `select!` (`run`), inside the arm that flushes output and waits for
room upstream (`flush`: `PtyStall`, `PtyFlush`), inside the blocking `writer.write_all` of its input (`write`:
`PtyWrite`, `PtyWritten`; nothing makes a shell read, so it may stay there), out of the loop with a last flush to send
(`ending`, `PtyReap`), waiting for its reader thread (`reaped`, `PtyJoin`), reporting (`report`). In `flush` and
`write` no other arm is polled, the close channel included. `reader` is the reader thread: it ends (`ReaderEnds`) when
no process holds the pty's slave any more, which need not be when the shell ends. Inside the loop `PtyQuiet`,
`PtyTick`, `PtyTimeout` and `PtyClosed` are the timers and the close; the random choice of `select!` is
nondeterminism. `EofTicks` scales the ratio of the 200 ms wait to the flush tick.

### Recordings

One session's recording of `FileChunks` chunks, downloaded by several requests. `fetch` is the handler (`Open` looks
up the agent and takes the slot, `Ask` queues the request frame) and its body stream (`Poll`, `PollClosed`, `Hangup`);
`DropGuard` is `FetchGuard::drop`, which removes the session's slot whoever holds it. `serves` are the agent's
`serve_fetch` tasks, one per frame received (`SendChunk`, `SendEof`, `SendError`); `Deliver` is `deliver_chunk` on a
stream's inbound loop, which drops a chunk the channel has no room for (`holed`). The handler sets a Content-Length,
but `CompressionLayer` (`api/mod.rs:145`) lies over the whole router and takes it away from the answer to any client
that accepts an encoding, which every browser does. Only the clients in `Plain` are told the length and see a body of
another length end in an error; for all others a body that ends in order is whole. `Ended` is that comparison, made by
the HTTP stack outside the repository. `StreamDown` kills the tasks and truncates what is in flight.

### Identity

`entry` is the two token columns of `servers`; `calls` are `Register` handlers, each with its SELECT
(`RegisterSelect`), its UPDATE by id (`RegisterUpdate`) and its answer (`RegisterReply`). A host has a
configuration file (`conf`), a process (`proc`) and a stream (`online`): `Configure` writes the file, `Start`
reads it, `Call` and `Timeout` are the retry loop, `Save` the rename that clears the join token, `OpenStream`
the authentication by server token. `Stop` ends a process anywhere and `CallFails` a call anywhere.

### Accounts

`user` and `session` are the tables; `call` holds a program counter per request. `SetupSnapshot` and
`SetupInsert` are the two halves of an `INSERT ... WHERE NOT EXISTS` under Postgres's read committed
isolation: the snapshot is not a lock. `LoginSelect`, `LoginBurn` and `OpenSession` are login; `Authorise` starts
every other request with the user its cookie names; each further action is a statement. `Drop` is a failed
statement or a client that went away. `Held` says what a request has read and not yet used; `Writes` records a
fact another request was holding when it was written, and the properties except exactly those facts.

### Releases

`github` is the list of releases, each with the files uploaded so far: the workflow creates a release and then
uploads (`PublishRelease`, `Upload`). `PollStart` reads the settings, `PollList` the list, `PollSums` one
`SHA256SUMS` at a time, `PollWrite` writes both rows in a transaction. What a poll has still to read is a set
(`poll.left`) from which it takes the newest, which is the order of GitHub's list. `PickRelease`, `ChooseAgents` and
`InsertRollout` are `create_rollout` up to the rows with which `Rollout` begins. Of an asset only matters
whether its hash is known.

### Tiers, Metrics, Results

A tier maps the start of a bucket to the samples its row was computed from. `Rolled` is the one upsert that the six
roll-up statements are instances of, `MinutesFrom`, `MinutesTo`, `FivesFrom` and `HoursFrom` are their windows.
`Metrics` follows one series: `Sample` into the capped `buffer`, `Flush`, `Ingest`, then the four statements of
`tick_once` as actions of their own with batches arriving in between, ticks that come late (`Pass`), fail
(`TickFails`) or die with the panel. `Results` follows several probes: executions (a set, one permit of `Permits`
each), the bounded `queue`, batches, one INSERT per batch that a deleted probe's result fails (`IngestResults`), and
roll-up statements split into what they read and what they write (`RollRead`, `RollWrite`), because a deletion in
between makes the foreign key refuse them. Pruning is four independent DELETEs in the code and one action here.

### What is abstracted everywhere

Failing statements and dropped handlers are actions of the modules, wherever the code awaits and a property depends on
it. In Terminal alone the panel's statements succeed and its handlers run to their end unless the process restarts
(the WebSocket's task is spawned by the upgrade, and no client drops it). A blocked write to a pty also occupies one
of the runtime's worker threads; that it slows other tasks down is not modelled. Ids, tokens, URLs, contents and the
wording of messages are not modelled. Audit records and logs are left out. Servers are not deleted while a rollout or
a terminal session refers to them. The agent's stream loop can block on a slow metrics flush; that delays frames and
reorders nothing, so it is not modelled.

## 3. Runs

Bounds are the smallest at which the races of a property can happen, and each property has a mutant that the
run must catch. All bounds are constants of the modules.

| run | instance | shows |
|---|---|---|
| `rollout_reconnect` | 1 agent, 2 sessions, queues of 1, one abort, one failed statement or dropped request | types; the hub hands out the live session; between a create and a connect a pending row loses its dispatcher, and a queued frame its record, only to a dispatcher cut on the present connection; nothing takes a rollout out of aborted but a request that had already read |
| `rollout_fleet` | 2 agents, symmetric, one pause | completion never covers a row that was not shipped |
| `supervisor` | 1 release, 1 rollout, 2 tasks, 1 restart | types; the rollback target is proven; downloads stay cancellable; SelfUpdate is implemented; accepted updates are answered; staged releases are launched |
| `probes_assign` | 1 agent, 2 probes, 2 configurations, 2 connections, 2 handlers, 2 edits, 1 dropped handler or failed SELECT | types; `last_pushed` is what the queue adds up to; convergence of an agent that was sent a Sync, on either connection |
| `terminal_race` | 2 sessions of one user, 2 streams, 1 restart of either process, caps of 1, symmetric | types; rows, slots and recordings through every race of the two ends |
| `live` | Terminal with 1 session, 2 streams, 1 restart; Identity with 2 hosts, 1 server, 2 join tokens, 1 failure; Releases with 3 agents of 2 targets, 2 releases, 1 rollout, 1 outage | no shell outlives its browser unless its pty is stuck; a token is held by its host, a fresh join token stays, a registering host comes online; the sample is the share asked for and the cache settles |
| `services` | Recordings with 2 downloads of 2 chunks, one of them told the length, 2 streams; Metrics with 2 samples, buckets of 2, 4 and 8; Results with 2 probes, 2 results | a whole download is the file and a download ends; minutes are whole, fresh samples reach the hour, no row of a minute shrinks; a reported result is stored, no row outlives its probe |
| `accounts` | 2 users, 2 sessions, 2 requests at a time, symmetric | an admin remains, codes, sessions and secrets are those last given |

Two sessions are enough for the reconnect races because only the latest and one stale stream can disagree; two agents
are enough for completion because a row that is not the reporter's own is one row. A queue of one is full after one
frame, which is the case that matters. Version 0 is the installed binary, so one release already gives a rollback
somewhere to go, and two tasks overlap. Two downloads are one and the one that supersedes it; two chunks are the
fewest that can lose one and keep one. Two requests are enough for the races of Accounts because each is a read of one
and a write of another; two users are what it takes to have a last admin. Two hosts with one server are two
registrations with one token. In Metrics time runs past two roll-ups of one bucket and past the edge of the windows of
the minutes and of the five minutes; `TickGap` lets a tick be missed. One failure (`MaxFailures`, `MaxFaults`) is
enough for what a dropped request leaves, because a second one leaves the same to the next dispatcher or the next
wake-up; the theorems have no such bound. `StdinCap` of 1 lets input wait behind a write that blocks. One download in
`Plain` and one outside it are the two kinds of client. In Results the clock passes a minute, its window and the
retention of the raw rows while two breaks of different kinds compete. In Releases `RecentLimit` is 1, with two
releases, so a poll's list can be overtaken; that a longer cache is newest first is proved for any limit.

`MCLive` and `MCServices` are sums: a first state chooses a component, which runs while the other two rest in a
first state of their own. The components share no variable, so the behaviours are those of the three
specifications, one after the other, and one run of TLC checks them all. A resting component must owe
nothing for the fairness to be satisfiable: Terminal, Identity and Recordings at rest enable no step that their
fairness names, and the poller, which always can start, is asked to only where Releases runs.

### Fairness

`FairSpec` of each module asks weak fairness of what tokio runs by itself: a task that can take its next step
eventually does. A handler that has begun comes to an end, its own or the one that a client that leaves or a failed
statement gives it: fairness is on the disjunction, so that no publish, mark or answer is promised. Admins, browsers,
agents that connect, shells and processes that die owe nothing. Strong fairness appears where a task waits for
something that comes and goes. Two are arms of a `tokio::select!`, which polls its branches in random order: an arm
that keeps being ready is not passed over for ever (`HandleUpdate`, `HandleAbort` and `ApplyResult` in Supervisor;
`PtyClosed` and `PtyTimeout` in Terminal). One is a sender that waits for room in a tokio channel, which serves
waiting senders in order (`PtyFlush`, `PtyReap` and `PtyReport`).

Nothing is asked of `ReaderEnds` (any process the shell started may hold the pty for ever, and `reader_handle.await`,
`pty.rs:195`, waits for it) nor of `PtyWritten` (a shell that does not read keeps the blocking write of `pty.rs:139`),
except that a write to a pty that nobody holds fails. `BrowserGoneShellEnds` therefore has two provisos, which it
states: the shell of a browser that has gone ends if the pty does not block a write for ever, and its task ends with
it if the pty is not held for ever.

In Identity each host's retry loop and each of its handlers is fair by itself:
a call of one host does not run at the expense of another's. `CacheSettles` needs no more than the poller's
timer, because polls that fail are bounded by `MaxOutages` and edits of the repository by their own bounds:
it says what holds once they are over. `FetchEnds` excepts downloads whose stream died or whose final frame was
dropped by a full channel (`stranded`), for which the code has no timeout.

### Divergences

Four runs expect a violation; each shows a disagreement between the code and a statement of the repository.

* `rollout_completes`: `docs/release-process.md:105-109` says a rollout whose assignments are all terminal
  becomes completed. A row made terminal by the version correlation is not followed by the check.
* `supervisor_spawn`: `agent-supervisor/src/main.rs:8` and `:62` promise a rollback inside the grace window. A
  binary that cannot be spawned never reaches the code that rolls back.
* `probes_resync`: `agent/src/stream.rs:131-133` relies on a Sync after each reconnect. The panel compares with
  what it pushed to the previous session and sends none.
* `terminal_refused`: `agent/src/terminal/mod.rs:12-14` caps active sessions. Sessions whose shell exited
  still count.

Eleven properties of the modules state a sentence that the code does not keep and that no run lists; TLC refutes
each when its name is added to the configuration of the run in brackets, and the property that is checked
in its place names what has to be excepted:

* `NothingShipsAfterAbort` (`rollout_reconnect`): `docs/release-process.md:82-85` promises that no `UpdateAgent` is issued
  after an abort. A dispatcher that has read its rows keeps sending.
* `AbortsAreTerminal` (`rollout_reconnect`, with `Requests = {"pause", "abort"}` and `MaxRequests = 2`): "Aborts are
  terminal" (`docs/release-process.md:82-83`). A transition checks the state it has read and writes by id, so a pause
  that read first turns an aborted rollout into a paused one, which a resume makes active again. `AbortedIsFinal`
  carries exactly this exception.
* `KnownGoodProvedStable` (`supervisor`): `last_known_good` is the "most recent version that proved stable in its
  grace window" (`agent-supervisor/src/main.rs:60-61`). The window is a local of `run_loop` (`main.rs:312`): a
  supervisor that restarts inside it forgets it, and the next swap records whatever is current. `KnownGoodIsProven` is
  stated up to the first restart for that reason, and `SelfUpdate` has the restart as `Forget`.
* `EditsArrive` (`probes_assign`): anyone who mutates probe state "calls `bus.publish()`", so that each agent runs
  what it should "*right now*" (`panel/src/probes/scheduler.rs:3-4`, `:10-12`). A handler dropped at the audit record
  between its write and its publish (`api/probes.rs:131-141`, `232-242`, `267-277`, `436-446`) wakes nobody, and a
  connected agent keeps the old probes until something else does.
* `StreamGoneShellEnds` (`live`): shells are closed with the stream "so child processes don't outlive their bridge"
  (`agent/src/terminal/mod.rs:152-153`). A task inside the blocking write of `pty.rs:139` does not look at its close
  channel.
* `ExitedShellEndsLoop` (`live`): "give the child a moment to exit, then break" (`pty.rs:171-172`). The 200 ms sleep
  is created anew by every flush tick, so the loop of a shell that has exited may go on for ever.
* `NoSilentSuccess` (`services`): errors truncate the body "so the client sees an incomplete download rather than a
  silent success" (`panel/src/api/terminals.rs:199-201`). A chunk that `deliver_chunk` drops
  (`terminal/recordings.rs:77`) is missing from a body that ends in order, and without the length that compression
  removes nobody can tell.
* `AdminRemains` (`accounts`): "Never leave the panel admin-less" (`panel/src/api/users.rs:135`). The COUNT and
  the DELETE are two statements, and two admins who delete each other both pass the count.
* `FreshJoinStays` (`live`): rotation "is what makes the registration RPC accept the next agent"
  (`panel/src/api/servers.rs:611-613`). A `Register` that had read the row before the rotation writes it by id, and
  the fresh join token is gone.
* `NewerFetchKeepsSlot` (`services`): "a second request supersedes the first" (`panel/src/terminal/recordings.rs:12-14`).
  The first one's guard then removes the second one's slot, and that download is cut off too.
* `FiveMinuteRowsOnlyGrow` (`services`): a later pass is "a no-op on the already-aggregated row and a refinement
  on still-growing ones" (`panel/src/metrics/rollup.rs:13-16`). The windows of 30 minutes and of 6 hours are not cut to
  their buckets, so the bucket at their edge is computed from its last rows alone and overwrites the whole one.

Other disagreements came up while modelling and are part of what the modules do:

* A create request that is dropped or whose statement fails leaves rows nobody ships before the agent's next stream, and a
  frame it had queued is shipped again by that stream's dispatcher (`cut`, `unmarked` in Rollout).
* Releases are tagged `vX.Y.Z` (`.github/workflows/release.yml:5`) and agents report `CARGO_PKG_VERSION`
  (`common/src/version.rs:4`), so the comparison in `mark_assignments_for_version` fails for such tags. The
  runs use tags without the prefix, so that rows do succeed.
* A status frame writes its row whatever the row's state is (`agent_service.rs:407-412`).
* A resume dispatches nothing: rows of agents that stay connected wait for their next stream.
* `prune_old_versions` can remove a release that was staged but not launched when it sorts before the others
  (`main.rs:439-461`), and the supervisor then launches the installed binary.
* After an Abort, a new Update of the same rollout can lose its in-flight slot to the late result of the first
  (`main.rs:612-618`, which says the new one wins).
* `probe_agent_overrides` may hold rows equal to the default (`migrations/20260425000000_probes.sql:47-50`
  says never): changing `default_enabled` does not touch them.
* The probe loops of earlier connections keep running (`agent/src/probes/scheduler.rs:7`).
* The per-user terminal cap is checked before the upgrade and the slot inserted after it
  (`terminal_ws.rs:59`, `hub.rs:112`).
* Two downloads of one recording may mix: frames name the session, so chunks asked for by the first reach the
  second (`shared` in Recordings excepts them). A download whose stream dies after the request was queued waits for ever.
* Two first-run setups with different names both succeed when neither sees the other's row:
  `INSERT ... WHERE NOT EXISTS` is not "a single atomic statement" under read committed (`api/setup.rs:11-14`).
* Rotating a server's token or deleting the server does not end the stream it has open.
* The comments above the roll-up statements say 2 minutes, 10 minutes and 2 hours; the statements say 5 minutes,
  30 minutes and 6 hours (`metrics/rollup.rs`). The mutant `MinutesFrom_Short` is the comment.
* Averages of a tier are unweighted averages of the finer tier's rows, `success_rate` included.
* A release that is polled while its files are being uploaded, or whose `SHA256SUMS` could not be read, is cached
  with empty hashes (`poller.rs:157-170`), and a rollout created from it fails on every agent. `CacheSettles` says a
  later poll corrects the cache, not the rollout.
* `create_rollout` samples before it looks for artefacts, so an agent without one uses up a place of the sample:
  `docs/release-process.md` speaks of a row per chosen agent (`SampleIsTheShare` carries the exception).

## 4. Proofs

TLAPS proves the following for every value of the constants that satisfies the modules' assumptions, each named after
its module (`RolloutAssumption` to `ReleasesAssumption`): capacities and bounds are natural numbers and where the code
needs it not zero, model values are distinct, users and the fleet are finite, every rollout ships a release,
percentages are 1 to 100. `TiersAssumption`, `MetricsAssumption` and `ResultsAssumption` say of the windows what the
code's constants satisfy: buckets nest, two roll-ups are no further apart than the window of the minutes is long
(without it a minute can be missed), and raw rows are kept at least a minute longer than that window. With them every
invariant and action property that a passing run checks, and the refinement, is a theorem; what is left to TLC is
liveness.

Each proof module has the same course: facts about data (records, sequences, finite sets) stated once without
variables, the types, then for each property its inductive invariant, one lemma per conjunct, one step per
action that can disturb it.

### Rollout

* `TypeCorrect`, `Spec => []TypeOK` of Rollout. `TypeOK` is inductive: one lemma per way a step writes the
  queues (`TrySendOK`, `SayOK`, `LostUpOK`), then one step per action in `NextTypeOK`.
* `LiveSessionRegistered`. Inductive given `TypeOK`: only four actions write the session variables, and
  `remove_if_matches` removes a session only if it is the registered one, which a live one is not for an older
  stream.
* `NeverCompletedUnshipped`. `NoPendingWhenCompleted` is not inductive: the UPDATE that completes a rollout runs
  a step after the COUNT that justified it. `CompletionSafe` adds that a loop about to complete a rollout counted
  one with no pending row (`CompleteAfterCount`), and that row stays shipped because only `CreateRollout` makes a
  row pending (`ShippedStays`). For that, everything a task, a queue or a loop carries must name a rollout that
  was created before: `Known`, with one lemma per variable (`TasksKnownStep` to `LoopKnownStep`).
* `AbortsAreFinal`. An action property of two writers: a transition, excepted when its read was before the abort,
  and `Completed`, whose UPDATE names the state it expects.
* `QueuedFramesRecorded`. `QueuedIsRecorded` speaks of frames of which a dispatcher has not written `sent` yet, so
  `QueuedOK` needs that a dispatcher's promise cannot go away before it is kept or recorded as broken: a task holds at
  most one row between its `try_send` and its UPDATE, a task that a stream spawns starts with nothing (`TaskShape`),
  and one that is dropped or fails there puts the row among the `unmarked` if the frame went to the connection that is
  up. A frame queued to an older connection is gone with it.
* `PendingRowsCovered`. `DispatchCovers` is the missed wake-up. It needs that the dispatcher of an agent's current
  stream sends to the current session (`AddressedOK`: it looked the session up after registering), and that
  what is or was about to be resumed has been paused (`PausesKnown`), because a resume dispatches nothing. Each early end of
  a dispatcher must account for every row it had ahead of it; what it leaves to an agent that is not connected is taken by
  the SELECT of the stream that follows.

The histories of these two are not a way out of them: an agent's entries go when its connection does (`Forgotten`), so
a row that a dropped request left behind is again one that must be covered, and recorded, from the next connection on.

### Supervisor

* `SupervisorTypeCorrect`. `TypeOK` needs `TaskShape` (a started task has one rollout) and `ResultsDone` (a
  result in the channel is that of a task that has ended, sent once).
* `DownloadsStayCancellable`. Follows each way the in-flight slot is replaced or cleared: the old owner's cancel
  channel fires in the same step, or the owner has ended.
* `KnownGoodWithoutRestart`. A swap records `current` as last known good, so `SwapInv` says when that is safe:
  `current` is proven whenever no window is open or the child has outlived its grace period, and no swap is
  pending at the top of the loop while a window is open. It is stated up to the first restart, because a restart
  forgets the window.
* `SupervisorImplementsSelfUpdate`. Under the mapping of `SupervisorRefinement` the initial states map to initial
  states and every step to a step of `SelfUpdate` or a stutter. The types alone do not give it: `TrialInv`
  says that the version on trial is the current one, that a swap pending at the top of the loop finds no trial
  open, and that nothing has been outlived there. Steps of the staging tasks, requests and exits leave the
  mapped variables alone (`QuietFrame`); one step per remaining action follows.
### Accounts

* `AccountsTyped`. `AccountsTypeOK` becomes inductive with the shape of a request (`CallShape`: it has a user,
  one past its first read a user whose row was there) and of a session (`SessionShape`). Every statement but the
  deletion of a user is `Calm`: no row goes, other requests stand still, what is recorded as raced stays.
  The other theorems about Accounts treat the calm statements as one where they can.
* `AdminStays`. `AdminRemainsUnraced` is not inductive: the DELETE runs a step after the COUNT that allowed it.
  `DeleteHolds` adds that between them another administrator than the one to go is there, or a deletion has
  raced; it starts from the COUNT by `EnoughLeaves` (finite cardinality) and ends in `AdminDeletion`.
* `SessionsFollow`. `LoginCarries` adds what a login holds between its SELECT and the session it opens: the
  password its user has, or had when a write raced it (`FollowWrite`).
* `GeneratorConfirmed`, `CodesShown`. The same for the secret a confirm has read (`EnableHolds`) and the list of
  codes a login has read (`BurnHolds`): the value read is the row's until a write that `raced` records.

Together these four say that the only ways the account properties fail are the ones `raced` and `lapsed` name:
read committed statements without a transaction around them, and a handler dropped between two statements.

### ProbeSync

* `TypeCorrect`. `TypeOK` and that every row the scheduler is about to push is one that exists (`SchedOK`).
* `LastPushedTold`. What the panel believes is compared with what the agent will run when it has read its queue: a
  fold over the frames, on every connection that was sent a Sync. `Course(a, run)` says of a sequence of tables that
  each follows from the one before by the frame at that place; `Led` that one of them leads from what the agent runs
  to `last`. A frame that is taken cuts the course at its start, one that is pushed extends it. `Standing` carries it
  over sessions: an agent that is not connected runs nothing, and the scheduler pushes only to a session there has
  been.

### Terminal

* `TypeCorrect`. `TypeOK`, and that a stream that is up has a number.
* `SlotsBridged`, `SealedAtTheEnd`. Neither is inductive. `Fresh` says that before the frame that opens a session
  nothing names it: no slot, no frame in either direction, no task, no closed row. `ToldLast` says
  that a loop about to tell the bridge, or a bridge that has been told, comes after the slot was taken out and the row
  was closed. With both, every order of the two ends leaves slot and row as the properties say.
* `RecordingsKept`. A report's place (`ReportAt`) is a position in a stream or the hands of that stream's loop; `Kept`
  follows it from the pty task to the row, or to a stream that dies with it.
* `FirstReasonStays`. The write by the browser's end is guarded by the row's state, the one by the agent's report is
  not: it fills in whatever column is empty. A row that is closed without a reason could be given one late, by a
  second report. There is none: a session is opened once (`OneOpen`) and reported once (`OneReport`), and
  only a report closes a row without a reason.

### Recordings

* `RecordingsTypeCorrect`, the types of the downloads, channels and streams.
* `WholeDownloads`. A client that is told the length compares only that: a body of the right length must be the file,
  although chunks are dropped. `Steady` says that the n-th chunk received is the file's n-th or a later one, and that
  where some were skipped the last is as many ahead: a body of full length has then skipped none. It holds because
  what is still on the way rises and comes after what has been received (`Rising`, `Leads`), which needs that a
  download that has shared nothing is alone: the request, the task or the frames in flight are its own, on its own
  stream (`Alone`). `Holder` ties the slot to a handler that is still there. For a client that is told nothing the end
  of the file must do: `Dense` says that what a download that lost nothing has received, with what is still on the way
  to it, goes on without a gap from the first chunk to the last, so that the final frame comes only after the whole
  file.

### Registration

* `IdentityTypeCorrect`. Tokens are counters, so every token anywhere is at most the last one issued; a process
  that registers has a join token, a call that has written its row has a server token. `Waiting` adds that of the calls of
  a host at most one is waited for.
* `TokensAreHeld`. A server token passes from the call to the process to the file; each hand-over either reaches the
  next or is counted `astray`.
* `FreshJoinsStay`. `RowsTruly` says that a row has the join token that was generated for it, `SelectedTruly` that
  a call that has read a row finds it as it was, or the row is among the `raced`.

### Releases

* `ReleasesTypeCorrect`. The order of the cache is that of GitHub's list (`GithubOK`), kept through a poll during which
  releases are published: what is left to read is older than what has been read, and the two together are no more than
  were listed (`PollOK`).
* `SamplesAreShares`. `TakeFacts` is the arithmetic: the share is the least whole number of agents that is
  at least the percentage, between one and all. `RequestOK` carries it from the sample to the insert.
* `LiveTypeCorrect`. The two components side by side, as the run `live` composes them.

### Roll-ups and probe results

* Lemmas about `Tiers`: a bucket is the greatest multiple at or below its argument; the window of the minutes is whole
  minutes, none of them older than the raw rows; `Rolled` keeps what lies outside its window.
* `MinutesOnlyGrow`. A pass overwrites, so it takes nothing back only if the raw tier still has whatever the row was
  computed from: `MinutesRooted` (a minute's samples are raw rows, or older than the oldest that is kept).
* `WholeMinutesKept`. `Punctual` bounds the gap since the last roll-up, `Inserted` says that a sample in time is in
  the raw tier, and `Due` that it is covered or the next roll-up, however late, still reads its minute.
* `FreshRises`. `Risen` says how far each statement of the running tick has taken what the tick has read.
* `ReportedStored`. Inductive together with the types, which say that queue and batches hold only what was reported.
* `ResultMinutesKept`. A roll-up statement is two steps here, so that the rows are rooted (`RowsRooted`) is not enough:
  what a statement has read must contain the rows it will replace (`WritesMore`), which batches and
  deletions between the two steps leave true.
* `MetricsTypeCorrect`, `ResultsTypeCorrect`, and `ServicesTypeCorrect` for the three components that the run
  `services` composes.

### What is only model-checked

* Liveness under fairness: `Converges`, `UpdatesAreAnswered`, `StagedIsLaunched`, `BrowserGoneShellEnds`,
  `ServerComesOnline`, `CacheSettles`, `FetchEnds`. The prover has no rules for `ENABLED`.
* The properties of the four runs that expect a violation, and those listed in section 3 that no run lists.

## 5. Plan

1. Done: the modules above with their runs; the proofs of every safety property; the refinement of SelfUpdate.
2. Abstract specifications still worth stating, and proving the modules against: `Bridge` (open, both ends,
   closed) implemented by `Terminal`; a composition of Rollout's agent with Supervisor over the IPC requests.
3. What the hazards without a property ask for: the terminal cap under concurrent opens, frames lost with a
   stream, `prune_old_versions`.

## 6. Not modelled

* The live bus to browsers (`live.rs`, `api/ws.rs`): a tokio broadcast whose lagging receivers skip; it keeps no state
  that anything else reads.
* The measurements behind a probe result (`probes/{http,icmp,tcp}.rs`), host facts, TLS, endpoint parsing: I/O.
* Settings, groups, the audit log, the captcha, the installer and static files: single-statement CRUD and file
  serving with no ordering to check. Renaming and regrouping servers likewise.
* The frontend, the deployment scripts and xtask: clients of the API and packaging. What a browser can do is
  the environment of the modules.
* Read-only queries (lists, charts, summaries) in every API module: they change nothing.
