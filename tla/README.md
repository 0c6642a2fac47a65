# TLA+ models of Cerebra's server and daemon

Cerebra runs AI coding agents on users' machines. A Go server (`server/`) keeps
issues, chats, agents and a *task queue* in PostgreSQL; a *daemon* on each
machine polls the server for tasks, runs the agent's tool, and reports back.
Several server instances share one database and one Redis, so everything that
must happen once (a scheduled job, an agent run, a channel connection, an inbound
message) is coordinated through rows, keys and their conditional updates. This
directory models that coordination in TLA+, checks the models with TLC, and
proves the central properties with TLAPS.

## Inventory

| Component | State | Operations | What is hard | What makes it correct | Module |
|---|---|---|---|---|---|
| **Cron scheduler** `internal/scheduler` | `sys_cron_executions`: a row per (job, scope, plan_time) with status, attempt, token, `stale_after`, `next_retry_at`; per instance the tick in progress | tick, sweep, plan, claim, heartbeat, finish | a tick's clock is stale when used, holders that outlive their lease, crashes, lost answers | one holder per plan, only the holder finishes it, leases and backoffs respected, nothing owed skipped | `CronPlanner`, `CronScheduler`, `PlannerCheck` |
| **Task queue** `internal/service/task.go`, `pkg/db/queries/agent.sql` | `agent_task_queue` rows | enqueue, promote, claim, reclaim, finalize, requeue, start, wait, complete, fail, retry, sweep, recover, cancel, rerun | concurrent claims, second deliveries, late reports, snapshots stale when written | capacity and one task per subject, terminal rows stay, one execution per row, one retry per failure, every task ends | `TaskQueue`, `TaskSlots` |
| **Comment routing and coverage** `internal/handler/comment.go`, `handler/daemon.go` | comments, the plan and the receipt of each run | route, merge, register, defer, enqueue, delete, repair, reconcile, hand on | each statement alone, against claims, completions and pushes | a comment answered with a success is read by a run | `CommentCoverage` |
| **Runtime liveness, sweepers** `cmd/server/runtime_sweeper.go` | runtime status, `last_seen_at` | mark offline, fail stale, offline and expired tasks | a runtime that returns while it is swept | in the task queue | `TaskQueue` |
| **Daemon execution** `internal/daemon/daemon.go`, `auto_update.go` | slots, poller, tasks, update barrier | take slots, claim, dispatch, wake, pause, drain, update, restart | goroutines that share slots, an update racing a claim | no slot lost, no update while there is work, backlog is asked for, barriers are lifted | `Daemon` |
| **Workspaces** `daemon.go`, `local_directory.go`, `gc.go` | directory mutexes, execution roots' reference counts, deletions | lock, wait, abandon, mark, run, unmark, collect | a wait abandoned while it is granted, collection of a root in use | one task per directory, live roots stay, tasks end | `Workspace` |
| **Claims over the WebSocket** `daemon/wsrpc.go`, `wakeup.go`, `daemonws/hub.go` | connection generation, pending calls, fallback window | connect, ack, send, answer, give up, claim over HTTP | a frame sent and never answered | no second claim beside one that may still commit | `ClaimTransport` |
| **Empty-claim cache** `service/empty_claim_cache.go` | verdict and version in Redis | mark, bump, test | a verdict written after an enqueue | a queued task is not hidden | `EmptyClaim` |
| **Reclaim-check cache** `service/reclaim_check_cache.go` | hints and a backstop stamp in Redis | schedule, due, mark checked | clocks that differ, lost writes | a stale row is looked for in time | `ReclaimCheck` |
| **Channel engine** `integrations/channel/engine` | lease keys, supervisors; dedup claims, batches | acquire, renew, release, rotate; claim, append, mark, schedule, flush, drain | lost and late answers, rotation, crash; redelivery, timers | one connection per installation, and one again and again; a message handled once, a run for it | `ChannelLease`, `ChannelInbound` |
| **Realtime fan-out** `realtime` | hub rooms, Redis streams | publish, relay, prune | duplicated relays, slow clients | every subscriber sees an event once | - |
| **Autopilots, quotas** `service/autopilot*.go`, `pkg/db/queries/autopilot*.sql` | runs, quota reservations and period counters, the callers' rows, tasks or issues | take, look up, admit, dispatch, repair, recover, settle, delete, reconcile | an attempt that dies between two statements, a task that ends before its run knows it, lost ends, overtaken workers | an occasion is worked on once, the quota is kept, done work is charged, slots settle | `AutopilotDispatch` |
| **Chat finalization, quick actions** | chat turns, deferred finalizations | finish, finalize, reconcile | late completions | one outcome per turn | - |
| **Repository cache** `daemon/repocache` | clones, worktrees | fetch, check out, maintain | Git and the file system | - | - |
| **The rest** (HTTP API, auth, integrations, storage, metrics, front ends) | CRUD tables | requests | none of its own | - | - |

Paths are below `server/`. Interaction: the scheduler's autopilot job calls the autopilot
service, which enqueues tasks, as comments, chat messages and inbound channel messages do.
Enqueueing bumps the empty-claim cache and sends a wakeup to the daemon over WebSocket, a
hint only. The daemon's poller claims for its free slots over HTTP or the WebSocket; the
handler consults both caches, builds the response and finalizes the claim with the receipt
of the comments it embedded. Each task then runs in a goroutine of its own, in a directory
and execution roots it shares with others. Reports, sweeps and users change rows by
conditional UPDATEs; a completed run replays the comments it did not read.

## Plan

1. `CronPlanner`, `CronScheduler` and their proofs. **Done.**
2. `TaskQueue` refining `TaskSlots`, and `TaskQueueProofs`. **Done.**
3. `EmptyClaim`, `ReclaimCheck` and `CacheProofs`. **Done.**
4. `ChannelLease`, `ChannelInbound` and `ChannelProofs`. **Done.**
5. `Daemon`, `Workspace` and `DaemonProofs`; `ClaimTransport` and its proofs. **Done.**
6. `CommentCoverage` and its proofs. **Done**, but for edits.
7. `AutopilotDispatch` and its proofs. **Done**, but for rate limits, replays and period boundaries.
8. `RealtimeRelay`: stream relay, sharding, retention, hub delivery.
9. Chat finalization and turn order; agent status and issue reset; delegated failure
   recovery.

Theorems still worth proving: every invariant and every action property that a passing run checks
has one. Next come `latest_only` against a reference of its own, facts about rows that `TaskQueue`
keeps but no run asks for (a retry's attempt is its parent's plus one), and the modules of steps 8
and 9 when they exist.

## Modules

### CronPlanner, CronScheduler

`CronPlanner` is the planning arithmetic: `FloorPlan`, `retryDelay`,
`RetryEligible`, and `plansForTick` with its three planners (`latest_only`,
`every_plan`, the autopilot hook). Times are naturals; `NoTime` stands for NULL.

`CronScheduler` is one job and one scope (rows of different jobs or scopes never
meet). `row[p]` is the execution row of plan time `p`; `run[r]` is where the
goroutine of instance `r` stands in `RunOnce` → `runJob` → `processPlan` →
`runClaimed`. Each SQL statement is an action, in the code's order: dbNow
(`StartTick`), sweep, plan, claim insert, claim steal, heartbeat, dbNow after the
handler (`HandlerReturns`), terminal UPDATE (`Finish`). A tick keeps the clock it
read at its start; that clock decides staleness, claims, and the lease a claim
takes, while heartbeats and `finish` use the present one. `lease_token` is a uuid;
since a claim also raises `attempt`, the token of a row is written as the attempt
that claimed it, and a handler remembers both. `DBFaults` names the statements that
may fail, a claim also by committing and losing its answer. The clock may move between any
two statements: a tick reads it once and then runs the handlers of other jobs, scopes and plans
inline (`manager.go:124-136`, the rollup's for up to 25 minutes), so a claim may take a lease
that is nearly over, or over, when it begins; and heartbeats may come at any time or never. Two
histories name what a property must except: `late` (the claim left less than a heartbeat
interval of its lease, or a heartbeat or the terminal UPDATE was overdue when time passed), and
`gaveUp` (plan_times whose claim failed in this tick, or which precede the first row of the scope).

Bounds: `MaxTime` (clock), `MaxCrashes`. Abstracted: the handler is a nondeterministic
success or failure; `runner_id`, results and durations are left out; the scheduler's
many jobs are one, chosen by `Mode`.

### TaskQueue, TaskSlots

`TaskQueue` is the table of one runtime: `task[i]` is a row, in order of creation.
`poll[h]` is a claim request of the daemon in a server handler, stepping through
cancel-superseded, promotion (snapshot, then write), reclaim or claim, response.
`copy[i][c]` is what the daemon does with the delivery of the `c`-th claim of row `i`
(the claim number stands for `dispatched_at`, which the code compares).
`failed` and `started` are statements a server process still owes after an earlier one
(`HandleFailedTasks` after a sweep, the withdrawal of fallbacks after `StartTask`), so a
server crash loses them. `HandleFailedTasks` works on the rows as the sweep's `RETURNING` clause gave
them, so `failed` holds rows and not only their ids: by the time it comes to one, a promotion may
have written the table again. `rerun` is the manual rerun between its two transactions.

Clock comparisons that only delay a step (prepare lease, recovery window, queue TTL) may
come true at any time. The daemon's lease extensions therefore do not appear: a lapsed
lease is one whose extensions did not arrive. `fire_at` is the field `due`.

Failure reasons are four classes: `fatal` (no retry), `transient` (retried at once),
`network` (three attempts, the last one deferred), `offline` (deferred until the runtime
is healthy). A batch claim (`ClaimTasksForRuntimes`) runs the same statements and is
modelled as several requests.

`TaskSlots` is the abstract specification: tasks are taken one at a time, each only when
its agent has a free slot and no other task of the same subject, and dropped at will.
`Slots == INSTANCE TaskSlots` maps `held` to the rows that are dispatched, running or
waiting for a directory; the property `SlotsHonored == Slots!Spec` is the refinement.

Bounds: `MaxRows`, `MaxClaims` per row, `MaxAsked` rows made by users (so that room for
retries remains), `MaxMishaps` faults. `Mishaps` and `Requests` name which kinds of fault
and of user action a run allows. Not modelled here: comment coalescing
and `head_sha` (see `CommentCoverage`), channel media rows, autopilot tasks (never retried), quick-create serialization, priorities other
than "chat retries first", agent status, issue status, chat texts, several runtimes.

### EmptyClaim

`EmptyClaim` is the cache of "nothing is queued" verdicts of one runtime
(`empty_claim_cache.go`) between the statements that queue tasks and the claim requests.
`version` and `verdict` are the two Redis keys; a missing version key reads as 0, so it is
written 0. `owed` counts committed changes (enqueue, requeue, end of a task) whose
`notifyRuntimeMayHaveWork` has not run yet. `poll[h]` is a claim request from `IsEmpty` on:
sample the version, list the candidates, mark or claim, one Redis call or statement per
action. `told` is a history variable: the queued tasks since whose commit a Bump arrived.
Any call may fail (`Mishap`), with the answer the code falls back to.

Both keys expire. `VersionExpires` waits until no verdict and no sampled version is left,
because its 24 hours are renewed by every sample and every Bump, while a verdict lives three
minutes and a request less. Eviction of keys by Redis is not modelled. A listed task is
assumed claimable in the end; whether its agent has capacity is `TaskQueue`'s matter, so the
two modules share the claim and are not composed: neither reads the other's state.

### Daemon

`Daemon` is one daemon process: the batch poller, a goroutine per task, `handleUpdate`
goroutines and the auto-update loop. `sem` is the slot semaphore; `poller.grip` the slots
the poller holds for a claim; `inTask` those whose `handleTask` runs. A task leaves in three
steps (slot back, wakeup, `activeTasks`), as the deferred calls of the code do. `pauseClaims`
and `claimsInFlight` are guarded by one mutex, so a critical section is an action; `updating`
is the compare-and-swap flag. An update pauses claims and waits for claims in flight and
active tasks to drain (`handleUpdate`), or looks once and sets the barrier only when idle (the
loop). The wakeup channel has capacity one; a wakeup may be lost, a claim may fail or return
fewer tasks than slots. The legacy poller per runtime is left out.

### Workspace

`Workspace` follows one task from `TryLock` to `Leaves`: the mutex of a user's directory (a
goroutine waits in `mu.Lock`, its task may abandon it when the user cancels), the marks on its
own and its resumed execution root, made twice (by `handleTask` and around the agent), the
agent, the report, the collector's metadata. The collector decides without a lock, reserves
under it, removes. The guards of persistent stores follow the same protocol and are left out.

### ClaimTransport

`ClaimTransport` is the path of the poller's batch claim. A connection has a generation;
`rpc` is the client's view of it, `link` what the connection is. A frame is queued, sent,
running on the server, then committed or refused; the server refuses one whose budget is over.
The caller waits for the budget and a grace, then decides: a call that was never sent falls
back to HTTP at once, one that may be executed sets `retryAfter` and HTTP waits for it. Time
is a clock. A sent frame takes any time, or is lost: `beginWrite` marks it sent before a
`WriteMessage` that may block for ten seconds (`wakeup.go:262-266`), five times the grace. It is an
`orphan` once its caller gave up, and `Late` once the grace has passed since; a late
one may still be executed (state `late`), beside the claim made over HTTP. `OneClaimAlive` covers
every other frame.

### ChannelLease

`ChannelLease` is the supervisors of one installation on all replicas and its lease key. `sup[g]`
is the goroutine with token `g`; `entry[n]` the map entry of node `n`; `sweep[n]` its sweep, between
listing the installation and acting on it. Redis commands (SET NX, the renewing and releasing
scripts) run when sent and are answered later; a caller may give up on an acquisition or
release that then runs late (`late`). Rotation of credentials cancels the supervisor, a crash
forgets it, a partition loses calls. *Assumed*: `Teardown < Margin` (a cancelled connection is
closed within the safety margin), `MaxCall <= TTL - Margin`, and that a release given up on runs
before the same supervisor acquires again. `Config.Validate` checks the margin against the
TTL and the renewal, not the first of these; without it two replicas are connected for the difference.

### ChannelInbound

`ChannelInbound` is one chat session: deliveries of messages run concurrently through claim,
filter, append and mark, `/issue` or the batcher. A claim is 60 seconds fresh (`old` afterwards);
its token is the delivery. `pendingGen` is the session's armed window and `firing` the timer
callbacks that have started: a stopped timer may fire nevertheless, and the generation tells
them apart. `covered` and `forgiven` are history: messages a run was enqueued for, and
those whose trigger a crash or a failed enqueue lost, which the code accepts. Media, replies
and sender authorization are left out.

### ReclaimCheck

`ReclaimCheck` is the cache of one runtime and its callers. Durations count in true time; each
server's clock is `Skew` ahead. A claim request asks whether the runtime is due (`Ask`), queries
PostgreSQL (`Query`), marks it checked (`Mark`); `Dispatch` and `Extend` schedule hints. Every
Redis call may fail and the keys may be lost.

### CommentCoverage

`CommentCoverage` is one issue and one agent, with every statement an action: posting a comment
(`PostComment`), finding whether a task is pending, merging into the queued one, registering
on a claimed one, deferring, enqueueing; claim, receipt, start, completion and what follows
it; deleting a comment. `resolver[w]` is a worker that resolves comments one at a time: the
request that posted one, the completion of a row, or a deletion. A run has a trigger, a
`plan` (trigger and `coalesced_comment_ids`), and the comments `delivered` to it. The pull
request's head moves, and a task is for the head it was stamped with. Three histories: comments
`answered` by a completed run, `excused` (their run failed or was cancelled, or a replay was
refused: the code gives these up and says so), and `unfounded` (see Findings). Comments that
were only in the window of a run that fails or is cancelled are `excused` too: only planned
ones are handed to a retry or replayed. A retry is queued, unless another task holds the slot,
or deferred (`agent.sql:597`): such a row holds no slot, takes no comment, and is promoted when the
slot is free (`PromoteRun`). When another task is active first, it is cancelled and nothing replays its
plan (`DropSuperseded`, `task.go:3594-3618`), so its comments are `excused` as well: `KeptUnlessUnfounded` does not
promise that they are read. `fire_at` may pass at any time. Left out: edits, attribution, the
fallback assignee.

### AutopilotDispatch

`AutopilotDispatch` is the autopilots of one workspace within one quota period. An *occasion* is
a plan of the scheduler, a webhook delivery or the idempotency key of a "run now" request.
`proc[d]` is a goroutine that serves one: it looks for the run of an earlier attempt, admits a new
one (which reserves a slot), dispatches it as an item of work, links the two, and reports to
its caller; each statement or transaction is an action. `run[r].anchored` says whether the
run still holds its unique index (recovery clears `planned_at`), `run[r].link` is its
`issue_id` or `task_id`. `slot`, `held` and `used` are the reservations and the two counters of
the period. `work[w]` is a task (mode `run_only`) or an issue, `bare` until it has a task
(`create_issue`); its end is published as `news` and heard later, or lost (`unheard`).
`todo`, `tries` and `owner` are the caller's row: the scheduler's execution, the delivery. A click
has none, and is sent again only by its client. `overtaken` is history: plans and deliveries whose
lease was lost while their dispatcher still works, and may be taken by another. A delivery's ends
after two minutes; a plan's counts from its tick's clock and may end before the first heartbeat
(see `CronScheduler`).

Bounds: `Scenarios` (which occasions arise together, the limit, how many accidents: deaths,
errors, lost leases, lost ends), `AttemptLimit`, `MaxRuns`, `MaxWork`. Left out: rate limits, replays
of deliveries, a gate that only observes or is off, period boundaries, the pause after repeated
failures, subscribers, attribution, templates.

### PlannerCheck, MCSafetyParts, MCLiveParts, MCQueueParts

`PlannerCheck` compares the planners with set-based references, a state per input; `PlannerSpec` is these
inputs as a specification that the proofs can name.
`MCSafetyParts`, `MCLiveParts` and `MCQueueParts` check several components in one run. The components share
no state: `part` picks one at the start, that one moves and the others stay as they
begin, so the state space is the sum of theirs. Each has its own properties, and fairness is
asked of the part that moves.

## Runs

| Run | Question | Bounds and why they suffice |
|---|---|---|
| `safety_parts` | *Planner*: do the planners return exactly what is owed? | Every newest row; clock to 12 on a cadence of 2, window 5, delay 1, cap 2: every edge occurs, before, at and after. |
| | *Reclaim*: is PostgreSQL asked in time? | Two servers whose clocks differ by a window, one loss. |
| | *Inbound*: is a message handled once, and has it a run? | Two chat messages and a command, two deliveries at once, one fault (error, redelivery, crash), each followed by a best-effort call that may fail. |
| | *Transport*: is there one claim that may still commit, and the right server behind it? | Two claims over two connections, budget 1 and grace 2, clock to 7: a frame may arrive before its caller gives up, within the grace, and after it. |
| | *Comments*: does a run read each comment answered with a success? | Two comments, one for the assignee; at most two disturbances (failure without a retry, deletion, push, crash), and runs in use plus disturbances at most three; two attempts in each loop. |
| `live_parts` | *Daemon*: see an update idle; keep its slots; ask for backlog; lift barriers? | Two slots, three tasks, two update goroutines and the loop, so that two updates meet a claim in flight. |
| | *Workspace*: one task per directory, live roots stay, tasks end? | Three tasks, one directory, two roots: two tasks contend, a third resumes the root of one. |
| | *Lease*: one connection, served again and again? | Two nodes, two tokens, TTL 3 with margin 2, one crash or lost call, one rotation. |
| | *Empty claim*: can a cached verdict hide a queued task, for a moment after its Bump or for ever? | One task, two requests (one marks across the other's claim), one mishap. |
| | *Cron*: are abandoned leases closed? | Clock to 4, stale timeout 2, one occurrence and attempt, a crash, failing plans, claims and finishes. |
| `cron_leases` | Are leases exclusive and respected, and backoffs; does a live handler keep its lease; is a bucket skipped? | Two instances, ticks of any length, two plans per tick, failing sweeps and claims, a crash. Clock 0..4 with stale timeout 2: claim, expiry, steal, and return of the first holder; late claims; two attempts; window 3 on a cadence of 2, so that a bucket leaves it. |
| `task_slots` | Does the queue implement `TaskSlots`; do terminal rows stay; does a delivered claim stay? | Two handlers, an issue and a chat, capacity 1, two claims per row, one database fault or rejection. |
| `task_delivery` | Is a row executed by one delivery at a time? | Two agents, every kind of fault, a fallback, two claims per row. One handler: see below. |
| `task_retry` | At most one retry per failure, attempts within budget, promotion snapshots free of collisions? | Three rows (a failure, its retry, its retry's retry or a rerun), network failures whose ceiling widens. One handler: see below. |
| `task_live` | *Queue*: does every task end? | A task and its retry, both deliveries of a row, one fault (lost response, restart, outage, server crash). |
| | *Autopilots*: is an occasion worked on once, within the quota, charged when done, its slot settled? | Two goroutines, two attempts. A plan with two accidents (its lease lost and a death, an error or another loss), a delivery or one key of clicks with one; a plan and a delivery with room for one and for both, without. Four runs, three items. |
| `cron_stranded`, `planned_unworked`, `task_resurrect`, `task_duplicate`, `comment_deferred` | Disagreements between code and what its comments or docs say, see Findings. | The smallest instance that shows each. |

`CHECK_DEADLOCK FALSE` everywhere: with their bounds used up the models stop, and the
system itself may be idle for ever.

`RetryOnce` and `OneExecution` are checked with one claim handler. With two they do not
hold, for the reason `task_resurrect` shows in its simplest form: a handler that took its
promotion snapshot before a row was promoted, claimed and started by the other one writes
it back to `queued`. For the same reason `TerminalButForPromotion` and
`DeliveredClaimStays`, which are checked with two handlers, exempt the rows a pending
promotion write is about to overwrite, and nothing else.

`LiveHolderKeepsLease`, `NothingSkipped`, `OneClaimAlive`, `WorkOnce` and `WorkIsCharged` each except the one
case the code does not protect, by a history or a state that names it; see "Met while modelling".

### Fairness

`CronScheduler!FairSpec`: weak fairness of each live instance's tick, of each of its
statements, of the handler's return (`RunTimeout` bounds it) and of a process restart. Clock,
heartbeats and crashes are owed nothing. `AbandonedIsClosed` says of each plan that
infinitely often its row is not a stale lease without holder.

`TaskQueue!FairSpec`: weak fairness of each claim request (the daemon polls for ever), of
each delivery's progress (`handleTask` returns; agent runs are bounded by the daemon's own
limits), of each sweep and its follow-up (a ticker in every server), of recover-orphans and
of the heartbeat's return. The last is an assumption about the world: without it a task
may wait for its runtime for ever, which the docs say it does. Two faults are excluded from
`task_live` because the code has no answer to them: a terminal report that exhausts its
retries, and a failed recover-orphans call, each leave a row `running` under a healthy
runtime until a user cancels it.

`MCQueueParts!PartsSpec` asks the same of the queue when it moves (`QueueFair`). For the autopilots
(`AutopilotFair`) it asks weak fairness of each dispatcher's steps, of the callers (a tick or a
worker takes what is due), of the end of work (task runs are bounded), of the bus and of the
reconciler, a ticker. Clicks, deliveries and accidents are owed nothing. `SlotsSettle` excuses
slots of work whose end was not heard and of occasions given up, for the reasons below.

`MCLiveParts!PartsSpec`, for the part that moves:
- *Daemon*: weak fairness of the poller, of the task goroutines and of each update's
  progress: goroutines are scheduled, a claim and an update end (both have timeouts), the
  agent of a task ends. Arrivals and the start of an update are owed nothing, and wakeups may
  be lost: `BacklogIsAskedFor` rests on the poll timer.
- *Workspace*: weak fairness of the collector's removal; strong fairness of the workers
  together, because a task that marks a root waits on a condition variable until a removal is
  over, and the collector may begin another between two wakeups.
- *Lease*: weak fairness of each node's sweep (a ticker), of the supervisors' steps and of time.
- *EmptyClaim*: weak fairness of each request (the daemon polls for ever) and of
  `VerdictExpires` (a TTL). Bump is owed nothing: `QueuedIsClaimed` rests on the verdict's TTL
  alone, which is what the comment on `EmptyClaimCacheTTL` claims.

## Findings

- `cron_stranded`: while the newest row of a scope waits for its backoff, the planner
  takes the branch its comment reserves for rows that will not be retried and moves on; once a
  newer row exists the failed one is never looked at again.
- `planned_unworked`: `autopilot.go:485-486` counts a run with an issue as complete because "the
  issue-event listener owns task creation from here". No such listener exists: the dispatcher
  enqueues the task after the issue's commit. When it dies in between, the plan's retry
  reports success and the issue has no task. Deliveries repair this (`Ensured`), plans do not.
- `task_resurrect`: the promotion UPDATE does not test `status` again, so under READ COMMITTED
  a row cancelled while the UPDATE waits for its lock is queued again.
- `task_duplicate`: when both deliveries of a claim reach the daemon, the refused start of
  the second is reported as a task failure, and `FailAgentTask` has no claim guard.
- `comment_deferred`: a comment is inserted, a task of the same issue and agent is then
  created and claimed, and the comment's own request finds it only afterwards. It answers
  "deferred", on the ground that the comment is newer than the task; it is older, so the task's
  reconciliation does not see it and no run reads it. `KeptUnlessUnfounded` shows that, but
  for what is `excused`, this is the only way a promise is broken.

Met while modelling and not given a run:
- `spec.go:154-156` says an empty `RetryBackoff` "disables retry", while `retryDelay` returns 0
  for it and the row is retried at once (`RetryDelay` in `CronPlanner`).
- `spec.go:35` says `every_plan` claims every missed plan_time. When the claim of one fails and
  the same tick stores the next, the planner starts after that one ever after (`gaveUp`, which
  `NothingSkipped` excepts; without it TLC finds the skip with two plans per tick).
- `manager.go:432`: "runHeartbeats keeps the lease alive for the duration of the handler". A claim
  late in its tick takes a lease that ends before the first heartbeat, and another instance sweeps
  or steals it from the live handler (`late`). The rollup may run for 25 minutes
  (`jobs_task_usage.go:43`), an autopilot lease lasts five (`jobs_autopilot.go:103`).
- `jobs_autopilot.go:69-74`: "the same planned occurrence cannot produce duplicate runs even under
  stale-steal retries". A plan so stolen is dispatched again beside its live dispatcher; the retry
  may take `planned_at` from the partial run, and the occasion has two runs and two items of work,
  the first of them perhaps uncharged (`LeaseRunsOut`).
- `wsrpc.go:348-357`: after an unanswered claim HTTP waits for the budget and the grace, since
  claiming at once "would double-claim". A write that blocks longer than the grace, or a slow network, still can (`Late`).
- A deferred retry that a newer task supersedes is cancelled without a replay of its comments
  (`DropSuperseded`).
- `channel.sql:588`: a redelivery within 60 seconds of an attempt that crashed is acknowledged as
  a duplicate; `109_lark_integration.up.sql:146-149` says a replay after a crash is not swallowed.
- `task.go:1238`: `EnqueueTaskForIssue` wraps the duplicate-key error without the sentinel the
  router retries on, so an assignee's comment that loses the race is answered as blocked
  (`EnqueueTrigger` tells the two paths apart).
- A run that fails or is cancelled forgets comments that were answered "deferred" to it and
  are in its time window only.
- `spec.go:144-147`: a non-reentrant job needs manual repair after its lease went stale. The sweep
  leaves `next_retry_at` NULL and the steal UPDATE takes any FAILED row with attempts left, so
  it is retried; no job in the repository sets the flag.
- `UpdateAutopilotRunRunning` does not test the run's status: a task that ends before its run is
  linked is heard first, and the link turns the ended run back to "running" (`LinkTask`).
- Requests of one idempotency key are reduced to one while its slot is reserved or consumed;
  after a failure the key runs again, and without a quota it is not looked at
  (`Keyed`; hence the second half of `WorkOnce`).
- A delivery's worker that outlives its lease may make a second task, or skip its own issue for
  the other worker's. For plans and deliveries, `WorkOnce`, `WorkIsCharged` and `DispatchedIsWorked` exempt `overtaken`.
- A plan whose attempts are used up, or whose trigger is paused between two attempts, leaves a
  partial run with a reserved slot, which the reconciler does not take, as it does not take
  a delivery's whose repair failed. A lost end leaves its slot too (`autopilot_quota.go:327-330`).
  These are the excuses of `SlotsSettle`.

## Proofs

`CronSchedulerProofs` proves, for every number of instances, every job parameter that
satisfies `PlannerAssumption` and `SchedulerAssumption`, and every clock bound:
`TypeCorrect`, `LeaseHasOneHolder`, `OnlyHolderSucceeds`, `LeasesAreRespected`,
`BackoffIsRespected`.

None of these is inductive alone. The inductive invariant `IInv` adds to `TypeOK`:
`TicksNotAhead` (no tick's clock is ahead of the database's, which turns "stale by the
tick's clock" into "stale now"), `BusyHasPlan` (a goroutine inside `processPlan` has a
plan at the head of its list), `RowTokens` (a row's token is its attempt), `TokensIssued`
(no goroutine holds a token the row has not reached) and `TokensDistinct` (two goroutines
executing the same plan hold different tokens). `TypeOK` needs that the planners return
naturals within the clock bound; lemmas about the planners say so. A claim by `r` gives it
an attempt no other goroutine has reached, which is how `TokensDistinct` is kept and why a
token match identifies one holder. The action properties then follow from `IInv` step by step.

`LiveHolderKeeps` (`LiveHolderKeepsLease`) has no hypothesis beyond these: ticks take any time and have any
number of plans. `LiveInv` says of an executing runner that was not late that the row is its own
and that the lease outlives its next heartbeat. `NoBucketIsSkipped` (`NothingSkipped`) assumes only
that the job is an `every_plan` one, which the property is about. `SkipInv` adds that the plans still to
process are consecutive buckets, that those between the newest row and the next plan are out of
the window or given up, and that a runner past its insert has its plan stored. Ticks that
overlap only store more rows, so the newest row grows and the interval shrinks.

`EveryPlanOwed` and `AutopilotNewestFresh` state the planners' agreement with their references for every
cadence, delay, window, cap, newest row and clock (`PlannerInputs`; the backoff is that of
`PlannerCheck`). The references are sets and the planner a sequence built by arithmetic: `MultiplesCounted`
says how many multiples lie in an interval, `OwedIsRun` that what is owed is a run of consecutive
buckets, and `EveryPlanIsRun` that the planner returns a run from the same first bucket.

`TaskQueueProofs` proves, for any sets of agents, issues, chats and handlers, any capacity,
attempt budget and bound: `TypeCorrect`, `PendingUnique`, `Fenced` (`PromotionFenced`),
`Refinement` (`SlotsHonored`), `AgentsBounded`, `TerminalKept` (`TerminalButForPromotion`) and
`DeliveryStays` (`DeliveredClaimStays`). Its assumption is `QueueAssumption`: the types of the
constants. The argument has two halves. First, `StepKinds` shows that every step of the
system changes the table in one of five ways: rows move on quietly (no row gains a slot, an
agent's time, or a status it had left), a row is added, a queued row is claimed, a claim is
rolled back, or a promotion's snapshot is written. Then each property is proved of the five.
The inductive invariant `IInv` is `TypeOK`, `Existing` (an absent row is `NoTask`, a present
one has an agent and a subject), `Referred` (what handlers, promotions and the rerun name
exists: otherwise a stale write could create a row) and `Unique(task)` (the index
`idx_one_pending_task_per_issue_agent_v2`, without which a rollback or a promotion could
collide). `DeliveredClaimStays` needs one more, `Delivered`: a claim number a handler or a
delivery holds is not above its row's, and a handler that still has to answer holds a claim
no delivery and no other handler has. `AgentsBounded` is the meaning of the
refinement in numbers: `Cardinality(Serves(a)) <= Capacity`. Its induction is over the five
kinds: a claim adds one row to an agent with room for it, the rest add none.

`ExecutedOnce` (`OneExecution`) and `RetriedOnce` (`RetryOnce`) assume `OneRequest`: one claim request of the
runtime is in flight, as in the runs that check them. With two they are false, see
Runs. Both rest on what a promotion's snapshot may hold. `Untouched` says that its rows wait
or have ended, and have never begun, that a row that began is running or has ended, and
that a delivery runs only a row that began. `Retries` says that a row with a retry, or one that is
still owed the call of `HandleFailedTasks`, is failed, never both, that the sweeps hand a row over at
most once with a reason that is retried, and that no snapshot holds such a row. The first
attempt at this proof failed on the model: `failed` held ids, `HandleFailed` read the table
again, and with four rows TLC found a row that a snapshot resurrected between the sweep
and the call and that was retried twice. The code reads the rows the sweep returned; so does the model now.

`CacheProofs` proves `NothingHidden` (`NeverHidden`) for any tasks, handlers and faults.
`NeverHidden` is not inductive, since a slow request may be about to write a verdict. `Tagged`
adds that no verdict and no sampled version is ahead of the version, and that a request
which found nothing queued and sampled the present version has missed no Bump.

It also proves `ReclaimTypeCorrect` and `StaleRowsAskedFor` (`AskedInTime`), for any number of servers, any
skews, durations and losses. `AskedInTime` is a bound on a clock, so the invariant must say how much
of it each stage may use up: `StampCovers` that the time since the last question and what is left
of the backstop's stamp are within a window and a request, `NextPoll` that without a stamp the
next poll asks, unless a request is on its way (`OnItsWay`), and `Asked` that a request past its query
has been answered. Hints do not occur: the bound holds without them.

`ChannelProofs` proves `LeaseOneConnection` for any nodes, tokens and durations within
`LeaseAssumption`. `OneConnection` is not inductive: `IInv` adds `Typed`, `LateOnes` (a call given up on
belongs to a supervisor that ended or waits) and, for each token, `Owns(g)`: a supervisor that
connects owns the key, and the key outlives the time it confirmed by the margin. Two
connections would own one key.

The same module proves `InboundTypeCorrect`, `InboundHandledOnce` and `InboundRunFollows` for
any messages, deliveries and faults. `IInv` adds `Stopped` (a stopped batcher has no armed window),
`Rows(m)` (the dedup row of a message agrees with its copies and issues), and `Writer(d)` and
`OneWriter` (a delivery past its append works on a processed message, alone).

`ClaimTransportProofs` proves `TransportOneClaimAlive` and `TransportRightServer` for any budget and
grace, and frames that take any time. `IInv` adds `OnTime(n)` (a claim runs at most `Budget`), `Covered(n)`
(a claim that is alive is waited for, or, as `Windowed(n)` says, the fallback window ends after
the grace of the orphan and the run that may follow), `HasCall`, `AckOrigin` and `RightServer`.

`AutopilotDispatchProofs` proves `DispatchTypeCorrect` and `QuotaIsKept` for any occasions,
dispatchers, limits, attempts and accidents. `QuotaKept` needs that what is settled is a run and
that an admitted run holds no slot yet: `IInv` adds `Placed` (what a dispatcher holds where it
stands exists), `Items` (work has a run, and only ended work is news) and `Fresh` (a run that is
not there has no slot). The counters are cardinalities, so each of the two ways to change a slot,
`Settles` and `Reserves`, is a lemma with one set gaining or losing one element; every action is
then one of these or leaves the slots alone.

`WorkIsDoneOnce` (`WorkOnce`), `WorkWasCharged` (`WorkIsCharged`) and `DoneIsWorked` (`DispatchedIsWorked`) follow from one more
invariant, `OnceInv`. `Leases` says that a plan or delivery is served by the dispatcher that owns its
row unless it was overtaken, `OwnRuns` that two requests of one key never work on the same run; `Rows`
relates each run to its work, its link and its slot, with at most one run of an occasion on the
unique index and at most one that holds a slot. What it says of an occasion it says unless that
was overtaken: a plan's run may then have lost the index to another attempt's recovery
(`Indexed`). `Position(d)` says for each place a dispatcher can stand at what it has found and
what cannot exist yet, which is how a dispatcher about to create work knows that there is none. A
by-product: where a slot is reserved, the run is still going (`RunRow`). A run that ended with its
slot reserved, which the first disjunct of the reconciler's query selects, does not arise from the
modelled code: every write that ends a run settles its slot.

`DaemonProofs` proves `WorkspaceTypeCorrect`, `WorkspaceOneInPlace` and `WorkspaceLiveRoots` for any
tasks, directories and roots within `WorkspaceAssumption`. `Locks` says that a task at work owns
its directory's mutex, and that the mutex is owned only by tasks of the directory, abandoned waits
included. `Marks` counts: a root's reference count is the number of marks that stand (`Marked`), a
task has made as many as its stage says (`Counted`), and a root reserved for removal has none.

For `Daemon` it proves `DaemonTypeCorrect`, `UpdateIsIdle` (`UpdateSeesIdle`) and `SlotsAreKept` (`SlotsKept`), for any
finite set of slots, any updates and any number of arrivals. `DaemonInv` has three parts: `SlotsInv` (the
partition, and what the poller holds at each of its places), `CountsInv` (`activeTasks` and
`claimsInFlight` count what they are named for), and `UpdatesInv` (who owns the `updating` flag, who holds
the barrier, and that past the drain there is no work and none can start).

`CommentCoverageProofs` proves `CoverageTypeCorrect` and `CommentsKept` (`KeptUnlessUnfounded`), for any comments, rows,
disturbances and attempts. A comment is covered by a row that will read or reconcile it, or by a replay.
`Carried` reduces each step to its rows and replays: a comment stays covered when whatever covers it
keeps it or hands it on. `CoverageInv` adds what a resolver holds (`Resolves`), that a row which has
not ended replays nothing (`Unresolved`), and that a receipt names planned or deleted comments
(`DeliveredPlanned`). The theorem makes the finding `comment_deferred` exact: apart from `excused` comments,
a deferral to a younger task is the only way a promise is broken.

The assumptions on constants are those of the modules. Two say that names do not clash, which the
code's types guarantee: in `CoverageAssumption` rows are not comments, in `ReclaimAssumption` rows
are not the stages of a request.

Model-checked only: liveness (`AbandonedIsClosed`, `EveryTaskEnds`, `QueuedIsClaimed`,
`BacklogIsAskedFor`, `BarrierLifted`, `WorkersEnd`, `InstallationServed`, `SlotsSettle`), which the prover does not
reach; and the statements that are false of the code (`NoStrandedRetry`, `PlannedIsWorked`,
`TerminalIsFinal`, `ExecutionKeepsItsRow`, `PromiseKept`), which the violation runs refute.

## Not modelled

- Realtime fan-out, chat finalization and quick actions: they have state
  worth modelling and are the rest of the plan.
- The repository cache: Git and the file system do what it does.
- Agent backends (`pkg/agent`): each parses the output of one vendor's tool.
- The HTTP API, authentication, entitlement, integrations' adapters, storage, metrics,
  analytics, the CLI and the front ends: requests that read or write rows by themselves, or I/O.
- `pkg/db/generated` is generated from the queries, which the models read instead. It and the
  request handlers make up most of the server's lines, which is why the models, aimed at
  coordination, stand for a small share of them.
