# OpenOverlord: TLA+ models of the mission and execution core

OpenOverlord coordinates coding agents. Users write *missions* made of
*objectives*; launching an objective puts an *execution request* in a durable
queue in the database; *runners* (the `overlord runner` command on a user's
machine, one per execution target) poll the backend, claim requests, prepare a
branch and start an agent; the agent attaches a *session* over the protocol API,
reports, and delivers.  Everything goes through one database, SQLite or Postgres,
so the interesting behaviour is what concurrent transactions of runners,
operators, agents and background workers do to shared rows.

Line numbers below are of the files at the modelled commit.

## 1. Inventory

| Component | State | Operations | Interacts with |
| --- | --- | --- | --- |
| Execution-request queue: `packages/core/service/execution-requests.ts`, `local-target-mutations.ts` | rows of `execution_requests`: status, revision, pin, owner, session, two TTLs | create, claim, launching, launched, failed, clear, expire, link, complete (mutations) | every component below writes to it |
| Runner endpoints: `backend/execution/runner.ts` | none of their own | claim (expire, select, update, wait), status reports, branch-prepared, clear | queue, runner wakeup |
| Runner wakeup: `runner-queue-notify.ts`, the trigger on `execution_requests` | a Postgres `LISTEN` session per long poll, outside of the pool | listen, wake on a notification, time out, end | runner endpoints |
| Runner loop: `cli/src/commands.ts`, `branch-preparation.ts`, `launch.ts`, `vcs.ts` | where the loop is and the request it holds; worktrees on disk | poll, report, prepare branch, spawn the agent, report, back off, be restarted | runner endpoints |
| Launch and dequeue: `backend/execution/launch.ts` | - | launchObjective, dequeueObjective | queue, objectives, sessions |
| Objective lifecycle: `packages/core/service/missions.ts`, `backend/repository.ts`, `automations/src/objective-manager` | `objectives`: state, position, auto_advance, completed_at, deleted_at; mission status | add, draft slot, discuss, update, reorder, delete, to review, to execute | protocol, launch |
| Protocol sessions: `packages/core/service/protocol.ts` | `agent_sessions`, `deliveries`, mission events | attach, connect, update, ask, resume, deliver, auto-advance | objectives, queue, compose jobs |
| Change feed and SSE: `change-feed.ts`, `backend/realtime.ts` | `entity_changes` with a sequence, a hub cursor, subscribers | append in the mutation's transaction, poll, broadcast, catch up | all writers; web application |
| Delivery compose worker: `worker-jobs.ts`, `backend/delivery-compose-worker.ts` | `worker_jobs`: status, lease, attempts; the delivery's report | enqueue, reclaim, claim, compose, persist, finish, reschedule | protocol deliver, an LLM |
| Webhooks: `webhook-events.ts`, `backend/webhook-dispatcher.ts` | `outbox_messages`, subscriptions with a failure count | enqueue, claim, POST, finish, retry, disable | all mutations; user endpoints |
| Database client: `database/src/client.ts` | a FIFO mutex over one SQLite connection; a Postgres pool; the ambient transaction of an async context and its savepoints | get, run, transaction, nested transaction | everything |
| Schedules: `mission-schedules.ts`, `automations/src/scheduling-engine` | `schedules`, a mission's due date | upsert, clear, compute the next date | missions |
| Storage and attachments: `storage.ts`, `backend/storage.ts` | objects in a store, and their rows | upload (put the object, insert the row), list, serve, delete | missions |
| Projects, execution targets and resources: `projects.ts`, `execution-targets.ts`, `project-execution-target.ts`, `*-observations.ts` | registrations, the preferred target of a project, observed branches | register, bind, migrate, observe | launch, claim |
| Workspaces, organisations, RBAC, auth: `backend/workspaces.ts`, `organizations.ts`, `rbac.ts`, `oauth.ts`, `auth/` | memberships, roles, tokens | invite, grant, revoke, delete | every request is scoped by them |
| Extensions: `backend/ext/everhour`, `ext/github` | timers, linked tasks, installations | sync with third parties | missions |
| Clients: `webapp/`, `desktop/`, `mcp/`, `connectors/`, `cli/` other than the runner | caches, windows | call the backend | backend |

### What is hard, and what makes each part correct

*Queue.*  Every transition is a read of the row, an application-side check of its
status, and an `UPDATE ... WHERE id = ? AND status = ? AND revision = ?`.  On
SQLite a mutex makes the pair atomic; on Postgres (READ COMMITTED, no row lock) other
transactions commit between the two.  Several statements treat "no row matched" as
success (clear, expire), one has no guard at all (branch-prepared).  Correct means:
one claim and one owner per request, settled requests stay settled, one spawn, a
session is never replaced, a stopped objective is idle, what is claimable is served
and what is stale goes away.

*Runner.*  It may die at any step; a report may be answered 409 because a user
cleared the request meanwhile; a report may fail after the agent is already running.

*Objectives and sessions.*  Reads are made before the transaction (the active
objective of an attach, the session of a deliver), updates have no compare-and-set,
and auto-advance is a sequence of separate statements after the delivery committed.
Correct means what `objective-lifecycle.md` lists: one draft, one executing objective,
one open session, distinct positions, and a delivery that goes on to the next objective.

*Background workers.*  Leases expire while their owner still works; the final writes
name the row by id only; a crash between two statements leaves a row half-way.
Correct means: every delivery gets its presentation, every message is decided, and a
late worker does not undo what a later one did.

*Change feed.*  Sequence numbers are drawn at the INSERT and become visible at the
commit; overlapping polls share one cursor.  Correct means: a subscriber misses no
change, or is told to refresh.

*Runner wakeup.*  A request may become claimable between any two looks of a long poll,
the session that listens may be lost, and so may the runner or the answer.  Correct
means: no call sleeps beside work, and every request is decided.

*Database client.*  Which transaction a statement belongs to depends on the async
context it runs in, which a task that nobody awaits inherits.  Correct means: what
resolved is in the database and nothing else is, and no callback waits for itself.

The full list of hazards, each with its line and the properties that would catch it,
is in `PROJECT.json`.

## 2. Modules

| Module | Stands for |
| --- | --- |
| `RequestLifecycle` | what the queue promises: status, owner and session of each request, one action per kind of change (Queue, Claim, Advance, Settle, Link) |
| `ExecutionQueue` | the queue with all its writers: runners, operators, agents; implements `RequestLifecycle` |
| `MCExecutionQueue` | the symmetry set for TLC |
| `ExecutionQueueProofs` | the inductive invariant of `ExecutionQueue`: types, owners, spawns |
| `RequestLifecycleProofs` | `ExecutionQueue` implements `RequestLifecycle`; links and stops |
| `ObjectiveOrder` | what the positions of a mission's objectives promise: a strict order in which an operation moves only what it is about |
| `MissionLifecycle` | one mission: its objectives, the sessions of its agents, the protocol calls and the calls of users; implements `ObjectiveOrder` |
| `MCMissionLifecycle` | the symmetry set for TLC |
| `MissionLifecycleProofs` | the inductive invariant of `MissionLifecycle` and what follows from it, in four parts: types and positions, the refinement of `ObjectiveOrder`, where a second draft can come from, what holds while calls do not overlap |
| `RunnerWakeup` | the long poll in which a runner waits for requests, and the runner's loop around it |
| `RunnerWakeupProofs` | no call sleeps beside a request that its runner may claim |
| `DeliveryReport` | what the report of a delivery promises: it is composed or falls back, and is not taken back |
| `ComposeJobs` | the leased jobs that compose the reports; implements `DeliveryReport` |
| `ComposeJobsProofs` | the refinement, and how many workers and attempts a job can have |
| `WebhookOutbox` | the outbox of a webhook subscription and the dispatchers |
| `WebhookOutboxProofs` | what a message's decision and a disabled subscription rest on |
| `ChangeFeed` | the change feed, the hub that polls it, and the pages that follow it |
| `ChangeFeedProofs` | what a cursor has passed has reached the page or is on its way, and how it can be passed over |
| `DatabaseClient` | the database client: mutex, pool, ambient and nested transactions |
| `DatabaseClientProofs` | the savepoints of nested transactions, and what is in the database because of them |
| `MCComposeJobs`, `MCWebhookOutbox`, `MCChangeFeed`, `MCRunnerWakeup`, `MCDatabaseClient` | the instances for TLC |

`ExecutionQueue` and `MissionLifecycle` meet in the execution request.  `ExecutionQueue` has every
status of a request and keeps of an objective only what the queue reads of it
(its phase and its tombstone); `MissionLifecycle` has every state of an objective and
keeps of the requests only which objectives have an active one.  `MissionLifecycle` lets
a request settle at any time.  `ExecutionQueue` has every kind of move that a queued or
claimed request can outlive: launch, attach, resume, follow-up and deliver; a user's PATCH
or delete, which dequeue; and what dequeues nothing, which is the promotion of another
draft, a refill of the draft slot, and the deletion of the mission or the project.

`RunnerWakeup` is about the way to the claim and ends where the rest of the life of a
request, which is `ExecutionQueue`'s, begins: it has of a request only what the claim
looks at.  `ComposeJobs` starts from a delivery that `MissionLifecycle` has made.
`ChangeFeed` and `WebhookOutbox` read what all the others write in their transactions.
`DatabaseClient` is below all of them: that on SQLite a transaction is one step, as
`MissionLifecycle` and `ExecutionQueue` with `Serialized = TRUE` take it, is what it
checks of the code.

Operators whose comment begins with "Mutation:" are faulty versions of the
definition below them.  No specification uses them; `PROJECT.json` pairs each with the
property that it breaks.

## 3. How the models correspond to the code

### ExecutionQueue

| Variable | Code |
| --- | --- |
| `req` | rows of `execution_requests`: status, revision, source, objective, pin, owner, session; `lapsed` is "the 15-minute TTL of this status has passed" |
| `obj` | the objective's state in the classes that the queue tells apart: launchable (draft, submitted, launching), running (executing, pending_delivery), done (complete by delivery), stopped (complete or future by a user's move), demoted (future because another objective became the draft); `deleted_at`; and `discarded`, that it was deleted without a dequeue |
| `sess` | rows of `agent_sessions`: the objective, and whether it has ended |
| `tx` | the call an actor has in flight between its read and its write |
| `runner` | the program counter of `runOnce` and the request it holds |
| `agents` | requests whose agent process has been spawned |

A transaction is two steps, the read that takes a `Snapshot` of the rows and the
guarded UPDATE with the commit (`Matches` is `WHERE id = ? AND status = ? AND revision
= ?`).  With `Serialized = FALSE` anything may commit in between, as on Postgres; with
`Serialized = TRUE` the SQLite client's mutex (`NotLockedOut`) shuts everybody else out.
Reads made *before* a transaction (the completion of a mutation, the objective of an
attach, the launchability in an auto-advance) are protected by neither.

| Actions | Code |
| --- | --- |
| `LaunchObjectiveRead/Write`, `AutoAdvance`, `QueueMutation` | the three callers that insert a request |
| `Poll`, `PollExpire`, `ClaimRead`, `ClaimWrite`, `ClaimNothing`, `WorkingDirectoryMissing` | `POST /api/runner/claim` |
| `ReportRead/Write`, `BranchPreparedRead/Write`, `Spawn`, `LaunchFails`, `CompleteMutationRead/Write`, `Crash` | the rest of `runOnce` and its endpoints |
| `AttachRead`, `ReattachRead`, `AttachWrite`, `Deliver`, `Resume`, `FollowUp` | an agent's calls, as far as they touch requests or move objectives past them |
| `ClearRead/Write`, `RunnerStatusRead/Write`, `DequeueRead/Write`, `BackToLaunchable` | the web application |
| `PromoteRead/Write`, `Discard` | the moves that dequeue nothing: `updateObjective` makes the other drafts future (`repository.ts:5827-5857`); a refill deletes blank drafts (`repository.ts:5636-5659`, `missions.ts:400-418`), `deleteMission` and `deleteProject` (`repository.ts:4364-4372`, `3077-3090`) all that is left |
| `Lapse` | time |

### MissionLifecycle

| Variable | Code |
| --- | --- |
| `objectives` | rows of `objectives` of one mission: state, position, auto_advance, whether there is a text, `deleted_at` |
| `sessions` | rows of `agent_sessions` |
| `queued` | objectives with an active execution request |
| `keyed` | objectives for which the key `auto_advance:<id>` is used |
| `call` | how far each call has come and what it has read |

Here the database is SQLite, so a transaction is one step.  What is left to interleave
is what the code does outside of transactions, and that is a good deal: attach, deliver,
resume, discuss and update pick their objective or session first, and everything
deliver does after its commit (`ensureNextDraftObjective` and the auto-advance) is one
statement at a time: `RefillDrafts`, `RefillFuture`, `RefillDiscard`, `RefillPromote`,
`RefillSlot`, `RefillPosition`, `RefillInsert`, `AdvanceRead`, `AdvanceLaunch`,
`AdvanceQueue` or `AdvanceFails`.  The same refill inside a transaction (attach, a
PATCH to executing) is the operator `Refilled`.  `Abort` ends a call anywhere: a
statement that is refused, or a backend that stops.

### RunnerWakeup

| Variable | Code |
| --- | --- |
| `request` | rows of `execution_requests`, numbered by `created_at`: status, workspace, the runners whose target may claim it, whether its objective is launchable, whether its directory is there |
| `lapsed` | claimed requests whose `claim_expires_at` has passed |
| `call` | a call of `claimRunnerRequest`: where it is, the workspace it looks at, whether its `LISTEN` session is up (`listens`) and whether it has been told of something (`settled`); `passed` is what it left behind knowingly |
| `runner` | the runner's loop: down, about to ask, asking, working |

`Look`, `Take`, `Leave` and `Refuse` are one look at one workspace (expire and select,
the compare-and-set of the claim, going on, a directory that is missing);
`AfterFirst`, `Arm`, `Wake` and `Answer` are what comes between and after the three looks.
`Queue` and `Clear` are other calls, and the trigger notifies with the commit of a
`Queue`.  `LoseSession`, `LoseAnswer`, `Stop`, `Start` and `Restart` are the faults.

A runner that stops leaves its call behind, and the call goes on and claims for nobody;
that request goes when its lease lapses.  A timer may fire at any moment.  On SQLite a
call cannot listen and waits for the timer alone.

### ComposeJobs

| Variable | Code |
| --- | --- |
| `job` | `worker_jobs`: status, attempts, `available_at` as `due`, the lease as `lapsed`; `lapses` counts its leases that lapsed |
| `delivery` | the delivery's revision and presented report, and whether clients were told |
| `worker` | the loop of each backend: where it is, the job, and the row that it loaded |
| `cut` | history: a write that was given up |

`Claim` (with `Reclaimed`, the leases it takes back) is one transaction over locked rows;
`Load`, `Persist`, `Announce`, `MarkSucceeded`, `Reschedule` and `MarkFailed` are one
statement each.  `Throw` is a statement that is refused, `Crash` a backend that stops,
`MoveProject` a user's write to the delivery's row.  What a text says is left out: it is
the agent's or the model's.  Nothing in the repository deletes a delivery, so the status
`cancelled` does not occur.

### WebhookOutbox

| Variable | Code |
| --- | --- |
| `message` | `outbox_messages`: status, attempts, `available_at` as `due` |
| `subscription` | the row of `webhook_subscriptions`: enabled, deleted, failure count, the reason it was disabled for |
| `dispatcher` | `deliver()` in each backend: where it is, and the failure count that it read |
| `tries`, `received`, `failed`, `streak`, `overtaken`, `dropped` | history, for the properties |

`Claim`, `Look`, `Cancel`, `Post`, `ReadBody`, `Log`, `Mark` and `Count` are the steps of
an attempt in their order.  The timer of ten seconds is stopped when the headers of the
answer are there (`webhook-dispatcher.ts:176`), and the body is read without one: `Post`
ends, `ReadBody` need not.  `Drop` is a crash, or a statement that is refused, after
the claim.  Users `Redeliver`, `Switch` and `Delete`.  A message belongs to one
subscription, so one subscription is modelled; payloads, signatures and the ping, which
has its own call, are not.

### ChangeFeed

| Variable | Code |
| --- | --- |
| `drawn`, `open`, `feed` | the sequence of `entity_changes`, the numbers of transactions that have not ended, the rows that can be read |
| `hub` | `RealtimeHub`: its cursor, and whether `lastDataVersion` is older than the file |
| `requests` | the queries that overlapping polls have made and not yet resumed after |
| `page` | a page: the state of its stream, its cursor, the catch-ups that are running, its own (`pulls`) and the hub's (`stream`), and what it knows; `missed` is what the hub passed over, `adopted` what was below the first cursor that it took from `hello`, `stale` and `masked` are about tools |

`Poll`, `Serve`, `ServeLater` and `ResumeLater` are the hub's polls: SQLite answers in
order and resumes the caller at once, Postgres neither.  `Broadcast`, `Skip`,
`VersionSeen` and `Refetched` are what an answer leads to.  `Connect`, `Pull`,
`CatchUp`, `PullFails`, `Close`, `Break`, `Load` and `Restart` are the page.

To know a change is to have refetched after it; refetches are taken to be answered at
once, the `hello` event to arrive, and a page to reconnect only when the hub has closed the
old response.  A page that is loaded again is a new page.  `refreshAll`, which a user
asks for, is left out.

### DatabaseClient

| Variable | Code |
| --- | --- |
| `task` | an async context that calls the root client: where it is, its call, the transactions open in each other (`clients`, each with its `#savepointDepth`), how it ended; `made` is what a transaction wrote and its resolved nested ones, `spared` what a rejected one wrote in which another was rejected before, `refused` whether Postgres has refused a statement since the last savepoint that was rolled back to |
| `child` | a task that the callback started and did not await; `stray` if its statement came to run when the transaction was over |
| `queue`, `conn`, `db` | the waiters of the mutex or the pool, what is written and not committed on each connection, what is committed |

A callback makes any sequence of statements and nested transactions (`Statement`,
`StatementFails`, `Nest`, `NestRefused`, `Resolve`, `Reject`) and catches or throws what
they reject with; `Return`, `Commit`, `Rollback` and `LoseCommit` end it.  `Detach`,
`ChildCalls` and `ChildStatement` are the task that is not awaited, whose statement may be
refused like any other (`Refuses`): on Postgres that aborts the transaction, and its
`Commit` is a rollback that resolves.  Savepoints are as
the two databases have them: `ROLLBACK TO` finds the innermost of that name and
leaves it there.  A child makes single statements only: the repository starts no
transactions in a transaction concurrently.  A connection is lost only at the `COMMIT`,
as an earlier loss is a rejection.  The session client, which tests use, the placeholders
and the type parsers are not modelled.

## 4. The runs

| Run | Expect | Shows |
| --- | --- | --- |
| `queue_runners` | pass | Postgres; two runners, an operator, an agent, one request, one crash: `HeldByOwner`, `SpawnedOnce`, and the life of a request (`ImplementsLifecycle`) |
| `queue_sqlite` | pass | SQLite; two runners, two objectives, one crash: promotions, refills, deletions and follow-ups: an objective that was stopped or deleted with a dequeue is idle, an agent is linked to its own objective's request whichever it names |
| `queue_fair` | pass | SQLite, fairness; two requests, one runner, one crash: claimable requests are served, stale ones expire, and with two requests the lifecycle again |
| `mission_order` | pass | users only, four objectives: positions fit, and the order is what `ObjectiveOrder` says |
| `mission_sequential` | pass | an agent attaches, delivers and follows up, a user adds, edits, launches by a PATCH and discusses, not overlapping: one draft, no text lost |
| `mission_overlap` | pass | two calls overlapping on four objectives: the order is what `ObjectiveOrder` says, second drafts have one source, every attach refills |
| `runner_wakeup` | pass | fairness; one runner, two workspaces, a second call left over from a runner that stopped, two requests, one fault: no call sleeps beside work, every request is decided |
| `compose_jobs` | pass | fairness; two workers on one delivery, one early lapse, three faults, one project move: the report is not taken back, attempts and workers stay within the lapses, every job ends, every delivery is presented |
| `webhook_outbox` | pass | fairness; two dispatchers, one message with two attempts, two redeliveries, one switch, one fault: decisions are earned, only a fault strands a message |
| `change_feed` | pass | fairness; both adapters, one page, three changes read one at a time, two overlapping polls, a lost stream or a restart, failed fetches, one tool: what the cursors have passed has arrived or is on its way, and on SQLite only a cursor that has moved by itself passes over a page |
| `change_feed_gap` | violation | Postgres: the hub's cursor passes a change whose transaction is open (section 7) |
| `database_client` | pass | fairness; both adapters, two callers, three steps of callbacks three deep, one task that is not awaited, one lost COMMIT: what resolved is in the database and nothing else, but for transactions that Postgres had aborted; no call waits for what it holds itself |

### Bounds, and why they are enough

*Queue.*  The transitions of a request never look at another request, except for the
choice of the oldest candidate, the "is there an active one" of a launch and the bulk
clear and expire: two requests show all three, and `queue_fair` has two.  A conflict
between transactions is one reader and one overtaking writer; `queue_runners` has four
actors.  Two crashes are two times one: a crash forgets what the runner knew and leaves
the rows alone.  Two objectives are needed for the link to a wrong one and for a draft
that is demoted when the other is promoted.  `Workload` names the sources of requests and
the moves past the queue that an instance has; `queue_sqlite` has all the moves,
`queue_runners` those that one objective can make.

*Mission.*  `CreateStates`, `PatchStates`, `AutoAdvance` and `Calls` say which calls an
instance makes; what one run leaves out another has, and each property has a run with
the calls that could break it.  `mission_order` needs four objectives: one that is
promoted, the one it displaces, one between them and a gap.  `mission_overlap` needs four
because the tail of deliver inserts only when no draft is left: the delivered
objective, the launched one, the one it inserts and the one somebody else adds meanwhile.
That its insert lands in front of a row added since (`Insert` of `ObjectiveOrder`) takes
five objectives and a deletion between the look and the insert, too many for a run here;
`OrderImplemented` proves the order for any number.
`mission_sequential` has a single caller, so that calls do not overlap, and three
objectives: delivered, next and future.  Two callers are enough for the races with the
tail, which are between one call and one overtaking writer.

*Runner wakeup.*  A call misses a wake only between two of its own steps, so one call
that waits shows it; the second call is the one that a stopped runner has left, which
takes requests from the first.  Two workspaces are one behind and one ahead of the look,
and two requests are the one that a call loses and the one beside it.

*Compose jobs.*  Jobs do not see each other.  Two workers are the late one and
the one that has the job now; a third is the second again.  Two attempts have one to
retry and one to give up after.  Three faults may hit all three of the last attempt's
final writes.

*Webhooks.*  Messages meet only in the subscription's failure count, and two
redeliveries make the one message count as often as three.  Two dispatchers are the
stale count and the fresh one.  A threshold of two tells *consecutive* from *all*.

*Change feed.*  Pages do not see each other.  A batch of one makes three changes three
batches: one delivered, one on its way, one after.  With two overlapping polls one is late;
with three, a late batch puts the hub's cursor back while another poll is still to
be answered from where the cursor was, and with four changes there is something left to
read.  (That an open page misses changes by idle polls only, which `realtime.ts` suggests
and two polls do not refute, is false with three; the property names both ways.)
`change_feed` has two polls, for the liveness properties; `change_feed_polls.cfg` is a
further configuration, SQLite alone with two pages, four changes and three polls, on
which `MissedOnlyByMovedCursor` passes too (`tlc -config change_feed_polls.cfg
MCChangeFeed.tla`, 172,292 states), and `MissedByMovedCursor` proves it for any number.

*Database client.*  Two callers are the holder of a connection and the one that waits;
the pool has two connections, so that it is exhausted when both hold one, and SQLite has
its one handle.
Three nested clients are the root's, the outer and the inner savepoint.  Three steps
are the least in which a write goes before or after a nested rejection.

Deadlock is not checked: users and agents may stop, and a bound (`MaxRequests`,
`MaxObjectives`, `Sessions`) leaves nothing to do once it is used up.

### Fairness

*Queue* (`queue_fair`).  A runner's loop polls for ever and the
supervisor restarts it; it gets its turn at the database because the mutex
(`client.ts:165-182`) is FIFO: strong fairness of `RunnerStep`, since the lock is taken
and released by others.  A transaction that has begun is finished: weak fairness of the
write half of operators and agents.  Time passes: weak fairness of `Lapse`.  Nothing is
assumed of what users and agents start.

*Runner wakeup.*  Statements are answered and the timer of the wait fires: weak fairness
of `CallStep`.  The runner's service starts it again (`KeepAlive`, `Restart=always`) and
its loop goes on: `RunnerStep`.  It is strong only because `MaxCalls` bounds the calls
that the backend has at a time, and `Ask` may be disabled now and then by the bound.

*Compose jobs and webhooks.*  A poll every 1.5 seconds and every second, calls with a
timeout, and time: weak fairness of `WorkerStep`, `DispatcherStep`, `BecomeDue` and
`Lapse`.  That the body of a webhook's answer ends is not assumed: `ReadBody` is no part of
`DispatcherStep`, and `EveryMessageIsDecided` excepts by name the message whose dispatcher
waits for it for ever, and the case that all dispatchers do.  Faults are never fair.

*Change feed.*  The timer polls every 500 ms, queries are answered, a page that is open
reconnects and its fetches go on: weak fairness of `Poll`, `Serve`, `ServeLater` with
`ResumeLater`, and `PageStep`.  Nobody has to write.

*Database client.*  The mutex and the pool serve who waits, and every callback settles:
weak fairness of `Serve`, `Callback`, `End` and `ChildStep`.  The last is an assumption on
the callers, which the client itself does not enforce: it has no timeout.

## 5. What is proved

Every theorem holds for every value of the constants, under the assumption that the module
of its specification names; a further hypothesis is part of the theorem's statement.

`ExecutionQueueProofs`, for every number of requests, objectives, runners, operators,
sessions and crashes, and on either database, from `QueueConstants` alone:

* `TypeCorrect`: `Spec => []TypeOK`
* `HoldersOwn`: `Spec => []HeldByOwner`
* `SpawnsOnce`: `Spec => SpawnedOnce`

None of the three is inductive.  `TypeOK` needs to know that a dequeue carries the state
it moves to (`DequeuesOK`) and that a runner outside of its resting states holds a
request (`HeldOK`), since the reports look the held request up.  `HeldByOwner` needs
that what a runner holds has started (`HoldsOK`), that the snapshot of a claim was
queued (`ClaimsQueued`) and that a request which has started is never again queued or
claimed: then a claim that goes through is of a request that nobody holds.  `SpawnedOnce`
needs `SpawnOK`: a request with an agent is held, if at all, past the spawn.  `CallOK`
ties the call in flight to the place of the loop.  `IInv` is their conjunction.

The proof that a step preserves it goes in two layers: the lemmas named `...Keeps` show
for each action that types and owners are kept, the lemmas named `...Loop` what it does
to the loops; `StepKeeps` and `StepLoop` gather them over `Next`, and `Invariance` and
`HoldsStep` draw the conclusion.

`RequestLifecycleProofs` builds on it:

* `QueueImplements`: `Spec => ImplementsLifecycle`, the refinement, on either database
* `LinksStayHome`: `Spec => []LinkedToOwnObjective`, on either database
* `StopsStick`: `Serialized => (Spec => []StoppedIsIdle)`; the hypothesis is the SQLite
  client's mutex, and `queue_stop_race` shows that on Postgres it is needed.  The
  property is about what the code dequeues, a user's PATCH or delete of the objective; a
  draft that was demoted for another one, and an objective that a refill or the deletion
  of its mission or project has deleted, may still be worked on (`queue_demoted`)

Two of the guarded UPDATEs compare less than the row: the link compares the revision and
the missing session, the branch report nothing.  `RInv` therefore says how far a row
can have gone since it was read: a runner that is launching has a request that is
launching or settled (`PlaceOK`), a branch report in flight writes no lower revision than a
link that read before it (`BranchOK`, `AttachOK`), and a launched row that was read
to be expired has a higher revision once it is linked (`ExpireOK`).  `LinkOK` ties the
objective of an attach to its session and its row.  For the stop, `Alone` and `Current`
say that with one transaction at a time what was read is still so, `ClaimsRun` and
`DequeuesAll` what that means to a claim and to a dequeue; `ObjStep` says of every action
that only a dequeue parks an objective (`Parked`).  `StoppedIsIdle` itself is part of the
invariant.

The theorems about `MissionLifecycle` hold for every number of objectives, sessions and
callers, whatever calls are made and however they overlap, from `MissionConstants` alone:

* `TypeCorrect`: `Spec => []TypeOK`
* `PromotionsFit`: `Spec => []SplicesFit`
* `AttachesRefill`: `Spec => AttachRefills`
* `DraftsDoubled`: `Spec => DraftsDoubledByDeliverOnly`
* `OrderImplemented`: `Spec => ImplementsOrder`, the refinement

and two of them for calls that do not overlap (`Solo`, at most one caller):

* `DraftIsAlone`: `Solo => (Spec => []AtMostOneDraft)`
* `TextSurvives`: `Solo => (Spec => TextIsKept)`

Their invariant is `IInv`.  A new row goes behind the last, so the rows must have a last
position (`Bounded`; `LargestExists` and `SmallestExists` come from the well-foundedness
of the naturals).  A call sets the state of the objective that it picked earlier, so
that must still be a row, or a row would come to life at a place that is taken
(`CallsOK`, `SessionsOK`).  With these, `Fits`, the unique index, is inductive: it holds
after every statement, also where the code makes no provision for its refusal.
`SpliceFits` is the arithmetic of a promotion.  TLC checks the parts of `IInv` other than
`Bounded`, which quantifies over the naturals, only through `TypeOK` and `SplicesFit`.

`DraftsDoubled` goes through the calls and the users' transactions one by one
(`CallKeepsOne`, `UserKeepsOne`).  `OrderImplemented` first says each step of
`ObjectiveOrder` in terms of positions (`Shrinks`, `Grows`, `Moves`, `Reorders`) and then
shows each action to be one (`CallSteps`, `UserSteps`).  It needs one more invariant,
`SoloOK`: with a single caller the place that deliver has looked up is still behind
everything when it inserts.  With several it need not be, and that is the reason for
`Insert` in `ObjectiveOrder`.

`DraftIsAlone` and `TextSurvives` need `SlotOK`: what the tail of deliver has seen of the
drafts some statements ago is still so when it deletes, promotes or inserts.  It is
`Solo` that makes it inductive, and `DraftsDoubled` and `mission_text` show what becomes of
the two without it.

`ComposeJobsProofs`, for every number of deliveries, workers, attempts and faults, from
`ComposeConstants`:

* `TypeCorrect`: `Spec => []TypeOK`
* `ReportImplemented`: `Spec => ImplementsReport`, the refinement
* `WorkersAreAdmitted`: `Spec => []OneWorkerPerLease`
* `AttemptsAreOwed`: `Spec => []ExtraAttemptsAreLapses`

The refinement rests on `SnapshotsOK`: a row that a worker loaded is the row as it is, or
an older revision, so the compare-and-set writes over nothing that is not known.
`WorkersAreAdmitted` counts: whoever is on a job, or may get on it with the next claim
(`Waiting`), was let in by the insert or by a lapse (`Admits`).  An inductive count needs
the waiting place, as `OneWorkerPerLease` alone says nothing of the next claim.
`AttemptsAreOwed` keeps an account (`BudgetOK`): the claims there were, the one that waits,
and the workers that would put the job back if they failed (`Able`) are no more than the
insert, the lapses and the claims below the limit allow.  A late worker puts its job back
by the attempt that it loaded, not by the row's, and that is why the workers are counted
and not the row.

`WebhookOutboxProofs`, from `WebhookConstants`:

* `TypeCorrect`: `Spec => []TypeOK`
* `DecisionsEarned`: `Spec => []DecisionIsEarned`
* `StrandedByDrop`: `Spec => []StrandedOnlyByDrop`
* `FailuresCounted`: `Spec => []DisabledAfterFailures`

`DecisionsEarned` needs that a message that was not redelivered in flight is in one pair of
hands (`OneHolder`) and that its holder's attempt is the number of POSTs (`HolderOK`).
`FailuresCounted` needs that every count that a dispatcher has read, or is about to write,
is of as many failures at least (`CountsOK`): stale counts are lower, never higher.

`ChangeFeedProofs`, on either adapter, from `ChangeFeedConstants`:

* `TypeCorrect`: `Spec => []TypeOK`
* `CursorsBehind`: `Spec => []CursorsOK`, no cursor is ahead of the changes, and no
  catch-up ahead of its page
* `Remembered`: `Spec => []NothingIsForgotten`
* `MissedByMovedCursor`: `Spec => MissedOnlyByMovedCursor`
* `RetreatsOverBacklog`: `Spec => CursorRetreatsOverBacklog`, on SQLite overlapping polls
  put the cursor back only over a backlog longer than a batch

A batch has everything up to its last row (`BatchIsDense`, `BatchCovers`), so a cursor may
follow it.  `BroadcastKeeps` and `CatchUpKeeps` are the two that move a page's cursor while
other catch-ups of it are running.  The last two need `OneWriter`: on SQLite no transaction is
open between two steps, so what was drawn is what can be read.

`RunnerWakeupProofs`, for every number of runners, calls, workspaces and requests, from
`RunnerWakeupConstants`:

* `TypeCorrect`: `Spec => []TypeOK`
* `WakesAreSeen`: `Spec => []NoWakeIsMissed`

The invariant (`CallOK`) is about the second look, which begins after the `LISTEN`: of the
workspaces behind it, the call has been told of, or has left knowingly, whatever its
runner may claim.  When it has looked at all of them that is what the property says.  Of the
first look nothing is claimed, and nothing could be: that is why there is a second.

`DatabaseClientProofs`, on either adapter, for any number of callers and connections and for
callbacks of any length and depth, from `DatabaseClientConstants`:

* `TypeCorrect`: `Spec => []TypeOK`
* `ResolvedKept`: `Spec => []ResolvedIsKept`
* `NothingElseKept`: `Spec => []NothingElseIsKept`

The properties are about the database once a call has ended; the invariant has to say
what is on the stack of its connection before.  `Nested` says that the entries of the
stack can be dealt out to the open transactions in their order (`Placed`, by the places `p`
where each begins), such that up to the next one's place a stack holds at least what the
transaction made and at most what it, those around it and the rejected ones
(`spared`) made (`Between`).  On SQLite the places are the depths.  On Postgres a savepoint
stays after its rollback, and several of one name lie on the stack; what makes it true
there is that a transaction in which none was rejected has one entry (`~spoilt`), and
that the others are what `spared` records.  `Writing`, `Pushing`, `Releasing` and `Undoing`
are the four ways in which a step changes the stack.  `ClientsOK` counts: a client has no
more transactions open on it than its depth says, so that counting down stays a
natural number (`CountedIn`, `CountedOut`).  Of the connections, `Exclusive` and `Occupied`
say that what is not committed is on the connection of the one open transaction; with
them a statement that was called before the end of its transaction and comes late finds no
stranger's transaction to be carried along with.  `Waiting` is the queue, and `Kept` is
both properties together.  `Marked` says that a transaction's connection is aborted just
when a statement of it was refused, by its callback or by a task of its own, and that no
stranger's statement can do it: that is what makes the exception of `ResolvedIsKept` the
only one.

## 6. What is only model-checked

* Liveness: `QueuedIsServed`, `StaleIsExpired`, `EveryRequestIsDecided`,
  `EveryJobIsFinished`, `EveryDeliveryIsPresented`, `EveryMessageIsDecided`,
  `EveryChangeIsTold`, `EveryToolIsSeen`, `EveryCallEnds`.  Fairness is out of the
  prover's reach.
* The inductive invariants themselves are proved; TLC checks of them only what a run's
  properties say.
* Nothing else: every safety property and every refinement that a run checks is the
  statement of a theorem.  `AtMostOneDraft` and `TextIsKept` are proved, as they are checked,
  for calls that do not overlap, `StoppedIsIdle` for the SQLite client.

## 7. Where the code and its documents disagree

Kept as a run that ends in a violation, with its finding in `PROJECT.json`:

* `change_feed_gap`: "readers never observe a gap" (`database/docs/testing.md:73`).  On
  Postgres a number is drawn at the INSERT; a transaction with a higher one commits first,
  the hub's cursor passes it, and no page is ever told of the lower one.

Further configurations reproduce a disagreement each (`tlc -config X.cfg MC....tla`), and
are meant to end in a violation:

| Configuration, of | What happens |
| --- | --- |
| `queue_stop_race`, `MCExecutionQueue` | on Postgres a user stops an objective and a runner keeps it |
| `queue_demoted`, `MCExecutionQueue` | launch, claim, PATCH back to draft, PATCH another objective to draft: the first is made future (`repository.ts:5835-5841`) and the runner goes on with it, on SQLite too (`ParkedIsIdle`); the same after a refill or the deletion of the mission has deleted it.  "parking to future" is among the moves after which "the runner must stop seeing it" (`repository.ts:5936-5938`) |
| `queue_stranded`, `MCExecutionQueue` | a request whose runner died while launching stays launching |
| `mission_text`, `MCMissionLifecycle` | a text saved while deliver's tail runs is deleted with the blank draft |
| `mission_reorder`, `MCMissionLifecycle` | a reorder is refused when another objective is in between |
| `mission_target`, `MCMissionLifecycle` | auto-advance picks the draft that was just deleted and does not launch |
| `mission_rerun`, `MCMissionLifecycle` | the second auto-advance of an objective queues nothing |
| `webhook_disable`, `MCWebhookOutbox` | a subscription is disabled though its failures were not consecutive, as a late writer puts its old count over the reset; "20 consecutive failed deliveries" (`webhooks.md:203`) |
| `webhook_timeout`, `MCWebhookOutbox` | an attempt never ends: the timer is cleared at the headers and `response.text()` has none (`webhook-dispatcher.ts:175-180`), so an endpoint that never ends its body keeps the message processing and, through `polling`, the dispatcher; "Timeout: 10 seconds per attempt" (`webhooks.md:201`) |
| `change_feed_hello`, `MCChangeFeed` | a page whose cursor is 0 takes the hub's from `hello` and does not catch up (`realtime.tsx:41,69-72`): what was written after it fetched its data is lost to it, also when it reconnects and the change was sent on its own broken stream; "Reconnects replay `GET /sync/changes?after=<seq>`" (`webapp/README.md:104`) |
| `database_nested`, `MCDatabaseClient` | on Postgres each inner client numbers its savepoints from 0 (`client.ts:480-490`) and `ROLLBACK TO` does not release: after an inner rejection that the outer nested transaction caught, the outer's own rollback finds the inner savepoint of the same name, and what the outer wrote before is committed.  "Nested calls use SAVEPOINTs so composing transactional service functions is safe" (`client.ts:100`) |
| `database_refused`, `MCDatabaseClient` | a statement is refused on Postgres, and its error is caught by the callback or the statement is of a task that it does not await: the transaction is aborted, its COMMIT is a rollback without an error (`client.ts:508-510`), and the call resolves with nothing kept (`CommitsWhenResolved`); "The transaction commits when `fn` resolves" (`client.ts:99-100`) |

Found with the same models and without a configuration; add the formula as a property
to see the trace:

| Property, and where it is promised | What happens |
| --- | --- |
| every write of a row adds one to `revision` (`09-database-schema-contract.md:60`) | `recordBranchPreparedTx` (`runner.ts:470`) writes the revision it read plus one, unguarded; a clear commits in between (Postgres) |
| one in-flight request per objective (`objective-lifecycle.md:147`) | `AutoAdvance` inserts beside an active `webapp` request |
| a queued request does not fail because of its directory (`objective-lifecycle.md:425`) | `WorkingDirectoryMissing` |
| at most one draft, whatever overlaps (`objective-lifecycle.md:130`) | `AddObjective` between `RefillFuture` and `RefillPromote`; `DraftsDoubledByDeliverOnly` says that there is no other way |
| launching reverts when no request can be made (`objective-lifecycle.md:243`) | `AdvanceFails` leaves the objective launching |
| one executing or pending_delivery objective (`objective-lifecycle.md:131`) | launch, `Resume` of a delivered objective, then `Attach` to the launched one |
| one open session per objective (`objective-lifecycle.md:145`) | two attaches |
| a new objective goes last (`missions.ts:300`) | deliver's `RefillInsert` after another call added two objectives and deleted the first: the slot lands in front of the second |
| checking a draft off refills the slot (`objective-lifecycle.md:388`) | `PatchState(c, o, "complete")` of the only draft |
| the fallback remains visible (`rich-delivery-messages.md:546`) | a project move overtakes the write (`delivery-compose-worker.ts:305`): the worker gives it up, marks the job succeeded, and the report may stay pending; `EveryDeliveryIsPresented` excepts it by `cut` |
| a timeout or error of the model: "job retries within bounds" (`rich-delivery-messages.md:546`) | they are swallowed and the fallback is presented in the first attempt |
| every mutation has its change row in the same transaction (`database/docs/testing.md:70`) | `Persist` and `Announce` are two statements; a crash between them leaves a report that no client is told of until the job is claimed again |
| "startup requeues stale processing rows" (`mission-data-webhooks-api.md:311`) | nothing does: `StrandedOnlyByDrop` says who strands them, and no action takes them back |
| the last backoff is 24 hours (`webhooks.md:199`) | the attempt that would wait for it is the last one, so it is never used |
| a redelivery starts again | of a message in flight, it is undone by the late mark of its dispatcher (`overtaken`) |
| a user who enables a subscription again starts from zero | an attempt that is in flight may disable it at once, with the count that it read before |
| a system notification when a subscription is disabled (`webhooks.md:203`) | there is none |
| a task that outlives its transaction fails loudly (`client.ts:42`) | a statement called while the transaction is ending runs after the COMMIT (`stray`) |

## 8. Not modelled

Within the modelled parts: the `position` field of a PATCH (no client sends it) and
PATCHes of several fields at once; `completed_at`; the board column of the mission
(to review, to execute) and the board positions; re-attaching with a session key
in `MissionLifecycle` (it is in `ExecutionQueue`); the order in which deliver's tail deletes
the blank drafts it read, where they were doubled (one step); creating missions, and the protocol
call that creates one from a prompt; the rows that calls only append (events, deliveries,
rationales, artifacts, the change feed).

In the background parts: the text that the model is asked for and answers, prompts,
webhook payloads and signatures, the ping of a subscription, several subscriptions; of the
web application everything but the stream and its cursor.  Section 3 names the
abstractions of each module.

Parts that are not modelled at all, each with its reason, are in the components list of
`PROJECT.json`: calendar arithmetic, prompts, object storage, registrations, git, access
control, extensions and user interfaces.

## 9. Plan

1. The leads-to properties of section 6 as safety: for each, the measure that its fair
   steps lower, as an action property that can be proved (for `ComposeJobs`, the attempts
   and lapses left, as `AttemptsAreOwed` bounds them).
2. Access: the administrators of a workspace, or of an organisation
   (`organizations.ts:466`), are counted before one is removed; two removals at once.
3. Schedules: the next date of a recurrence against a reference definition, over bounded
   inputs.
