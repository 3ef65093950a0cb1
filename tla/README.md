# Verification of the BeetleShield backend

TLA+ models of the BeetleShield backend (Go, gin, GORM on PostgreSQL, MinIO, an
external hardening engine), checked with TLC on small instances and, for the
properties that matter most, proved with TLAPS for every value of the constants.
`PROJECT.json` maps every definition to the lines it stands for.

## The system

| Component | State | Operations | Hard parts | What makes it correct |
|---|---|---|---|---|
| Hardening task repository (`internal/repository/hardening_repository.go`) | tables `hardening_tasks`, `hardening_steps`, `hardening_logs`, column `apps.status` | create with steps, next queued, mark running, record artifacts, complete, fail, recover, start and finish a step; list and statistics | conditional updates, two tables in one transaction, row locks | one active task per app, app status mirrors the task, steps in order |
| Hardening requests (`hardening_service.go`) | none of their own | Create; List, Get, Logs, report, download link | count and insert under the app's row lock; the strategy frozen at creation | as above; the rules shown are the rules run |
| App management (`app_service.go`) | table `apps`, package objects | Upload, Delete, reads | two stores without a common transaction; check, then delete | a listed app has its package; an app with an active task stays |
| Hardening worker (`internal/worker/hardening_worker.go`) | one task in memory, work directory, uploaded keys | recover, poll, run six steps, upload, complete, roll back, fail | crash or failure between any two calls, deferred functions, ignored errors | a task always ends; a completed one can be downloaded; a failed one leaves nothing |
| Server process (`cmd/server/main.go`) | signal context | start, graceful shutdown bounded by 15 s | the worker is cut off anywhere | recovery at the next start |
| Object storage (`pkg/storage/minio.go`) | objects | put, get, delete, presign | answers lost or late | |
| Engine runner (`internal/worker/engine.go`) | child process, two pipes | start, scan lines, kill, drain, wait | a blocked child and a waiting parent; 1 MB lines | always returns; success means no line was lost |
| Log polling (`Logs`, `AppendLog`) | `hardening_logs` | append from two goroutines, read after an id | commit order is not id order | a page of a finished run is complete |
| Strategy center (`strategy_service.go`, `strategy_repository.go`) | table `strategies` | read, save, promote the default; create, update, delete named ones | read, decide, save without lock or transaction; `Save` is an upsert | one default, unique names, deletions last |
| Accounts, login, roles (`user_service.go`, `auth_service.go`, middleware) | table `users`, tokens | login, create, update, disable, seed an administrator at start | role in a token outlives a change; check, then insert | e-mails unique; only administrators, or a start of the server, make administrators; a disabled user is locked out |
| Risk scoring, report, engine command (`hardening_report.go`, `hardening_command.go`) | none (pure) | flags, options, score, level, report | three readings of one strategy, tables, floor, rounding | they agree; more protection never scores worse |
| Dashboard (`dashboard_service.go`) | none | six queries | no common snapshot, midnight | the numbers fit together |
| Audit trail, API log | append-only tables | record | deferred records on several paths, records lost without notice | no success recorded of a statement that failed, no change without a record |

Requests run concurrently in goroutines; the worker is one more goroutine of the
same process. They share nothing in memory: all interaction is through the
database and the object store. The supervisor (`docker-compose.yml`,
`restart: unless-stopped`) starts the process again when it ends.

## Modules

    HardeningStore      tables, objects, repository methods
      HardeningApi      Create, Upload, Delete: requests in flight
      HardeningWorker   the worker goroutine
        HardeningSystem both, with start, shutdown, crash; properties
          HardeningInvariant   strengthenings used by the proofs
            MCHardening        instances for TLC
            HardeningCallProof   types, steps, artifacts, moves
              HardeningQueueProof  the queue, and the refinement
                HardeningFaultProof  what survives some faults only
    TaskLifecycle       abstract specification, implemented by HardeningSystem
    StrategyCenter      the strategies table and its requests; properties
      MCStrategy        instances for TLC
      StrategyProof
    EngineLogs          an engine run, its log rows and a polling client
      EngineLogsProof
    UserAccess          accounts, tokens, roles, audit records
      MCUserAccess      instances for TLC
      UserAccessProof
    Scoring             strategy, command, score, report over a task's life
      ScoringProof
    Dashboard           the overview's queries and the paged task list
      DashboardProof

### HardeningStore

A repository method is a guard (its `WHERE` clause, what `requireUpdatedRow`
demands) and an assignment to the tables. `Commit(ok, tx, done, failed)` is how a
caller meets it: the transaction commits and the caller goes on with `done`; it
commits but the answer is lost (`"lost"`); or nothing happens and the caller gets
an error, because the guard is false or a statement failed (`"db"`). A task's rows
are indexed by id; ids are given out in order. Of a task the model keeps the
status, the app, the status of its six steps and which artifact keys the row
names; of an app its status; of MinIO which artifacts of a task and which packages
exist. Timestamps, sizes, hashes, risk levels and texts are left out.

`apps` row locks (`SELECT ... FOR UPDATE` in `CreateTaskWithStepsForApp`) are in
`appLock`; every statement that writes an `apps` row waits for it (`Unlocked`).
The task row locks need no variable: only the worker takes them, one transaction
at a time.

`Faults` chooses what the environment does:

| fault | meaning |
|---|---|
| `db` | a statement fails, its transaction is rolled back |
| `lost` | a commit or a PutObject takes effect, the caller sees an error |
| `store` | an object-store call fails without effect |
| `fs` | a file system call fails |
| `long` | a storage error text exceeds the `varchar(500)` columns |
| `crash` | the process dies |

### HardeningApi

One client is one request in flight. `CreateFind`, `CreateLock`, `CreateCount`,
`CreateInsert` are the statements of Create: the lock is taken by the first
statement of the transaction and freed when it ends. `DeleteFind`, `DeleteCheck`,
`DeleteRow`, `DeleteObject` and `UploadPut`, `UploadRow`, `UploadUndo` follow
`AppService.Delete` and `AppService.Upload` call by call. A request that is
refused before it changes anything (unknown app, wrong file type, too large) has
no effect and no action. One upload creates one row of `Apps`; a failed upload may
be sent again.

### HardeningWorker

`wpc` is the next call of the goroutine. `Recover` and `Cleanup` are
`RecoverRunning`; `Poll`, `Claim` and `Fail` are `Start` and `ProcessNext`;
`Mkdir` to `Complete` are `runTask` and `runStep`; `Rollback` and `RemoveDir` are
its deferred functions in the order Go runs them: the artifacts are rolled back
when an error is being returned, then the directory is removed, and an error of
the removal turns even a successful run into an error that `ProcessNext` tries to
record. The engine is external: it may fail and may leave any of the two output
files. After SIGTERM the context given to downloads and uploads is cancelled; they
fail, or had already finished.

### HardeningSystem

Start, SIGTERM, exit and crash. `Exit` may happen at any moment of the shutdown:
`shutdownTimeout` is shorter than a rollback or an engine run. A process that goes
loses its memory and its open transactions. `Boot` starts with recovery while
requests are already served. `MaxStops` bounds how often the process goes down.

Some properties name the two accidents that no later step repairs: an app deleted
under its task (`~ActiveTaskHasApp`, `~CanRecover`), after which the transaction that
would end the task finds no `apps` row, and an error text too long for its column
(`~ErrorsFit`). `AppHasSource` names a third: the object key is made of package, version
and hash, so uploads of the same file share one object, and an upload that is
`Withdrawn` (deleted, or taken back after its insert failed) takes it from the others.

### TaskLifecycle

What a user sees: apps, tasks, their states and the artifacts offered, changed by
indivisible events. `Submit` needs an app without an open task, `Begin` takes the
oldest, `Publish` shows artifacts of a running task, `Succeed` confirms exactly
those, `Abort` fails one task, or on restart all running ones together. The
refinement mapping is the identity on `appStatus`, `taskStatus`, `taskApp` and
`artifacts`; everything else is hidden.

### StrategyCenter

A row is regular, default or deleted and has a name; a request is split at its
statements. `Save` is GORM's `Save`, which inserts what it cannot update.
`GetCurrent` has an effect only without a default, when it promotes the first row.
A hardening request without `strategyId` takes the same path. The table starts
empty, with the one unnamed row of an old installation, or with a saved default.
`Abandon` ends a request at any point.

### EngineLogs

One call of `DPTRunner.Run`. The engine is external: it writes lines to its two
streams, may be in the middle of one, may hang, exit with any status or be killed;
a pipe holds `PipeCap` lines, and a line too long for the scanner's 1 MB buffer
does not fit into a pipe without a reader. `ScanLine`, `ScanTooLong` and `ScanEOF`
are the loop of `scanEngineLines`, `AppendLog` and `AppendCommit` the `onLine`
callback: an INSERT draws its id from the sequence before its row is visible, so
the two goroutines may commit in the other order, and an error of it is ignored.
`Kill` is the watcher goroutine `exec.CommandContext` starts, which is why it does
not wait for `wg.Wait`. `Drain` and `Wait` are the end of `Run`. The client reads
`Logs` with any limit, given or not, and remembers the last id.

### UserAccess

The `users` table, the tokens that have not expired, and requests split at their
statements. `Authorized` looks only at the claims, as the middleware does. `role`,
`status` and `email` of a row change as the services change them; a password is
right or wrong by choice. `Start(e)` is a start of the server with `ADMIN_EMAIL` set to
`e`, at any time: `SeedAdmin` inserts an administrator when no row has that e-mail,
whatever else the table holds; requests in flight are lost, tokens stay good. `items`
are the rows of the tables `apps` and `strategies`, which the audited requests of the
other services insert and delete. Every audited request appends to `records` what
became of its audit records: the deferred one (`Succeed`, `Fail`), the two of
`HardeningService.Create`, the one of a download; `Record` may lose a record, as its
INSERT has no error result. `effect` says what the request has done: changed something,
nothing yet, or (`"moot"`) made statements that succeeded and had nothing to change. The
code takes the last for a success: a `DELETE` of a row that another request has deleted
since the lookup (`DeleteWrite`), and a `PATCH /users/:id` without any column, which
makes no `UPDATE` at all (`UpdateWrite`). Failed statements are switched by `DbFails`.

### Scoring

Operators for `hardening_command.go` and `hardening_report.go` (flags, options,
points, floor, level, percentages, checklist), and the life of one task around
them: a draft that starts from a template is edited setting by setting, `Create`
freezes it with its rules, `Run` writes the rules file and builds the command,
`Complete` stores the level, `Restart` may change the default rules. A rule text is its
words, or none, with or without white space around them; `NormalizeVMPRules` trims its
input and returns the fallback as it is, and the default, which comes from the
configuration, may be any text. The report is computed on demand, so the properties compute it in the state where it would be
asked for. `"other"` stands for any text of an unvalidated `strategySnapshot`.
Wording, file names and hashes of the report are left out, and so is `ResMix`,
which no code reads.

### Dashboard

A clock in hours, tasks with their three times, and `GetOverview` as six queries
with anything between them. `Submit` takes `created_at` from just before its commit.
The ordered lists are sets of rows: `Position` is the row a task has under
`ORDER BY created_at DESC, id DESC`, and `Recent` and `Page` take the tasks of some
rows. `TopByRiskLevel` is the set of answers its `ORDER BY` allows, so the order of
apps of one level is left open. `Page` and `List` are the task list without filters,
read page by page by a client until a page is not full.

## Runs

Deadlock is checked in every run. `MCHardening`, `MCStrategy` and `MCUserAccess` hold
constants, sets of clients and the initial state of `restarts`; the other modules are
checked as they are.

| Run | Instance | Shows |
|---|---|---|
| `every_failure` | 1 app, 2 clients, 2 tasks, all faults but `long`, 2 stops | `OneActivePerApp`, `AppMirrorsLatestTask`, `TypeOK`, `StepsFollowTask`, `FailedClaimsNothing`, `TaskMoves`, `ImplementsLifecycle` |
| `requests` | 2 uploads of one file, 2 clients, 1 task, `db fs`, fair | `FailedLeavesNoObject`, `AppHasSource`, `CompletedDownloadable`, `RequestsEnd` |
| `restarts` | 2 apps, 1 client, 2 tasks, `store crash long`, 1 stop, fair, two initial states | `NoStepOutlivesTask`, `CompletedDownloadable`, `RunningIsOwned`, `QueuedSettles`, `QueueDrains` |
| `strategy` | 2 clients, 4 rows, 2 names, any initial table | `TypeOK`, `DefaultSettles` |
| `engine_logs` | 4 lines, pipes of 1 line, page sizes 2 and 3 for 200 and 500, failing INSERTs, fair | `TypeOK`, `SuccessLosesNothing`, `RunReturns`, `NoLateRow`, `LatePageComplete`, `EmptyPageIsTheEnd` |
| `user_access` | 2 accounts, 2 e-mails, 2 roles, 1 app or strategy, 2 requests, restarts, failing statements | `TypeOK`, `UniqueEmail`, `AuditTruthful`, `AdminsAreMade` |
| `lockout` | the same without the app and without failing statements, fair | `DisabledLockedOut` |
| `scoring` | 7 of 11 switches, all levels, shells and policies, 4 rule texts | `TypeOK`, `ClaimsAreBacked`, `FloorIsComplete`, `RulesAreKept`, `Monotone` |
| `dashboard` | 2 tasks, 2 apps, 2 days of 2 hours, lists of 1 and 2, pages of 1 | `TypeOK`, `NumbersFit`, `TrendIsToday`, `RecentIsSettled`, `TopIsOrdered`, `WalkMissesNothing` |

A run leaves out exactly the faults and races under which one of its properties is
known to fail. Three of these are runs of their own, with the smallest set of
faults that shows the failure; `PROJECT.json` quotes, for each, the comment it
disagrees with:

| Run | Property violated | Scenario |
|---|---|---|
| `delete_race` | `ActiveTaskHasApp` | Delete's check, a complete Create, Delete's `DELETE` |
| `lost_commit` | `CompletedDownloadable` | completion commits, its answer is lost, the rollback deletes the artifacts |
| `crash_orphan` | `FailedCleansUp` | the process dies after PutObject and before RecordArtifacts; recovery fails the task, and no row names the object |

Where the code disagrees with a document, and the models follow the code:

- `docs/deployment.md:282` says that `ADMIN_EMAIL` is seeded once, only when `users` is
  empty. `SeedAdmin` (`internal/db/db.go:57`) counts the rows with that e-mail: a restart
  with another value adds an administrator to a table in use. `AdminsAreMade` allows it.
- `docs/superpowers/specs/2026-07-02-backend-audit-log-design.md:115` records the deletion
  of an app only after it succeeded. Nobody looks at `RowsAffected`: of two overlapping
  deletions of one app or strategy both record a success. `AuditTruthful` allows it.
- `docs/superpowers/specs/2026-07-02-backend-hardening-pipeline-design.md:85` calls the
  stored rule text a snapshot of the rules at the time of execution. A task created
  without rules under a blank `DPT_DEFAULT_VMP_RULES` stores none, and runs with the
  default of the day. `RulesAreKept` says that there is no other way to differ.
- `docs/superpowers/specs/2026-07-02-backend-user-management-rbac-design.md:56` gives the
  purpose of the self-protection of the status request: there must always be an
  administrator left. `PATCH /users/:id` lets the only one give up the role; only a
  restart with another `ADMIN_EMAIL` helps.

Also known, and the reason for a fault left out or for a premise of a property:

- `FailedLeavesNoObject` fails with `crash` (run `crash_orphan`) and with `store` and
  `lost`, whose errors the cleanup can only log.
- A running task stays running with `long`: the error text does not fit into
  `error_summary`, and the statement that would record the failure fails.
- A listed app loses its package when the same file is uploaded twice and one app
  deleted or its insert undone, because both rows name one object (`AppHasSource` says
  that there is no other way), and with `lost`, because Upload takes the object back when
  the answer to its insert is lost.
- A crash, or a failed undo, leaves a package object without an app row, and a task's
  work directory. Two overlapping requests may give two strategies one name, which
  the design accepts.
- `NoStepOutlivesTask` fails with `db`, because the error of FinishStepFailed is
  ignored; `RunningIsOwned` fails with `db` and `lost`, because a task whose claim
  or failure was not recorded waits for the next start. With the recovery pass failing
  for good (`~CanRecover`, after a delete race) it waits for ever.
- On a strategies table without a default, overlapping requests can create two
  defaults, two equal names, bring back a deleted strategy (`Save`), and delete or
  demote a row that a GET has just promoted to the default.
- A client that polls while the engine runs may miss a row: a lower id may commit
  after a higher one was read (`LatePageComplete` speaks of a page opened later).
- Two administrators can disable each other; a token keeps its role until it
  expires. An update that took effect is audited as a failure when its row cannot
  be read back, and a Create that took effect as both.
- When midnight passes during the call, the trend shows tasks of the next day under
  today's hours. A walk over the task list with a status filter can skip a task
  that leaves the filter.

**Bounds.** Two tasks are the least with a queue order, with a task after an ended
one of the same app, and with a second task behind a stuck one. Two clients are
the least that race; the races here are pairwise (the row lock has one holder, a
check has one later write). Two apps separate a task's app from the rest, and are two
uploads of one file in `requests`, where one task is enough: what is at stake there is
what a call that fails leaves behind. Two stops let a recovery be interrupted and
repeated. `restarts` has two initial states: the empty one, and `OverlapInit`, in which a
Delete has passed its check, a Create for the same app and one for another have been
answered, and nothing has run. `Init` reaches it with two clients (Upload, Upload,
DeleteFind, DeleteCheck, Create, Create); from there one client is enough, because
whatever the delete race breaks is broken by the `DELETE` that is pending and by the
worker, while further requests find the queue full. The stuck task, the recovery pass
that fails for it at the next start, and the second task behind it are all reached.
Clients are interchangeable, so `ClientSymmetry` is sound in `every_failure` and
`user_access`, which check no liveness. Four strategy rows leave two free
after the default and a first named one. Four
lines let one block behind a full pipe while the other stream goes on, and fill more
than one page. Two accounts are an actor and
a target; an e-mail may be taken or free, one of the two seeds the first administrator
and the other one a second; the role `auditor`, which no audited
route accepts, behaves like a token that is refused. `lockout` has no failing statements:
a statement that fails issues no token and leaves the account as it was. The settings
that are not in
`Switches` only set an engine flag of their own, or one that another switch sets. One
rule text, blank ones and padded ones tell kept rules from lost and from added ones. Two
hours a day make a first and a last hour, and `MaxNow` passes midnight once.

**Fairness.** In `HardeningSystem` the worker and a request in flight are strongly
fair: the Go scheduler runs them, and PostgreSQL grants a row lock in the order of
the waiting statements, so a wait that is enabled again and again ends. `Exit` is
weakly fair because of `shutdownTimeout`, `Boot` because of the restart policy.
Requests need not arrive and the process need not stop. In `EngineLogs` the
goroutines, the task's timeout and the kill are weakly fair and an open page keeps
polling; nothing is assumed of the engine. In `UserAccess` a request in flight goes
on and a token expires (`JWT_EXPIRE_HOURS`); nobody need log in or be disabled.

## Proofs

Proved with TLAPS for any sets of apps, clients, keys, users, roles and e-mails, any
number of tasks, stops, strategy rows, accounts and log lines, any pipe size, any set
of switches and rule texts, and, unless a hypothesis is given, any set of faults. The
assumptions are those the modules declare: sets disjoint from their null values, bounds
natural numbers.

| Module | Theorem | Statement |
|---|---|---|
| `HardeningCallProof` | `TypeCorrect` | `Spec => []TypeOK` |
| | `StepsFollowTaskAlways` | `Spec => []StepsFollowTask` |
| | `FailedClaimsNothingAlways` | `Spec => []FailedClaimsNothing` |
| | `TaskMovesAlways` | `Spec => TaskMoves` |
| `HardeningQueueProof` | `OneActivePerAppAlways` | `Spec => []OneActivePerApp` |
| | `AppMirrorsLatestTaskAlways` | `Spec => []AppMirrorsLatestTask` |
| | `ServerImplementsLifecycle` | `Spec => ImplementsLifecycle` |
| `HardeningFaultProof` | `CompletedDownloadableAlways` | without `lost`: `Spec => []CompletedDownloadable` |
| | `FailedLeavesNoObjectAlways` | without `lost` and `store`, `MaxStops = 0`: `Spec => []FailedLeavesNoObject` |
| | `AppHasSourceAlways` | without `lost`: `Spec => []AppHasSource` |
| | `NoStepOutlivesTaskAlways` | without `db` and `lost`: `Spec => []NoStepOutlivesTask` |
| | `RunningIsOwnedAlways` | without `db` and `lost`: `Spec => RunningIsOwned` |
| `StrategyProof` | `StrategyTypeCorrect` | `Spec => []TypeOK` |
| | `DefaultSettlesAlways` | `Spec => DefaultSettles` |
| `UserAccessProof` | `AccessTypeCorrect` | `Spec => []TypeOK` |
| | `UniqueEmailAlways` | `Spec => []UniqueEmail` |
| | `AuditTruthfulAlways` | `Spec => []AuditTruthful` |
| | `AdminsAreMadeAlways` | `Spec => AdminsAreMade` |
| `EngineLogsProof` | `LogsTypeCorrect` | `Spec => []TypeOK` |
| | `SuccessLosesNothingAlways` | `Spec => []SuccessLosesNothing` |
| | `NoLateRowAlways` | `Spec => NoLateRow` |
| | `EmptyPageIsTheEndAlways` | `Spec => []EmptyPageIsTheEnd` |
| `ScoringProof` | `ScoringTyped` | `Spec => []TypeOK` |
| | `RulesAreKeptAlways` | `Spec => []RulesAreKept` |
| | `ClaimsAreBackedAlways` | `Spec => []ClaimsAreBacked` |
| | `FloorIsCompleteAlways` | `Spec => []FloorIsComplete` |
| | `MonotoneAlways` | `Spec => Monotone` |
| `DashboardProof` | `DashboardTypeCorrect` | `Spec => []TypeOK` |
| | `NumbersFitAlways` | `Spec => []NumbersFit` |
| | `TrendIsTodayAlways` | `Spec => []TrendIsToday` |
| | `TopIsOrderedAlways` | `Spec => []TopIsOrdered` |
| | `RecentIsSettledAlways` | `Spec => []RecentIsSettled` |
| | `WalkMissesNothingAlways` | `Spec => []WalkMissesNothing` |

*Types.* `TypeOK` is inductive; one lemma per store operation, one step per action.

*Steps, artifacts, moves* (`HardeningCallProof`). `CallInv` ties the worker's
program counter to the tables: which task it holds (`WorkerHolds`), that the step
it is in is running and those before it have succeeded wherever a call could write
to them (`InStep`), and that the task of every such call is still running. This is
what makes the unguarded `RecordArtifacts` and step updates harmless. A step of a
request cannot disturb it, because requests only insert rows; so the invariant is
proved once for database steps of the worker (`WorkerDbStep`) and once for those of
requests (`RequestDbStep`).

*Queue* (`HardeningQueueProof`). `OneActivePerApp` is not inductive: between
Create's count and its insert nothing in the tables says that the app has no active
task. `LockHeld` says that the requests after their lock hold it, one per app;
`CountStands` that a request about to insert still finds no active task;
`IdsInOrder` and `ActiveIsLatest` that ids are given out in order and an active
task is its app's last, which is what lets completion write the app's status. Both
theorems follow from their conjunction, `QueueInv`.

*Lifecycle* (`HardeningQueueProof`, second part). Each database transaction is one event
of `TaskLifecycle` if its caller has made sure of what the event asks for, and every
other step leaves the mapped variables alone. What the callers have made sure of is
`QueueInv` (an insert finds no open task) and `PromiseInv`: the worker claims the oldest
queued task (`TakesOldest`), it publishes only with an unsigned artifact (`Collected`,
`Recorded`), completes with what it has published (`OffersFiles`), and a request that
deletes has found the app (`DeletesKnownApp`). No fault is excluded: a lost answer
leads to another event later, never to a state the lifecycle does not have.

*Faults* (`HardeningFaultProof`). Each theorem excludes the faults under which its
property fails, and nothing else: requests overlap freely, and uploads may have any keys.

| Theorem | Its invariant | Without the hypothesis |
|---|---|---|
| `CompletedDownloadableAlways` | `UploadsKnown`: the worker knows what it has uploaded, records exactly that, and takes objects back only while the task is running | `lost`: the completion commits, the worker believes it failed and rolls the artifacts back (run `lost_commit`) |
| `FailedLeavesNoObjectAlways` | `NoStrayObject`: an object belongs to a completed task or is one the worker knows it has uploaded | `store`, `lost`: the cleanup can only log that a deletion failed; a stop: nobody remembers an object put before it was recorded |
| `AppHasSourceAlways` | `PackageKept`: whoever is about to delete a package does so for an app that is not in the list, and a package that is missing, of a listed app or of an upload whose insert is still to come (`Uploading`), has such an upload of the same key to blame (`MayMiss`) | `lost`: Upload takes back the object of a row that was inserted |
| `NoStepOutlivesTaskAlways` | `StepsClosed`: the worker leaves no step of its task running, unless the error is too long to be recorded at all | `db`, `lost`: the error of FinishStepFailed is ignored |
| `RunningIsOwnedAlways` | `NoneForgotten`, while `CanRecover`; once an app was deleted under its running task, that task stays as it is (`ForgottenStays`), and there is nothing left to show | `db`, `lost`: the statement that records the claim or the failure fails |

*Default strategy* (`StrategyProof`). `OneDefault` alone is not stable: a request
that has read the row before it became the default may still delete or demote it.
`Settled` adds that no request is on its way to promote a row, that a pending save
of the default aims at the default row and that a pending update or deletion does
not; it follows from `OneDefault` when no request is under way, and every step
keeps it.

*Scoring* (`ScoringProof`). The type invariant needs that the signature policy is
normalised before it reaches the command. `RulesAreKept` and
`ClaimsAreBacked` are not inductive: while a task is queued nothing but `Frozen` says
that it has rules unless there were none to freeze, so that the worker's second
normalisation keeps their words (`Normalized`), and that the command, once there, was
computed from the snapshot. `FloorIsComplete` is arithmetic over the six scores, each of which takes few
values: with one dimension incomplete at least 7 points are missing, and the floor is
5. `Monotone` goes from settings to flags (`MoreFlags`), from flags to points
(`MorePoints`) and from points to the level (`LowerRisk`).

*Accounts* (`UserAccessProof`). A step does one of four things to the table (`RowStep`):
nothing, a new row with a free e-mail (by a start of the server or because an
administrator asked), a role or a status for an existing row. This
needs `Flight`, what a request knows from its first lookup: the row it found is still
there, and the token it came with names somebody who has been an administrator
(`AdminsKnown` says so of every token, however old). Types, `UniqueEmail` and
`AdminsAreMade` follow from `RowStep`. `AuditTruthful` speaks of finished requests;
`Ledger` says for each earlier point of a request whether its statements have taken
effect and it has recorded something, which is where the forms of recording (deferred, explicit, only
on success) differ.

*Engine run* (`EngineLogsProof`). `Placed` follows every line from the engine into the
pipe, to the goroutine and into the table or `dropped`; only a kill may take one away.
`HoldsLine` says that a goroutine that is done without an error has seen the end of its
pipe after the engine ended, and `RunOrder` that Run goes on only when both are done.
With `run = "ok"` all places but the table are empty. The type invariant needs a count
(`IdsCovered`): ids drawn and lines still waiting are no more than the lines written.
For a late page, `LateInv` says that it has read exactly the rows up to its `after`:
what has a lower id than a row of a page is on the page too (`PageIsInitial`), and by
`NoLateRow` no row joins. A page is empty only when nothing is left (`PageIsNotEmpty`).

*Overview* (`DashboardProof`). `since` is a multiple of the day, so a task created
between it and the next midnight has exactly one hour of today (`OneHour`, the
uniqueness of division). The counts are a snapshot; later the sets they counted only
grow, because rows stay and `created_at` is not written again. `Dated` says which of a
task's times its status has set, so one row read in one snapshot shows a status and a
duration that agree. For the walk, `WalkInv` keeps every old task whose row lies before
the page to be asked for among those seen: rows only move back (`RowsMoveBack`), and a
page with a task behind it is full (`FullPage`), because the rows of a finite table are
numbered without gaps (`Numbered`, by counting), so a page that is not full is the last.
`PageInv` bounds the page: a walk goes on only after a page that was full.

`NumbersFit` needs sums: the cardinalities of the parts of a set add up
(`ClassesAddUp`, once for statuses and once for hours), and a mean lies between its
values (`MeanIsBounded`, used for the type of the average). The sums of the library's
folds are recursive functions, so each fact is an induction over the parts of a finite
set. The induction theorems of the library cannot be cited; `AllNumbers` and `AllParts`
state induction for the members of a set, `T`, instead of for a predicate, and follow
from the well-foundedness of strict inclusion on finite sets. `SumsExist` proves that
the recursive function is defined at all. `FitInv` then follows the view through its
queries: what a later query counts contains what an earlier one counted.

Only model-checked: liveness (`QueuedSettles`, `QueueDrains`, `RequestsEnd`,
`RunReturns`, `LatePageComplete`, `DisabledLockedOut`), which is out of the prover's
reach. `EmptyPageIsTheEnd` is what is proved of
`LatePageComplete`: a page that comes to an empty answer is complete; that it comes to
one is left to TLC.

## Not modelled

Routing, configuration, JSON, CORS, the static files of the frontend and the package
manifest parser carry no shared state. Requests that only read one row or one list
(`Get`, `History`, the lists of apps, users, strategies, audit records and API
requests) have no action. The filters of the task list and of the logs, the level of
a log line, names, departments, passwords, sizes, hashes and texts are left out. In
`HardeningStore` the order of `created_at` and of the ids agree. Work directories and
orphan packages left by a crash are not counted. A helper process of the engine that
outlives it and keeps its pipes open is not modelled.

## Plan

1. Done: store, requests, worker, server process, abstract lifecycle; strategy
   center; engine run and log polling; accounts and audit records; scoring; dashboard.
2. Done: proofs of every invariant and action property the passing runs check, and of
   the refinement of the lifecycle.
3. Worth having: an abstract specification of the audit log, and completion, failure and
   recovery split at their row locks, so that a cycle of those could be looked for.
