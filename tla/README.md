# Lightdash: TLA+ models of the query pipeline, its caches and migrations

This directory holds TLA+ models of the part of Lightdash that runs queries for
people and of how its processes share one database: the life of an
asynchronous query, merges of queries, the results cache, the scheduled clears
of that cache, the rotation of the OAuth sign-ins warehouses are reached with,
the lease under which one process migrates the database, and the quiesce of the
scheduler while it does. Each component has a module, an `MC` module and
configurations for TLC, and a `Proofs` module checked by TLAPS. `PROJECT.json`
lists the runs, the mutated forms that show each property can fail, the lines
of source each definition stands for, the hazards, the findings and the
theorems. Paths below are relative to `src/packages/backend/src/`.

## Inventory

Lightdash is one backend with a Postgres database, run as several processes:
API servers, scheduler workers (graphile-worker), NATS query workers and the
migrate command. They share no memory. What orders them is the guards of SQL
statements, a work-queue stream, one advisory lock, one lease and a few
compare-and-swaps, so that is what the models are about.

| Component | State | Operations | Hard because | Correct when |
|---|---|---|---|---|
| `query_history` rows (`models/QueryHistoryModel`) | status, results file, cache columns | create; guarded updates to QUEUED, EXECUTING, READY, ERROR, CANCELLED, EXPIRED | every process updates rows with no lock between two statements | finals stay final, a READY row has its file |
| Execution (`services/AsyncQueryService`) | where each submission and run stands, uploaded files | submit, cache hit, publish, run in process, claim, verify the connection, bind, run, close the file, land, release, fall back, fail, cancel | submitter, worker, canceller and clock interleave; every step can fail | one owner per query, answers uploaded before they are announced, every query ends |
| Queue and workers (`nats`, `clients/NatsClient`) | stream in memory, consumer, worker loops | publish, fetch, ack, nak, term | ambiguous publish, redelivery by old consumers, loss, crashes | nothing is started that was stopped |
| Merge (composed) queries (`services/QuerySourceService`, `AsyncQueryService`, `docs/merge-queries`) | DAG of legs and joins, references, calls of cancel | submit in order, wait for references, look again for a cancel, cascade a cancel and retry it | a join waits on the stream its legs are queued in; cancels stop half-way | no wait is for ever, a cancel ends the legs it should and no others |
| Results cache (`ee/services/CommercialCacheService`, `AsyncQueryService`, `QueryHistoryModel`, `ProjectModel`) | generation and lifetime of a project; key, age, file, mark of rows | look up, insert, inherit a clear, take a key late, land; clear a project or content; change the lifetime | a lookup and the row it leads to are four statements; hits on hits | cleared or old results are not served |
| Scheduled clears (`ProjectService.clearDueResultsCaches`, `ProjectModel`) | cron, next run | hourly sweep: read, flag, claim; edits | sweeps overlap, edits come between read and claim | one clear per run, edits win, nothing due is forgotten |
| Refresh-token rotation (`models/RefreshTokenRotation`, `services/OAuthRefresh`, credential models) | flights and slots in memory, advisory lock, token on the row, the provider's side | share a flight, queue, lock, read, exchange, persist, commit; sign in again; edit the credentials | one-time tokens, two servers, new sign-ins, failures between exchange and commit | a spent token is not sent, a new sign-in is kept, an answer is committed |
| Migration lease and the migrate command (`database/migrationLease`, `scripts/migrate`) | lease row, run ledger, Knex lock, applied migrations, each process's step | up, wait, claim, beat, announce, migrate, retry, park, complete, take over, unlock | holders crash, stall past their expiry and wake up; an operator forces the lease open | one migrator with a timely heartbeat, success means migrated, a parked version rests, every command ends |
| Scheduler quiesce (`scheduler/SchedulerMigrationQuiesce`, `SchedulerWorker`) | probe and its cache, permits of workers, runners, resumes under way | read the lease, grace period, drain, resume with a ramp, shutdown, health probe | the lease turns while a start, a drain, a resume or a shutdown awaits something | no job under a lease after the grace period, one resume starts runners, the pod comes back |
| Scheduler jobs (`scheduler/SchedulerTask`, `SchedulerClient`) | jobs, deliveries | daily generation, delivery, retry | crashes, retries, clocks | no delivery is made twice or forgotten |
| Pre-aggregates (`ee/services/PreAggregateMaterializationService`) | definitions, materializations | refresh, switch, serve | switching under readers | no stale or missing table is read |
| Agent grants and approvals, deep research runs | grants, requests, run records | request, approve, revoke, claim, heartbeat | revocation during a run | no run under a revoked grant |
| Compilation, dbt, warehouse clients, content, users, frontend, CLI, formula | | | I/O, parsing, single-statement access | out of scope, see the end |

How they interact: a submission looks the results cache up, inserts a
`query_history` row and then lands a hit, publishes a job, or runs the query in
the API process; a worker claims the row, gets a warehouse client (which may
first refresh an OAuth token through the rotation), streams the results to a
file, closes it and lands READY with the cache columns a later lookup reads.
Clears and scheduled clears write the project's generation or marks on rows.
A merge submits several such queries; the executor of its join polls the rows
of the others. The client polls the row. When a release starts, the migrate
command of one process holds the lease, and scheduler pods that read it stop
taking jobs until it is clear.

## Modules

The first nine of the plan are done. All but the rows of `query_history`, which
`AsyncQueryExecution` and `ComposedQueries` extend, are independent.

1. `QueryPromise` (abstract): what a poller is promised. A query runs, then is
   answered with one file, fails, is cancelled or expires; an answer may later
   be reported as failed, nothing else changes.
2. `QueryHistory`: the table. One action per guarded statement; a false WHERE
   clause leaves the row, as in SQL. `TableSpec` lets anybody send anything.
   It refines `QueryPromise` (`Promise == INSTANCE QueryPromise WITH ...`).
3. `AsyncQueryExecution`: EXTENDS `QueryHistory` and composes the submission
   (`submitter`), the stream (`message`, `deliveries`), the executors (`pc`,
   `job`, `attempt`: worker loops, and one background executor per query for
   runs inside the API server), the age of rows (`late`) and closed files
   (`uploaded`). One action is one statement another process can see.
4. `ResultsCache`: lookups, inserts, the inheritance of clears and landings as
   separate steps; a content clear is a snapshot (`ClearSnapshot`) and a commit
   (`ClearCommit`); `updated`, `expires`, `gen`, `marked`, `file` are columns.
5. `ScheduledClears`: sweeps with `ReadDue`, `Claim` (the compare-and-swap),
   `GiveUp`; the schedule's edit and the two statements of a time-zone edit.
6. `RefreshTokenRotation`: flights (`leader`), admission (`active`,
   `waiters`), the advisory lock, the leader's transaction step by step, the
   row (`stored`, `signIns`), edits of it (`draft` is the token an edit has
   read, `validated` the one it is going to save) and the provider (`latest`).
   A token is the pair of a sign-in and a turn; `lost` records sign-ins whose
   latest token a failure took.
7. `MigrationLease`: the row of the lease (`holder`, `expired`, `current`,
   `parked`), the ledger (`outcome`), what is migrated (`applied`, `graphile`),
   Knex's own lock, and the steps of each process as a follower or a holder,
   with its heartbeat, and of the operator's unlock.
8. `SchedulerQuiesce`: one pod. The probe (`reading`, `cached`), the quiesce
   (`leaseActive`, `generation`, `grace`, `resumes`, `quiesced`), the runners
   and their workers, and the shutdown. An action is what the event loop does
   between two awaits.
9. `ComposedQueries`: EXTENDS `QueryHistory` with the submission of a DAG
   (`node`, `refs`), the stream joins and legs share, executors whose run is a
   claim, a wait and an outcome, and calls of `cancelAsyncQuery`.

A definition with a suffix such as `ClaimUnchecked`, directly above `Claim`, is
a mutated form: what a plausible slip in that code would make of it. No
specification uses one; it is there to show that a property notices.

A variable called a history changes no behaviour. It remembers what a property
has to except, or what it relates the present to: `overtaken`, `dropped`,
`cleared`, `lost`, `reverted`, `editSpent`, `late`, `overdue`, `overridden`, `stopped`,
`cascaded`, `unseen`, `answered`, `left`.

Correspondence. `PROJECT.json` maps each definition to lines. The choices that
are not obvious:
- A results file is named by the run that writes it, which is what
  `createUniqueResultsFileName` achieves with a random suffix. Results storage
  is taken to be enabled; without it READY carries no file.
- `bound` queries are those tied to a warehouse connection whose grant is
  checked again before the run; `Verify`/`VerifyFails` are that check.
- `CrashServer` ends the submission and the background run of one query. A
  crash of a process that serves several is a sequence of these.
- The mark of a content clear is set by one UPDATE. Under READ COMMITTED its
  snapshot is taken at its start, and its marks show at its commit; one content
  clear is under way at a time. Clears of rows a miss inserts during the UPDATE
  are excepted by `ContentClearHolds` through `overtaken`, and are the subject
  of a finding.
- Queries over other results (`Derived`) are keyed by the files they read. The
  row of such a query has a key of its own (its uuid stands for it) until it
  takes the shared key: on a hit as it lands, without inheriting a clear; on a
  miss a DuckDB query before it runs and a Python query where it lands. A row
  that comes by a key a clear has already gone over is in `overtaken`.
- The rotation's `SignInAgain` replaces the token whole, and waits for an
  uncommitted write of the row, as the row lock makes it (`Writable`).
- An edit of a project's connection reads the stored secrets (`ReadForEdit`),
  merges what the form leaves out, exchanges the refresh token to see whether
  the connection works (`ExchangeForEdit`, from
  `_resolveWarehouseClientCredentials`) and writes all secrets back
  (`SaveEdit`), under no lock. The Databricks U2M and Snowflake resolvers drop
  the token the provider answers with and save the one they have sent
  (`retained`); Databricks M2M saves the next. `editSpent` records the tokens
  such exchanges spent. What an edit overlaps it may undo: `reverted` records
  the sign-ins of a token that came back and of the one it replaced. The
  configuration of an instance writes back what it read without an exchange
  (`WriteBack`). An edit may also bring a sign-in from its form or from the
  person who makes it, exchange that and save it (`SignInByEdit`, one step
  since nobody else holds the token before).
- One edit of a row is under way at a time. A person's own row that holds the
  same token, and the copy an edit pushes to the previews of a project, are a
  second row of one sign-in, which is not modelled.
- `run` gives the slot back and then settles the flight's promise in the same
  turn of the event loop: `Finish` is one step.
- A process of the migrate command claims at most once, so its claim token is
  the process. That the last heartbeat is older than the expiry is the flag
  `expired`, which any beat of the owner clears. The ledger has a row per
  process and attempt. The heartbeat has a connection and a timer of its own,
  so `Beat` and `BeatFails` interleave with the holder's steps, and
  `ExitOnLoss` is the exit its callback asks for, which may come late.
- In the quiesce a runner is registered only when Graphile has connected, so a
  drain misses one that is still starting; such runners are in `overtaken`.
  `ReadAnswers` and `ReadResumes` hand the one read under way to all calls that
  joined it. `RunnerDies` and `StartFails` end the pod, which its orchestrator
  replaces.
- In `ComposedQueries` a leg that is not for DuckDB has an executor of its own,
  which is any loop of the warehouse stream or the API process; how that run
  goes in detail is `AsyncQueryExecution`. Cancels are of queries whose uuid
  was returned. What a join reads besides its own legs is chosen when its row is
  made, among the queries submitted before.

## Runs

| Run | Instance | Question | Size |
|---|---|---|---|
| `redelivery` | 1 query, 2 workers, `MaxDeliver` 2, all targets, on the stream or in process; all losses and crashes, or none and fair | ownership, uploads, expiry, stopped queries; does the table keep its promise, and does a query end where nothing is lost? | 49 k states |
| `cache_clears` | 3 queries with one key, the third over DuckDB, a chart and an explore that overlap in one of them, 1 project clear | do clears hold in every order? | 1.5 M states |
| `cache_lifetimes` | 2 queries, the second a Python query, clock to 6, lifetimes 2 and 5, buffer 1, runs up to 2 | lifetimes and content clears, also after runs longer than the buffer | 11.5 M states |
| `scheduled_clears` | 2 sweeps, clock to 3, fair | sweeps and edits | 6 k states |
| `rotation_safety` | 3 calls: 2 of one client on a server, 1 of another on a second; 1 row that is edited, 1 new sign-in | tokens | 9.3 M states |
| `rotation_queue` | 4 calls, 1 slot, 2 rows, fair | slots, answers, and does every call wait for one that can go on? | 0.25 M states |
| `migration` | 2 processes of one release, 2 Knex files and a Graphile step, 2 attempts, fair | who migrates, what a displaced holder may do, ledger and lease, does every command end? | 1.1 M states |
| `quiesce` | 3 runners, concurrency 2, 2 turns of the lease or failed reads, fair | is the pod quiet under a lease, and back after it? | 0.4 M states |
| `composed` | a merge of one leg, a composed query that may read both, one loop, one canceller, 1 loss, fair | waits and cancels; does anything stand still, and does every query keep the promise? | 0.85 M states |
| `fallback_on_error_row`, `clear_during_lookup`, `long_run_outlives_window` | | the findings, below | violated |

Bounds and why they suffice. Each query has one submission and, by the claim,
one run: one query with two deliveries to two workers shows every race on a
row. That queries on one loop do not block one another is asked in `composed`,
where they also wait for one another. A chain
of three queries with one key shows a hit on a hit with a clear between any two
steps. `MaxTime`, `MaxGeneration`, `MaxSignIns` and `MaxDeliver` end counters
that only grow, and `MaxTurns` the exchanges of edits, which may follow one
another for ever. `MaxWait` and `MaxRun` bound the time from a row's insert to
the start and the end of its run: nothing in the code ties the second to the
expiry buffer, so `cache_lifetimes` lets runs last twice the buffer.
`cache_clears` stops the clock to afford a third query; time and clears meet in
`cache_lifetimes`. Three calls on two servers give the rotation a call that may
join a flight on its own server, or take the slot after it, and another
client's call that meets it only at the lock of the row.
Two sweeps are enough for every overlap, since a third meets the same
compare-and-swap. Two processes give the lease a holder and a follower that
takes over, or two rivals; each claims once, so they also stand for a holder
that is displaced. Two Knex files are the fewest with a step between them, and
two attempts the fewest with a retry. Two turns bring a lease that comes and
goes, or goes, comes and fails to be read; the third runner is room for a
resume next to the two of the pod. One leg, a join and a second reader on one
loop are the least in which a join can stand before what it waits for and a
cascade before another reader; the loss is an executor or a submission that
dies. The proofs cover all instances.

`CHECK_DEADLOCK FALSE`: finite instances of these systems stop when every
query, call or command has ended, or the pod has.

Fairness.
- Execution: submissions and runs go on (promises settle, warehouse queries
  return or time out), and worker loops fetch. Weak fairness per submission,
  delivery and executor. `FairSpec` uses `Work`, which leaves `Loss` out:
  crashes, a lost stream, and two error paths that leave a row unfinished.
  Those two, `BuildFailsUnreported` (AsyncQueryService.ts:4832) and
  `VerifyFailsUnclaimed` (4732 with `updateClaimedQueryToError`), are gaps in
  the code rather than environment; they are listed as hazards.
  `redelivery` checks behaviours with and without losses together: `lossy`,
  which never changes, tells them apart, and `EndsUnlessLost` is about those
  without.
- Scheduled clears: some scheduler worker runs the hourly task, and a database
  that fails a sweep does not fail every sweep, hence strong fairness of
  `Claim` for one sweep.
- Rotation: the pool, the lock, the exchange and the commit answer or time
  out, hence weak fairness of each leader. The timers of waiters are left out
  on purpose: the hand-over of slots must suffice without them.
- Migration: followers poll and a holder's promises settle; the lease of a
  holder that has ended expires. Nothing makes a follower give up, a living
  holder's lease expire, or an operator come.
- Quiesce: reads answer or fail, the grace timer, jitters and ramps fire,
  runners start and stop, jobs end. No turn of the lease is fair; `ComesBack`
  assumes that it settles as clear in a pod that does not stop.
- Composed queries: submissions go on, loops fetch, what was fetched is run.
  The 15-minute limit of a wait (`WaitFails`) is not fair, so that no join may
  need it; `EveryQueryEnds` is about behaviours without losses.

## What the runs show

- The table keeps the promise whoever updates it; cancelled, failed and
  expired queries are never answered later, and files are never replaced.
- A query has one owner, even when its job is delivered twice. A file is
  complete before a row names it. An answer is only taken back after an
  ambiguous publish or a failed release of the connection.
- Without losses every query ends, on the stream and in process. So do joins that
  share the loops of their legs: a DAG is submitted in order, so a job never
  waits for one behind it on the stream, and while a query runs something can
  go on without a wait timing out (`NoStandstill`). Each query of a merge keeps
  the promise made to whoever polls it, cascades included (`EveryPromiseKept`).
- A join runs only over answers, and never after it was cancelled in its wait.
  The cancel of a merge takes no leg from another query that can be seen to
  read it, and once answered, after retries of one that died half-way too,
  leaves no leg running but those.
- Project clears hold for every chain of hits, because a hit keeps the
  generation of its source. Content clears hold but for rows that come by
  their key unseen by the clear: hits inserted while its UPDATE runs, and
  DuckDB and Python queries that take the key late; and but for results whose
  run took longer than the expiry buffer, once their row has left the window of
  a clear. Hits never make results younger.
- Each scheduled clear is made at most once, an edit made after a sweep has
  read is never overwritten, and a due clear is not forgotten.
- A refresh token that was spent is not sent again, unless a failure between
  exchange and commit lost its successor, an edit of the connection that
  overlapped a write brought it back, or an edit has spent it itself: the
  exchange that validates an edit (ProjectService.ts:6480-6488, 2561-2590) takes
  no lock, and for Databricks U2M and Snowflake the token just sent is saved.
  `docs/warehouse-client-factory.md` says so (lines 46-48, at the repository's root), hence no finding. A
  newer sign-in is never overwritten by a rotation. Slots add up; a call that is not answered waits for one that can go
  on, whichever flights fail (`NoCallIsStranded`), and every call is answered.
- Processes whose heartbeat is in time migrate one at a time. One that is
  displaced unawares does one more step of the migration at most: its next
  attempt may clear the Knex lock of its successor before it asks for its
  token. A run recorded as succeeded migrated both schemas, nobody works on a
  parked version, and every command ends. A follower may end with success
  although Graphile's migrations have not run: a claim and an unlock clear
  `current_migration`, the only sign of them it looks at (cli.ts:811-816, 846).
- Under a lease a pod takes no job once the grace period is over. No resume of
  an earlier turn starts a runner beside those of a later one, none starts in a
  pod that stops, and the pod comes back with all its workers. Its probe fails
  only where `run()` marks a pod as not quiesced although the lease became
  active while its first runner connected (SchedulerWorker.ts:421). A worker
  that begins to wait for a permit after `stop()` has cancelled the waiters is
  told by nobody: that shutdown takes until its deadline.

Findings (runs that are expected to be violated):
- `fallback_on_error_row`: a completed pre-aggregate run whose connection
  cannot be released marks the row ERROR and still falls back to the warehouse,
  whose READY cannot land; the comment at AsyncQueryService.ts:5727 promises a
  row that is not final.
- `clear_during_lookup`: a hit whose row is inserted while a content clear's
  UPDATE is running reads its source before the mark is committed, and so
  revives the cleared results that `inheritCacheInvalidation` is to keep away.
- `long_run_outlives_window`: the window of a content clear counts from the
  submission of a query, a lifetime from the landing of its run. Only the
  expiry buffer of 10 minutes makes up for the difference, and a long warehouse
  run, or a DuckDB query that waits up to 15 minutes for what it reads and its
  turn in the queue, exceeds it. Its results can then still be served when a
  clear no longer looks at their row; the comment at AsyncQueryService.ts:8840
  says the window is wide enough. It takes the longest lifetime, and lasts
  as long as the run exceeded the buffer.

## Proofs

TLAPS proves the following for every number of queries, workers, sweeps, calls,
servers, rows, processes, runners and every value of the bounds, from the
`ASSUME`s of the modules. The type invariants and `RowInv` are proved for
every module and are in no run.

- `QueryHistoryProofs`: `RowInv` is inductive. `TableKeepsPromise`: each
  statement is a step of `QueryPromise` or a stutter, using `RowInv` (a final
  row's file is what it was). One lemma per statement.
- `AsyncQueryExecutionProofs`: `ExecutionInv` strengthens the run's invariants
  with what each `pc` knows: a worker past the claim holds a row that was
  claimed and is not EXPIRED (`Claimed`, `NotExpired`), its job has a message in
  the stream (`OfMessage`), a query that runs in process has none
  (`InProcessAlone`), and nobody has the query before it is handed over. The
  claim's WHERE clause makes a second owner impossible, and everything else
  follows. `AnswerTakenBack` and `StoppedBeforeTaken` are action properties
  from the same invariant; `ExecutionKeepsPromise` comes from the table's
  lemmas, as every action is a table statement or leaves the rows.
  `NobodyIsForgotten` is about `WorkSpec`, the steps without losses: a claim is
  let go only with a final row, and what nobody has claimed is still handed
  over (`AttendedInv`). `RunsEnd` is a measure of what an executor has to do,
  which each of its steps lowers.
- `ResultsCacheProofs`: the invariant is a lineage. A row with a file agrees in
  age and generation with the run that wrote it, and a run a project clear
  followed is of an older generation. `ProjectClearHolds` and `ServedWithinTtl`
  follow. Content clears need more (`ClearInv`): how much older a row may be
  than its results, that a row whose key a clear goes over is marked, will be
  marked at the commit, will inherit the mark, or is overtaken, and that what
  the clear does not look at is past serving unless its results outlive the
  window (`Outlives`). `ContentClearsHold` assumes nothing of the length of runs.
- `ScheduledClearsProofs`: a sweep whose schedule was edited, or whose run was
  claimed, holds a run that is not the present one, so its compare-and-swap
  fails; runs served are all in the past of the present one, so `clears` counts
  them.
- `RefreshTokenRotationProofs`: `RotationInv`. Only the holder of the lock can
  be between read and commit, so the token on a row is the provider's latest
  unless the holder has exchanged it and is about to replace it, an edit has
  spent that very token, or the sign-in is in `lost` or `reverted` (`Fresh`).
  The token in use is the stored one, or an edit has replaced it by a later one
  (`Held`); the answer is the latest, or an edit has spent it since
  (`AnswerKnown`). An edit saves what it has read, or the next token its own
  exchange brought (`Drafts`); as long as it goes on the row does not fall
  behind what it read (the lemma `RowAdvances`), so what it overwrites is
  either that token or recorded in `reverted`; and what an edit has spent is
  older than the latest (`SpentIsOld`). `Saved` says why a persisted call has
  written or need not; `Issued` that an older sign-in is stored only where an
  edit brought it back. Slots play no part there and are counted apart:
  `active` is the cardinality of the calls that hold one, each queue holds
  waiting calls once, and nobody waits while one is free; `SlotsAddUp` and the
  bound of `TypeOK` follow. `NobodyIsStranded` puts that together with
  `UnderwayInv`: who leads a flight is in it, and who holds the lock of a row
  uses it. `CallsAreAnsweredInSteps`: no call takes a step back.
- `MigrationLeaseProofs`: `LeaseInv`. A process in its run that was never
  overdue owns an unexpired lease of a version that is not parked (`HeldInv`);
  one that began a step late has lost the lease for good, so it passes no other
  announcement (`LateInv`); what a step implies about the database
  (`DoneInv`), and about the attempts left (`RecordInv`, `RetryInv`).
  `RunsComeToAnEnd` is a measure of attempts, migrations left and steps of each,
  which every step of a run lowers; it rests on `ForwardInv`, that a migration
  taken for done is recorded, so that the next one found is a later one.
- `SchedulerQuiesceProofs`: `QuiesceInv`. Each resume has a turn of its own
  (`Turns`) and starts one runner at a time (`Starts`); the one of the present
  turn knows who is left of earlier ones (`Alone`). `Healthy` adds that a pod
  whose lease is active is quiesced, which is why a drain never takes the last
  runner of a pod that says it works. `PodsWakeUp` adds `WakingInv`: in a pod
  that has read that the lease is clear nobody waits for a permit, and as long
  as it is not whole `run()` is starting its runner or the resume of the present
  turn is under way; what that resume waits for is a runner being drained, one
  it has started or a read that has begun, and it has woken the pod before it
  starts its second runner.
- `ComposedQueriesProofs`: `ComposedInv`. Few things are ever undone: a query
  submitted, cancelled or answered stays so, and only an insert makes a row
  live. So what a wait has seen stays true (`Answers`), a join stopped in its
  wait is found cancelled by its second look (`Stops`), a leg cancelled by a
  cascade had no reader but those whose spec was not written (`Collateral`), and
  no leg starts after its merge (`Whole`). `NoCircles` takes a set of queries
  and finds the one that waits for none of the others: the first in the stream,
  or the first to have been fetched. `NothingStandsStill` follows with
  `StandstillInv`, that every running query is with its submitter, in the stream
  or with an executor. `EveryQueryKeepsPromise` is the refinement of
  `QueryPromise` query by query (`PromiseTo(q)`), since one cascade ends several.

Checked by TLC only: liveness (`EndsUnlessLost`, `DueIsServed`,
`EventuallySettled`, `EveryCommandEnds`, `ComesBack`, `EveryQueryEnds`), which
is out of the prover's reach because it needs fairness and ENABLED. What of it
is safety is proved, for every instance: that somebody is responsible for what
is not ended (`NobodyIsForgotten`, `NobodyIsStranded`, `NothingStandsStill`,
`PodsWakeUp`), and that work goes forward only (`RunsEnd`,
`CallsAreAnsweredInSteps`, `RunsComeToAnEnd`). For `DueIsServed` and for the
followers of a migration, whose polls are loops, nothing of this kind is proved.
Every invariant and action property of the passing runs is proved. The
properties of these theorems that are in no run (`Attended`, `RunsGetShorter`,
`NoCircularWait`, `CallsGoForward`, `NeverHalfAwake`, `RunsGoForward`) hold in
the instances of the runs above too.

## Plan

What is left, in order:
1. `RefreshTokenRotation`: two rows that share a sign-in, as a preview project
   and its upstream do (ProjectService.ts:5113), and refreshes without a row.
2. `PreAggregateMaterialization`: definitions, refreshes and the switch to a
   new materialization under its readers.
3. `AgentGrants`: request, approval and revocation against a run under way.
4. Daily generation of scheduler jobs, deliveries and their retries, composed
   with `SchedulerQuiesce` through the workers.
5. The hits of joins and the compile of a merge in `ComposedQueries`.

## Not modelled

The components at the end of the inventory: compilation and dbt (parsing and
I/O), warehouse drivers (their outcomes are nondeterministic here), the frontend
(the poller of `QueryPromise`), content, users and permissions (single
statements). Together with generated routes, types and tests these are most of
the repository's lines, so the models cover a small share of it. Within the
modelled parts: retention deletes of old rows, listings of the history, results
kept past their lifetime, the deletion of credentials and refreshes of
credentials that have no row, polling timeouts of clients, metrics and logging,
permissions of the callers, the texts and caps of a merge, preflight and status
of the migrate command, and the calendar arithmetic of
`getNextResultsCacheClearAt`, abstracted to a later hour.
