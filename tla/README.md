# baqueue in TLA+

A verification project for [baqueue](../src/README.md), an asyncio job queue for
Python with drivers for Redis, PostgreSQL, SQLite and memory. The modules are
translated from `src/baqueue/`; `PROJECT.json` maps every definition to the lines
it models.

    tlc -workers 2 -config PgBenign.cfg MCSqlWorkers.tla      # a run
    tlapm SqlWorkersProofs.tla                                # the proofs

## 1. Inventory

| part | state | operations | where it is hard |
|---|---|---|---|
| Job record (`serializer.py`, `job.py`, `retry.py`) | status, attempts, delay_until, started_at, batch_id, history | build_payload, should_retry, compute_delay | attempts are incremented by `pop` and compared by another copy later |
| Drivers (`drivers/*.py`) | jobs table, or hash + lists + sorted sets + indexes; batch records | push, push_many, pop, pop_delayed, complete, fail, release, requeue_stuck_jobs, promote, delete, prune, flush, increment_batch_counter, emergency_cleanup | several processes share one store; each call is one or more round trips |
| Worker (`worker.py`) | a loop, the job in hand, a queue cursor | fetch, run under a timeout, record the outcome, count the batch | one `try` covers the handler *and* the driver calls after it; a task that dies is not replaced |
| Supervisor (`supervisor.py`) | worker tasks, loops | start, stop, scale, poll delayed jobs, recover stuck jobs, heartbeat | recovery and a slow worker; scaling by name, also during start and stop; cancelling mid-job |
| Batch (`batch.py`, `events.py`) | record with counters; handlers on the event bus of the process | dispatch, callbacks | jobs visible before handlers are; counters of concurrent workers |
| Queue and dashboard API (`queue.py`, `dashboard/api.py`) | none | push, later, bulk, retry_failed, retry_job, promote, delete, prune | read, then write: what was read may be stale |
| Redis indexes (`redis_driver.py`) | four families of sorted sets over the hashes | maintenance in every call, drain in windows, reconcile, rebuild on connect, flush of a queue, bulk delete | each reads in one round trip and writes in a later one |
| Recovery from full storage (`base.py`, `sqlite_driver.py`) | a flag per driver object, sqlite's lock | guarded write, emergency_cleanup, second attempt | the flag is shared by coroutines; the cleanup is made of guarded writes |
| Pruner (`pruner.py`) | a loop | prune_once by status and age | offsets over an index that shrinks |
| Scheduler (`scheduler.py`) | entries, last run per key | tick, add, stop | shared keys, failing dispatches, a malformed expression, restarts |
| Balancer (`balancer.py`) | none | recommend | feedback with `scale` |
| Dashboard server, CLI, config, metrics | – | – | I/O and presentation |

Interaction: `Queue`/`Batch` push to a driver; each worker pops from it and reports
to it; the supervisor's poller and recovery loops and the operators' calls act on
the same driver from the same or other processes. Events go over a bus that is
local to a process. Nothing else is shared: whatever two processes know of each
other is in the driver.

What makes each part correct:

- one worker at a time runs a job; what it decides on is not out of date;
- a job runs at most `max_attempts` times, plus once for each retry or recovery;
- a delay (scheduled or backoff) is waited out; a completed job stays completed;
  a removed one stays removed; every dispatched job settles although a worker dies;
- Redis: a pending job can be found, once; the indexes agree with the hashes;
- a batch announces success and the first failure, once each, and pushes its
  callbacks when they are due;
- the Redis indexes hold each job where its hash says, and a drain examines all of
  an index, spares what is not finished, and ends;
- a write refused by a full storage cleans up once, without recursion or deadlock,
  and has then all the room that finished jobs and metrics took;
- every queue of a worker gets its turn, every entry of a scheduler its intervals,
  and no more than those.

The hazards, with their lines and the properties aimed at them, are listed in
`PROJECT.json`.

## 2. Modules

| module | models | depends on |
|---|---|---|
| `JobPayload` | the job record, reduced to what the queue decides on | – |
| `Lists` | the parts of a list that a call keeps, by their positions | – |
| `Worker` | the worker loop's control points, no driver | `JobPayload` |
| `SqlDriver` | the jobs table: every statement of the SQLite and PostgreSQL drivers | `JobPayload` |
| `SqlWorkers` | workers, retriers, supervisor loops, administration over `SqlDriver` | both |
| `RedisDriver` | hashes, ready lists, delayed set, indexes: every pipeline and WATCH | `JobPayload`, `Lists` |
| `RedisWorkers` | workers, poller, recovery, operators over `RedisDriver` | both |
| `MemoryDriver` | the dict of payload objects, the lists of ids: every call of the memory driver | `JobPayload`, `Lists` |
| `Supervisor` | start, stop, scale, worker tasks and loops, no driver | `JobPayload`, `Lists` |
| `MemoryWorkers` | one process: the pool's workers, the supervisor's loops, balancer, pruner and callers over `MemoryDriver` | both |
| `JobLifecycle` | what the queue promises, abstractly | – |
| `BatchTracker` | dispatch of a batch, counters, events, callbacks | – |
| `RedisIndexes` | the index families and the calls over many jobs, in their round trips, beside working jobs | – |
| `StorageRecovery` | guarded writes of the coroutines of one process, the cleanup, sqlite's lock, cancellation | – |
| `QueueRotation` | the worker's cursor over its queues, pop by pop | – |
| `Scheduler` | the loop over the entries, keys and last runs | – |
| `ScheduledQueues` | the scheduler's pushes fill the queues the workers ask | `QueueRotation`, `Scheduler` |
| `SqlWorkersProofs`, `RedisWorkersProofs`, `MemoryWorkersProofs`, `BatchProofs`, `RedisIndexesProofs`, `StorageProofs`, `ScheduledQueuesProofs` | theorems | their module |
| `ListProofs` | lemmas about lists, for the proofs on Redis and memory | `Lists` |
| `MCSqlWorkers`, `MCRedisWorkers`, `MCMemoryWorkers`, `MCBatchTracker`, `MCRedisIndexes`, `MCStorageRecovery`, `MCScheduledQueues` | small instances for TLC | their module |

### From code to model

**Time.** Timestamps are only ever compared with the clock. `delay` is `none`,
`future` or `due`; `started` is `none`, `fresh` or `stale` (older than
`stuck_processing_seconds`). `DelayElapses` and `ClaimAges` are the clock.

**Atomicity.** One action is one thing that other processes see at once: a SQL
statement (each is committed on its own), a Redis `MULTI/EXEC`, a single Redis
command. Redis calls that read under `WATCH` and then `EXEC` take effect only if
the hash is unchanged, so they are one action; `promote`, `delete`, `complete`,
`fail`, `release` and the prune batches read without `WATCH` and write a copy that
may be old, so the copy is a parameter. SQLite's `pop` is two actions
(`PopSelect`, `PopClaim`): inside one driver object an `asyncio.Lock` keeps them
together, two processes share the file only. Its increment of a batch counter is
two likewise (`Increment`, `ReadBack`).

**Worker.** `Worker` holds the point inside `_process` and the payload copy:
`running` is `handle()`, `succeeded` is before `driver.complete`, `completed` after it
(metric, event, `on_success`, batch), `raised` is the `except` clause. `DriverRaises`
is an exception of a driver call in the `try`. `release` and `fail` run outside any
handler: an exception there ends the task, which is `Crash`, like the death of the
process or the cancellation by `stop()`. Nothing restarts a worker (`supervisor.py`
gathers exceptions and goes on).

**Retries.** `RetryFetch` is `get_jobs(status="failed")` (any set of them: the
filters are free) or `get_job`; `RetryRelease` is one `release` per job.

**Redis indexes.** `idx:all`/`idx:queue` and `idx:status`/`idx:queue:status` are written in
pairs by every call, and a job never changes its queue; `RedisDriver` keeps one of each pair.
`RedisIndexes` has all four families as keys `<<queue, status>>` and of a hash only the
status. There a call is cut where the code awaits: a drain is `ReadWindow`
(`ZRANGE`), `ReadHashes` (the `HGET` pipeline), `WriteWindow` (the transaction, made from the
copies); a walk of `reconcile_indexes` reads and removes batches of any size, as
`ZSCAN` returns them; a rebuild on connect likewise; `flush`, `bulk_delete_jobs` and
`retry_failed` read first and write later. A worker's `complete`, `fail` and `release` write its
copy whatever the hash holds (`Finish`), the claim and the recovery check under `WATCH`
(`Claim`, `RequeueStuck`). It has no ready lists: any pending job may be claimed, however its id
was popped, and whether a pending job can still be found is the matter of `RedisDriver`, where `LPOP` and
the claim are two steps. A write made from a copy that is no longer what the hash says
puts the job into `clobbered`. Before its first step the store is empty or holds jobs
without indexes, as an older version left them.

**Full storage.** `StorageRecovery` counts the rows of each kind; a write adds any number of rows
(`push_many`) or changes one. A `DELETE` of PostgreSQL may leave `dead` rows, which take their room until `Vacuum`;
the other drivers use the space again at once. `Checked` is the test of
`auto_cleanup_on_disk_full` and of the flag, `first` the guarded attempt, `clean` the
cleanup, `again` the second attempt, `plain` an attempt without recovery. On PostgreSQL and Redis the
cleanup is four prunes, each a guarded write of its own: `frames` is the stack of
cleanups a coroutine is in, and `armed` says that the prune at the top found the flag reset.
On SQLite a call holds the lock from start to end and the cleanup is one closure.
A cancelled call resets the flag (`finally`) and releases the lock; the thread it started goes
on as a `stray`, the request it sent may have been carried out.

**Turns and schedules.** `QueueRotation` keeps of a queue only whether it has a job;
every `pop` is an action, so queues fill and empty in the middle of a scan. `passed` counts
the jobs a worker took from others while a queue waited. `Scheduler` has no clock: `ripe` are the keys
whose interval has passed since their last run, `due` those that had when the tick began
(the code compares with that time, and stamps it), `fresh` those whose interval has passed
again since. A dispatch, a failed one too, stamps its key.
`_should_run` is outside any `try`: a `Malformed` entry ends the loop when its turn comes (`Raises`). Nothing is persisted, so a scheduler
that starts again is in `Init`.

**One process.** No call of the memory driver awaits anything while it holds its
lock, so a call is one action, and so is a loop of calls with no other await in it
(`prune`, `retry_failed`). Its `obj` is the payload *object*, which a worker holds on to
when the job has left the dict (`jobs`); `complete`, `fail` and `release` put it back. A worker
awaits nothing between the end of `handle()` and the call that records the
outcome, and no later call of the `try` block can raise: `task` needs only `running`,
`recorded` and `failed`, where `Worker` has more points. `Supervisor` cuts `start()` and `stop()` at
their awaits. `scale()` has no guard, as in the code: it may come before, during and after either of them, and so may
`stop()` before and during `start()`. Three histories name what comes of that. A task is `late` if it was spawned when `stop()`
had cancelled the tasks already, by a `scale()` or by the `start()` it overtook; it is `deaf` if it was scaled away before its first
step; the pool is `crowded` if `start()` added its workers to those of an earlier `scale()`. A task is `created` until its
first step sets `_running`; a worker scaled away
(`on` is false, not in `pool`) still finishes its job; a cancelled task is gone at once,
and the job it had stays `processing`. `broken` are the jobs whose class cannot be
imported: `_process` resolves it a second time after the last failure, outside any
handler, and the task dies.

**Lists.** `list.remove`, `LREM` and the loops that filter a list keep some of its entries in
their order. `Only(s, I)` is the list of the entries at the positions `I`, written without
recursion; the MC modules assume, and TLC evaluates, that it is `SelectSeq` and that
`Without` removes what the code removes (`WithoutSelects`, `OnlySelects`, `WithoutRemovesFirst`).

**Batch.** A job is reduced to its status; `SqlWorkers` and `RedisWorkers` say what
that may do. The two statements of SQLite's increment are kept together by the
driver's lock for the workers of one process (`Local`, which shares the dispatcher's driver
object), and only for those: `Unlocked`. `Listening` says where handlers run: in the workers of the process that
dispatched the batch, after `_register_callbacks`. Whether the dispatcher called
`allow_failures()` is chosen when the record is stored.

## 3. Runs

| run | instance | shows |
|---|---|---|
| `PgBenign` | 2 jobs, 2 workers (one may die), a retrier, all administrative calls | `LeaseInv` (inductive), `CopyCurrent`, `CompletedIsFinal`; the SQL system implements `JobLifecycle`, which has one holder per job |
| `PgHostile` | premature recovery, driver errors, both workers may die, two retriers, two queues | `AttemptBudget`, `BackoffRespected`, `RemovedStaysRemoved` |
| `SqliteLive` | two-statement pop, fairness, driver errors, a retrier, one worker may die | `OneRunner`, `EveryJobSettles` |
| `RedisBenign` | fairness, one worker may die, an operator retries | `IndexesMatch`, `EveryJobSettles`; the Redis system implements `JobLifecycle` |
| `RedisHostile` | 1 job, premature recovery, driver errors, crashes anywhere, every operator call | `ReadyOnce`, `NotStranded`, `BackoffRespected` |
| `BatchSqlite` | 3 jobs, two-statement increment, 2 workers in the dispatcher's process and one, which may die, in another, fairness | `ThenMeansSuccess`, `FinallyMeansFinished`, `SuccessIsAnnounced` |
| `BatchHostile` | 2 jobs, atomic increment, driver errors, manual retries, one worker may die, fairness | `CompletedOnce`, `FailedOnce`, `FailureIsAnnounced` |
| `MemoryPool` | 1 job, a pool of 1 to 2 workers and up to 3 tasks, started twice, `scale` and `stop` at any time, premature recovery, an unimportable class, every call, fairness | `OneRunner`, `NotStranded`, `BackoffRespected`, `StopIsFinal`, `PoolIsWhatRuns`, `EveryJobSettles` |
| `RedisUpkeep` | 2 jobs, a pruner that drains failed jobs and an operator that makes every call, windows of one id | `NoSilentDrift`, `RebuildIsWhole`, `NothingPassedOver`, `PruneSparesUnfinished`, `DrainAdvances` |
| `StorageFull` | both kinds of driver, 2 coroutines of which one may be cancelled, other processes, writes of one row and of two, dead rows, room for 2 rows, fairness | `GuardReleased`, `GuardStopsRecursion`, `SpaceIsReclaimed`, `CallsReturn` |
| `FairTurns` | a worker with 3 queues, 5 entries (one cannot be imported, two share a key, one of them and a malformed one are added later), driver errors, fairness | `TurnComes`, `OncePerInterval`, `EveryEntryRuns`, `EveryQueueServed` |
| `BatchLastFails` | 2 jobs, one process, no faults, fairness | violates `FinallyRuns`: section 5 |

`CHECK_DEADLOCK FALSE` throughout: when every job has settled and nothing is left to
dispatch or to retry, the system is at rest; a scheduler that was stopped is over.

**Bounds.** Two jobs are enough for every property but batch counting to go wrong:
each property speaks of one job, and the second is there to be confused with it.
Ready lists of one job suffice for `ReadyOnce` and `NotStranded`, which a re-push of
*that* job decides; `RedisBenign` has two. `MemoryPool` has one job too: its object is shared by all that
hold it, `max_attempts` 2 is one retry and one exhaustion, and the three tasks
are what the pool's properties speak of; the balancer's thresholds (`Some`, `Lots`) are 1
and 2 where the code has 5 and 10, so that a backlog of two ids makes it scale.
`Tasks` must leave room for a worker that was scaled away and is busy; `MaxStarts` 2 is one
restart after a stop. `MaxHasty` 1 is one call of `scale()` or `stop()` that finds the supervisor starting, stopping, stopped, or
with workers that have not begun; calls that find it settled are not bounded, and the theorems bound nothing.  Two workers give every interleaving
of a holder and a rival; `max_attempts` 2 gives one retry and one exhaustion. `MaxGrants` (retries and premature recoveries per job) and
`MaxFaults` (operator calls and premature recoveries) are 1–3. Recoveries after a death
are not bounded: deaths are as many as `Crashable`.

`RedisUpkeep`: one queue, so that both families of a status and both of the queue exist, and
statuses pending, processing and failed, all that drains and retries tell apart. Windows of
one id (`Batch`) over an index of two give every way an offset can go wrong: an entry
before it, in the window, behind it. `MaxHolders` 1 is the copies of one job that workers hold at
once; `MaxClobbered` 1 lets one job be written from an out-of-date copy, and with
`Retire` workers let that job alone from then on, while every call of the keepers still meets
it. Tag and age filters are a set of jobs fixed when a drain begins; the code evaluates
the age once per window. `StorageFull`: `Capacity` 2 rows is the least with a row to purge and one
that stays; `MaxDepth` 2 is one nested cleanup, a third would be the same again; one
thread left behind per coroutine. The writes are one that takes the room of both rows and one that
makes a row that can be purged. `FairTurns`: `passed` is counted up to the number of queues, which
`TurnComes` never lets it reach.

**Fairness.** Weak fairness of each worker's loop (`while self._running`, and
`wait_for` bounds every handler), of the poller and the recovery (`while
self._running` with a sleep), and of the clock. None for dispatchers, operators or
failures. Liveness is checked with one worker that never dies, because the code
replaces none (`MemoryPool`: as long as one in the pool has not died and the
supervisor runs; the balancer, the pruner and the callers of `scale`, `start` and `stop`
may act or not); and Redis liveness without a death inside `pop` (section 5).
`StorageFull`: weak fairness of a coroutine that is in a call (`Proceeds`), as the event loop
runs it and each request returns or raises; strong fairness of taking the lock, because an
`asyncio.Lock` wakes its waiters in the order they came. None for cancellations, stray
threads, other processes or new calls. `FairTurns`: weak fairness of the scheduler's loop and of each
worker's, whose pushes, pops, jobs and sleeps end, and of the passing of each interval; a
worker that an error of `pop` ended is not restarted, so `EveryQueueServed` is about one that
goes on, and `EveryEntryRuns` about a scheduler that is not stopped and has no malformed entry.

## 4. Proofs

For any number of jobs, workers, queues and retriers.

Every invariant and every action property that a passing run checks is stated by a
theorem, and so are both refinements. What a theorem assumes of the
constants is in its ASSUME: it is what the run's configuration sets, and section 5 shows
what happens without it.

*Types.* `SqlWorkersProofs!TypeCorrect`, `BatchProofs!TypeCorrect`, `RedisIndexesProofs!TypeCorrect`,
`RedisWorkersProofs!PathInvariant`, `MemoryWorkersProofs!TypeInvariant`;
of `StorageRecovery` and `ScheduledQueues` the types the invariants below need are part of
them. No run spends a property on types: `TypeOK` of every module states them and holds in
the instances.

*Exclusion* (`SqlWorkersProofs`). `OneRunner` says nothing of rows, so it is not
inductive. `LeaseInv` is: a worker past `pop` holds a job whose row is
`processing` with a fresh claim, or `completed`, or gone; no other worker holds it;
and a retrier's list names failed or removed jobs. It needs `Benign` (recovery never
premature, one retrier): two retriers that have read the same failed job really do
run it twice. `LeaseInvariant` holds for both forms of `pop`, so `RunsAreExclusive` covers
SQLite and PostgreSQL; `CopiesAreCurrent` needs the one-statement `pop`.

*Budget* (`SqlWorkersProofs`). `AttemptsAreBounded` needs no assumption but the
one-statement `pop`: whatever is recovered early, retried twice or recorded late.
The invariant is a potential: the attempts of a row, plus one if it is pending, plus the
workers whose copy would release rather than fail, plus the claims still early
enough to do so, never exceed `max_attempts` plus the grants. A claim spends the first
to gain the others, a release turns a worker into a pending row, and only a grant adds.

*Finality* (`SqlWorkersProofs`). `RemovalIsFinal` has no assumption, `DelaysAreRespected` needs
the one-statement `pop`, `CompletionIsFinal` needs `Benign` and no driver errors
after `complete`. All three rest on one lemma about what a step does to a row.

*Refinement.* `SqlImplementsLifecycle` and `RedisImplementsLifecycle`: under `Benign` every
step maps to a step of `JobLifecycle` or to a stutter. `LeaseInv` gives the abstract holder
of a job. On SQL a driver error after `complete` is excluded too, since the job then
leaves `completed`. Proved for safety; no fairness is mapped.

*Jobs on Redis* (`RedisWorkersProofs`). Three theorems have no assumption: `PendingIsFindable`,
`IdsAreListedOnce`, `DelaysAreWaitedOut`. Their invariant `PathInv` says of each job whose id is not lost that it is in its
own queue's list at most once, and, if pending, there, in the delayed set with a delay, or in the hands of a
worker in `pop`; and that no copy in the hands of a worker or an operator has a delay that is still to
elapse, so that what is written from it late can be claimed. `LeaseInvariant` (under `Benign`: recovery
never premature, no driver errors, one operator who only retries) is the exclusive hold of
SQL again, but of a driver where a claim is `LPOP` and then a transaction, and where nothing checks
the hash when an outcome is written; the indexes are part of it, as each write names the
status it moves a job from and the copy has to agree (`IndexesFollow`). `RunsAreExclusive` follows.

*One process* (`MemoryWorkersProofs`). The jobs' part needs no assumption: premature recovery,
every call of `Administer`, unimportable classes are in it. `PendingIsInAList` is inductive
with the types and the fact that ids are in the lists of their own queue. `OneWorkerRunsAJob` needs
that a job that is run is `processing` (`RunInv`); `DelaysAreServed` that a job that recovery took
from no running worker has one entry at most in all lists, only while it is pending, and while its delay lasts only among
the delayed ids (`BackInv`). `ClaimsAreCounted` is the budget of section 1, simpler than on SQL
because the payload is shared: the attempts that `should_retry` reads are those `pop` wrote.
The pool's part has no assumption either, on when `scale()` and `stop()` are called least of all.
`StopLeavesNothing` needs that who is alive is among the tasks `stop()` cancels or came late, and that the supervisor's flag
is up only while no `stop()` runs (`StopInv`), so that an overtaken `start()` creates the pruner and no other loop that goes on;
`ThePoolIsWhatRuns` that a created or working task that is neither deaf nor late is in the pool, and how long the pool can be at each
point of `start()` (`PoolInv`). What these two leave out by name is what the code lets happen: section 5, One process.

*Lists* (`ListProofs`). What the `i`-th element of a set of positions is, which entries `Only`
keeps and how often, what concatenation and `SubSeq` do to membership: stated once, without induction, from
cardinalities of intervals.

*Batches* (`BatchProofs`). With an increment that returns the record it wrote, an
event's counter has passed the value that emits it (`OnceInv`), and stays past it:
counters only grow, and the empty record `update_batch` leaves asks for
`batch.completed` at no count. Hence `CompletedIsEmittedOnce` in spite of errors, deaths
and manual retries, and `FailedIsEmittedOnce` while the record is kept. `ThenTellsSuccess` and
`FinallyTellsTheEnd` hold of both kinds of increment. The counters are numbers and the
properties are about jobs; what connects them (`TallyInv`) is a set of completed and a set of
failed jobs as large as the counters, disjoint from each other and from the jobs of workers that have yet to count. When
they add up to the total, they are all the jobs. With the two-statement increment a worker reads back more than
it wrote, never less than it counted, and what it reads is final if it adds up.

*Redis indexes* (`RedisIndexesProofs`). `IndexesDriftOnlyByStaleCopies`: for any jobs, queues,
keepers and arguments, a job is in exactly the index families of its hash,
unless some write was made from an out-of-date copy of it. (The ready lists are not in this module:
`PendingIsFindable` is about them, and leaves out the jobs lost between `LPOP` and the claim.) `NoSilentDrift`
alone is not inductive: a flush in its second step could name a job of another queue, a
retry a job that never had a hash, and a job that has not been pushed could already be
indexed. `CallsAgree` rules these out, `DriftInv` is the two with the types. Each step either
writes from a copy that agrees with the hash, and then moves a job from one set of families
to another (lemmas `Added`, `Removed`, `Changed`), or adds the job to `clobbered`, which only grows.
So a drift report has to be answered by finding the stale copy; section 5 lists the calls
that can make one. `RebuildsAreWhole`: a rebuild has before it, or in its hands, every job of the old version not yet
indexed, and if none is under way and none died there are none (`RebuildInv`). `PrunesSpareUnfinished` and `DrainsAdvance`
follow from what a drain's window and copy can be; the first does not cover a job that is retried after the drain has
listed it, which the code deletes (section 5). `NothingIsPassedOver`: what a drain still has to remove, and
what it looked at and keeps, is in the index behind its offset (`PassInv`), places being counted
in cardinalities. The proof showed an exemption the property needs: a job that the index held under a
status its hash had left (`Misfiled`) is deleted with the families of its hash's status, and the wrong entry stays.

*Full storage* (`StorageProofs`). `FlagIsReleased` and `RecursionTakesTwo` hold for any number of
coroutines, any capacity and depth. Neither is inductive: what keeps them (`GuardInv`) is that who
cleans alone has the flag set, that only a cleanup has frames, and that a frame is armed only
if its coroutine was not alone. `CleanupsMakeRoom`, for writes of any number of rows: while a coroutine that has no excuse cleans, the
rows that the prunes ahead of it will leave have room for its write beside them, and when it tries again so have all that are stored
(`SpaceInv`). The excuses are taken down when they occur: a prune that failed or was nested, others' writes, and unfinished rows that leave
no room for the write whatever is purged (`Hopeless`). The theorem is about the rows that are stored; the dead rows of PostgreSQL may still refuse
the write until they are vacuumed. Both are what `src/README.md:251` says of a cleanup that "does not free enough space".
`Held` is the sum over the five kinds of rows, written out.

*Turns and schedules* (`ScheduledQueuesProofs`). `TurnsAreFair`: for any workers and lists of
distinct queues. The measure is the distance from the cursor to a queue (`Ahead`): the jobs that
have passed a waiting queue and its distance together stay below the number of queues,
since the cursor moves past the queue it took from and no further (`TurnInv`).
`DispatchesAreSpaced`: a key that is ripe is owed a dispatch, one that has ripened again within the
tick is owed two (`OwedInv`), and a dispatch takes one from both.

*Model-checked only.* Liveness, which neither prover reaches: `EveryJobSettles` on the three kinds of
driver, `SuccessIsAnnounced`, `FailureIsAnnounced`, `CallsReturn`, `EveryEntryRuns`, `EveryQueueServed`. That `Only` and
`Without` are `SelectSeq` and `RemoveFirst`, whose definitions are recursive: `ASSUME`s that TLC evaluates on
lists of up to four entries.

## 5. Where code and words disagree

`BatchLastFails` – `on_finally` is for a job that runs "regardless of success/failure" (`batch.py:57`).
`_check_batch_failure` never compares the counters with the total, so a batch whose last job
to end is a failing one never emits `batch.completed`, and its finally job is never pushed.
TLC's trace has no fault in it: one job completes, the other fails.

### Known races

Met while choosing the conditions of the passing runs; each is one change away.

Jobs and drivers:

- `PgHostile` with `CompletedNeverFails` fails: `record_metric` or `increment_batch_counter` raising after
  `driver.complete` lands in the `except` clause of `_process` (`worker.py:158`), which records the
  completed job as failed, or releases it to run again. `on_failure` is "Called when the job fails
  all retry attempts." (`job.py:40`).
- `RedisHostile` with only `"promote"` in `AdminOps` and no other fault violates `NeverStranded`: a
  job whose delay has passed and that the poller has not moved yet loses its delay, stays in the delayed set, and the
  poller drops ids without a delay. `promote` is to "Make a scheduled/pending job runnable immediately"
  (`base.py:128`).
- `RedisBenign` with `"promote"` in `AdminOps` violates `OneRunner` (the write
  overwrites a claim), with `"delete"` `IndexesMatch` (the entry of the new
  status stays).
- `RedisHostile` leaves jobs out of `NotStranded` and `ReadyOnce` once they are in
  `lost`: `promote` was called on them, or a worker died between `LPOP` and the claim. Without
  that, `NeverStranded` fails on a single death: the job stays pending in no list, and
  recovery looks at processing jobs.
- `SqliteLive` with `BackoffRespected` fails: the claim's `UPDATE` checks the status, not
  `delay_until`, so a row that was claimed, failed and released with a delay since the
  `SELECT` is claimed at once.
- `SqliteLive` with `AttemptBudget` fails: the payload built from the stale row counts
  one attempt less than the row.
- `BatchSqlite` with `CompletedOnce` fails (workers of two processes, whose locks are two, read the total back), as
  does `FailureIsAnnounced` (two failures, both read 2).
- `BatchHostile` without `faults = 0` in `ThenMeansSuccess` and `FinallyMeansFinished`
  fails: an increment that took effect and raised, or a manual retry, counts a job twice.
- `dispatch()` pushes the jobs before it registers the callbacks (`batch.py:98-102`): workers of the same
  process can finish all of them in between, and the events find no handler. A second
  cause of `FinallyRuns` failing.
- `FailedOnce` without `RecordKept` fails: `update_batch({"status": "completed"})` replaces the
  record on every driver but memory, `allow_failures` with it.
- A Redis pipeline that fails in `complete` has already marked the payload as
  completed, so the release that follows moves the index from the wrong status.

Redis indexes (what puts a job into `clobbered`; with `MaxClobbered` 0 none of it happens, and
`NoSilentDrift` over all `Jobs` fails at once with 1):

- a worker's outcome for a job that was recovered, deleted or flushed while it ran;
- a drain, a bulk deletion or a retry whose copy of the hash is older than a claim, an
  outcome or a recovery;
- a rebuild whose pages were read while another process that had connected worked;
- a flush of a queue: what was pushed after its `ZRANGE` keeps its hash and loses its place in the
  ready list and in the indexes of the queue;
- a retry, which writes back a job that was removed after it was read.

`PruneSparesUnfinished` without `moved` and `clobbered'` fails: `_prune_index_batch` lists the index, reads the hashes and deletes in
three round trips (`redis_driver.py:741`), and a failed job that is retried in between is deleted while it is pending or runs.

`RebuildIsWhole` without `~cut` fails: a rebuild that dies after its first page leaves a global index
that is not empty, and no later `connect` rebuilds the rest. `NothingPassedOver` without `shifted` fails: entries
removed by others before the offset of a drain let it skip as many matches.

Full storage:

- `ConnectionIsExclusive` fails in `StorageFull`: a cancelled call of SQLite releases the lock while its thread
  still uses the connection, which the comment at `sqlite_driver.py:127-130` says must not be.
- Two coroutines that clean at once: the first to end resets the flag under the other, whose next
  prune may start a cleanup of its own, what the flag is there to prevent (`base.py:30-31`).
- While one coroutine cleans, a write of another that is refused is not tried again
  (`IsRefused` from `plain`), although the cleanup may be about to make room.
- `_execute_with_retry` runs the cleanup of SQLite outside of its retries (`sqlite_driver.py:116-122`): a database that is locked then
  ends the call with that error, and the write is not tried again (`PurgeFails`).

Scheduler and worker:

- An entry with the class and interval of an earlier one never runs: `First` in `EveryEntryRuns`.
- `EveryEntryRuns` without its last exemption fails: `ScheduleEntry.cron` is not validated (`config.py:40`), `_should_run` is called outside
  any `try` (`scheduler.py:58`), and the error of `croniter` for one malformed expression leaves `start()`: no entry is dispatched any more.
- A restart forgets every last run, so every entry is dispatched at once.
- An error of `pop` ends the worker for good (`gone`).

One process:

- `PoolIsWhatRuns` without `deaf` fails: `scale(2)`, `scale(1)` with no await in between stops a worker whose
  `start()` has not run; `start()` sets the flag again (`worker.py:66`) and the worker goes on outside the pool.
- `PoolIsWhatRuns` without `crowded` fails: `scale(2)` before `start()`, or while it awaits its first event (`supervisor.py:74`), is followed
  by `min_workers` more (lines 78-79), and the pool is larger than `max_workers` until the next `scale()`.
- `StopIsFinal` without `late` fails: a `scale()` during the last `gather` of `stop()` (line 142) spawns workers that are forgotten uncancelled
  in the next line, and one after `stop()` spawns workers as before. Likewise a `stop()` that ends while `start()` is at an await: the workers
  that `start()` creates afterwards go on, and so does the pruner (`overtaken`).
- The memory driver brings back a job that was deleted or flushed while it ran: the
  outcome call puts the object into the dict again. `stop()` cancels busy workers; the job
  waits for recovery, with its attempt spent.
- Once the class of `max_workers` jobs cannot be imported, no worker is left and the
  pool still counts them all (`Served` in `EveryJobSettles`).

## 6. Not modelled, and the plan

Not modelled: HTTP and WebSocket serving and the front end, the CLI and the loading of
configuration (input, output and presentation; the operations on jobs they call are
modelled); (de)serialisation and `compute_delay`'s arithmetic, of which nothing but "a delay or none"
reaches a decision; queries other than the one a retry makes; metrics and supervisor
statistics, counters for people to look at; `flush()` of everything; schema creation; events
other than the batch's; cron expressions, an interval like any other here, or malformed; of the supervisor's calls a `start()` while another
`start()` or a `stop()` runs or after one that a `stop()` overtook, and a second `stop()` before the next `start()`.

What remains worth doing, in this order:

1. Proofs: that `MemoryWorkers` without premature recovery implements `JobLifecycle`, as the others do; the
   invariant parts of `BatchTracker` for drivers that fail (what a batch still promises then).
2. `RedisWorkers` as an implementation of the jobs of `RedisIndexes` (`Push`, `Claim`, `Finish`, `RequeueStuck`), so that
   the two Redis models are shown to agree.
3. The heartbeat and its expiry beside the recovery of stuck jobs, if the code comes to use it.

The number of runs is kept at a dozen: new components join existing instances or
replace runs whose question a theorem or a recipe above has answered.
