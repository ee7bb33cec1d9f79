# Verification of llm-event-analysis in TLA+

TLA+ models of the services in `src/`, the TLC runs that check them on small
instances, and TLAPS proofs of the results that hold for every instance. Paths
below are relative to `src/`; every definition's lines are in `PROJECT.json`
(`map`).

## The system

```
 producers --HTTP--> ingest-svc --> Kafka topic (partitions)
                                        |  consumer group
                                        v
                                 processor-svc (replicas) --poison--> DLQ topic
                                        |
                                        v
             PostgreSQL: events, event_summaries
                                        |
   clients <--HTTP--> analyzer-svc (triage jobs, analyze) <--> Redis, model API
```

| component | state it keeps | operations | hard behaviour |
|---|---|---|---|
| ingest-svc (`services/ingest-svc/ingest.go`, `main.go`) | the producer's buffer, the ready flag | POST /events, /events/batch: validate, enrich, produce each event, answer per event; ping the brokers; drain on SIGTERM | a batch half published, results in the brokers' order, deadlines racing answers, handlers racing the drain |
| processor, `consume` (`processor.go:19-52`) | what the Kafka client has fetched, the record in hand | poll, decode, publish poison to the DLQ, send down `batchCh` | partitions lost and regained with records still in memory |
| processor, `processBatches` (`processor.go:73-159`) | the slice `batch` | collect, flush on size or tick, commit offsets, drain on cancellation | crash or failed call between write, count and commit; retry of a kept batch; shutdown |
| processor, database (`db.go`) | rows of both tables | CopyFrom, row-by-row fallback, `updateSummary` in a transaction with one retry | replicas that meet on one summary row; unique violations; COMMIT of unknown outcome |
| analyzer, triage jobs (`triage.go`, `cache.go`) | two Redis keys per job, the goroutine's `TriageJob` | POST: look up or create and start; goroutine: run and save; GET: read, perhaps give up | check-then-act, a poll racing the goroutine, pipelines half done, expiry, a dying process |
| analyzer, triage tiers (`triage.go`, `db.go`) | the job's intermediate results | fetch summaries, ask, filter, fetch events of flagged buckets, ask, filter | tables changing between the two reads; a model that invents ids; limits |
| analyzer, analyze endpoint (`analyze.go`, `cache.go`) | answers cached in Redis by request | look up, fetch, ask, save | stale answers, slow answers that overwrite newer ones, requests with the same key, clients that hang up |
| analyzer, model client (`prompts.go`, `main.go`) | circuit breaker | one call inside the breaker, no retry, no timeout | a breaker shared by all callers, a probe that loses its client or hangs |
| readiness and shutdown (the three `main.go`) | ready flags | probes, rebalance callbacks, SIGTERM | flags written by several goroutines |
| startup, configuration, logging, metrics | | | sequential, or no state |

Components meet in three places: the topic (ingest produces, the processor's
replicas consume as one group), the two tables (the processor writes, the
analyzer reads), and Redis (handlers, goroutines and polls of the analyzer).

What makes each part correct:

* processor: a committed offset never covers a record whose event is not
  stored; an event is counted at most once, and only when stored; every record
  that can be stored is stored in the end; offsets reach the log's end.
* summaries: no update of a row is lost or made twice, the row's denormalised
  columns agree, calls return.
* triage jobs: what a client reads of a job is true and final when it says so;
  a range's key leads to a job; a polled job does not stay pending.
* triage tiers: a report cites only what is in the database and was flagged.
* ingest: "accepted" is said only of published events, and of all that the
  count counts; requests end; a shutdown lets what is being published end.
* analyze: a cached answer belongs to the request that gets it, as far as its
  key can tell, and what is cached comes to be up to date.
* model client: the breaker closes again when the model is well.

## Modules

| module | models | extends / uses |
|---|---|---|
| `EventTopic` | the topic as the processor sees it: partitions, what can be wrong with a record, event ids, `Settled` | |
| `EventStore` | abstract: the durable state (rows, counts, offsets) and how it may move | `EventTopic` |
| `Processor` | replicas of processor-svc, both goroutines, the channel, the DLQ producer, the consumer group, start, SIGTERM, crash | `EventTopic`, refines `EventStore` |
| `ProcessorInvariant` | the inductive invariants `CommitInv`, `CountInv` and `RewindInv` | `Processor` |
| `ProcessorProofs`, `ProcessorCommitProofs`, `ProcessorStoreProofs` | proofs: types and pipes; offsets; counts and the refinement | `ProcessorInvariant`, `TLAPS` |
| `SummaryRows` | rows of `event_summaries` and what counting an event does to one | |
| `SummaryLedger` | abstract: a call of `updateSummary` counts in one step or not at all | `SummaryRows` |
| `EventSummaries` | `updateSummary`, statement by statement, several replicas | `SummaryRows`, refines `SummaryLedger` |
| `EventSummariesProofs` | proofs: types, lost updates, the refinement, a row's columns, locks | `EventSummaries` |
| `TriageJobs` | triage jobs in Redis: handlers, goroutines, polls | |
| `TriageJobsProofs` | proofs: types, what Redis says of a job | `TriageJobs` |
| `TriageTiers` | the work of one job against tables that change | |
| `TriageTiersProofs` | proofs: types, what a job reports, what it is shown | `TriageTiers` |
| `Ingest` | ingest-svc: both handlers, the producer, deadlines, the health check and the graceful shutdown | |
| `IngestProofs` | proofs: types, answers, the graceful exit | `Ingest` |
| `Breaker` | the circuit breaker as operators on its state | |
| `Analyze` | POST /analyze, its cache, and the calls to the model that go through the breaker, those of triage jobs included | `Breaker` |
| `AnalyzeProofs` | proofs: types, cached answers, the breaker | `Analyze` |
| `MC*` | small topics, events and symmetry for TLC | |

### Processor: state and actions against the code

`position`, `held` are the Kafka client's; `iterPos`/`iterEnd` the iterator of
the last `PollFetches`; `sending` the item `consume` is blocked on; `chan` is
`batchCh` (capacity `2*BATCH_SIZE`); `batch` the slice; `stage` and `at` the
place of `processBatches` inside `flushBatchToDB`:

| stage | code | actions |
|---|---|---|
| idle | the `select` of `processBatches` | `Receive`, `Tick`, `Drain` |
| copy | `CopyFrom` in `insertEventsBatch` | `Copy`, `CopyError` |
| summaries | the loop of `updateSummary` after it | `CountEvent`, `Skip` |
| row, rowSummary | `insertEventsFallback`: INSERT, then `updateSummary` | `InsertRow`, `RowConflict`, `RowError`, `CountEvent`, `Skip` |
| commit | `CommitRecords`, clear the batch | `Commit` |
| returned | the goroutine has returned | |

Abstractions, each more liberal than the code or indistinguishable from it for
the properties:

* A record is its partition, its offset and four facts (parses, valid,
  storable, id). A random id is tagged with the record it was made for, so two
  are never equal.
* A poll takes any part of what lies ahead on the held partitions, from some of
  them perhaps nothing, but at least one record; the order of partitions within
  a poll is arbitrary, the order within a partition that of the log.
* A failed call may have taken effect (the answer was lost). Calls fail while
  the budget `MaxFaults` lasts, and always once the context is cancelled, when
  a call in flight may still take effect.
* `updateSummary` is one step here (`CountEvent`) and is detailed in
  `EventSummaries`. Its errors are logged and ignored, as in the code.
* A commit for a partition the replica no longer owns may be refused or taken:
  the group refuses it from an old generation, but the client commits under its
  current one after it has rejoined.
* The DLQ producer's buffer has no limit. Marshalling a `DLQRecord` of strings,
  numbers and a time does not fail.
* `SUMMARY_BUCKET_SECONDS` is positive. The channel is never closed, so the
  `!ok` branch at `processor.go:130` does not occur.
* `main` gives the goroutines five seconds after SIGTERM and exits whether or
  not they are done: `Exit` may come at any point of a stopping replica.

### EventSummaries

`step[w]` is the next statement of w's transaction, `holder[b]` who has the
row's lock or an uncommitted INSERT of it, `row[w]` what was read or is written
uncommitted. READ COMMITTED: `SELECT ... FOR NO KEY UPDATE` waits for the lock
and reads the last committed row; an INSERT waits for an uncommitted INSERT of
the same key, and then is either free to go on or a unique violation, which
`updateSummary` tries again once. The reservoir's `rand.Intn` is a choice.

### TriageJobs

`saved` and `latest` are the two Redis keys; `pc` walks the handler (`new`,
`lookup`, `createJob`, `createRange`, `accepted`) and then the goroutine
(`runJob`, `runRange`, `working`, `endJob`, `endRange`, `done`). A pipeline's
SETs are two steps, as Redis may run other commands between them, and a failing
pipeline may have done either, both or none. `latest` is indexed by what the
range's key tells apart: `triageResultsCacheKey` keeps 48 bits of a hash and
nothing compares the range of the job that it leads to (`cache.go:69-73`,
`:104-110`), so two time ranges whose hashes agree in them are one member of
`Ranges`. What `RangeLeadsToJob` says of a range is to be read so. `late` says that the job's two
minutes have passed; they never pass within the handler or the goroutine's
first save, whose Redis calls take milliseconds.

### TriageTiers

One job from `fetchSummaries` to its end, with `Store` and `Count` of
processor-svc interleaved. The model's answers are arbitrary sets of buckets and
events, existing or not. `Newest` is `ORDER BY ... DESC LIMIT n` with ties
broken arbitrarily.

### Ingest

`phase[r]` is where r's handler stands (`binding` reads the body, `publishing`
waits in `ProduceSync`), `left[r]` what is left of that phase's deadline,
`unsettled[r]` and `results[r]` the records that `ProduceSync` still waits for
and the results so far, in the order they came in. Bodies are chosen at the
start. Time is counted in ticks, and a deadline that has come is met before the
next one.

The producer is the library's: records of a request are written and settled in
any order; an unsent record is given up when the context ends; a record that was
sent is on the topic and stays unsettled until the brokers answer, whatever the
deadline, as an idempotent producer may not forget it. (A request that is lost
on its way and sent again when the brokers are back is the same as one sent
then.) Marshalling an event does not fail, and the producer is never nil, so a
batch's 503 (`ingest.go:163-176`) does not occur.

`serverLeft` is main's sleep and then `Shutdown`'s time. `inHand` remembers what
was being published when the listener closed; it is not state of the program.

### Analyze and Breaker

A connection asks one request after another; `pc` walks `missed` (looked up),
`prompted` (events read), `calling`, `answered`. An answer is the set of events
in its prompt and whether the model gave it or the stand-in text. A request is a
record of its text, its time range (the events in it) and `max_events`.

A request's key is `Hash`, a constant: `computeAnalyzeCacheKey` keeps the first
12 hex digits of the SHA-256 of the whole request (`cache.go:18-28`), which is 48
bits, and `getCachedAnalyzeResponse` returns what lies under the key without
comparing requests (`cache.go:30-49`). Nothing is assumed of `Hash`: requests may
collide, and then one gets the other's answer. `Alike(q)` are the requests that
share q's key. `CachedBelongs` says that an entry was made for one of them, so
for the request itself where none collide.

A triage job only calls the model here; what it does with the answer is in
`TriageTiers`.

The breaker is gobreaker's: `MaxFailures` is 5 by default, `OpenTimeout` the 60
seconds of its settings. `current` are the callers that were let through since
its last change of state, the only ones whose results count.

## Runs

| run | what it shows |
|---|---|
| `Processor_group` | two replicas, a partition that is taken away twice (announced or not) with one event on it twice, a failing call. `NoUnstoredCommit`, `CountedAtMostOnce`, and the refinement `StoreSpec`. |
| `Processor_restart` | one replica, two stops or kills and a failing call, two partitions with a poison record, a record without id, and a row that PostgreSQL rejects. Checks the invariants that the proofs use (`CommitInv`, `CountInv`, `RewindInv`), and `CommitsNeverRewind`: offsets do not go back. |
| `Processor_live` | liveness through a crash, a failing call and a rebalance with a batch that never fills: `EventuallyStored`. `EventuallyCommitted`, `PoisonReachesDlq`, `SummariesComplete` state in their premises what must not happen. |
| `Processor_shutdown` | violated: the flush on shutdown runs under the cancelled context and writes nothing (`processor.go:145` says drain and flush). Nothing is lost: the records are delivered again. |
| `Processor_rejected` | violated: a row that PostgreSQL always rejects blocks its partition for ever; it is not routed to the DLQ (README.md:39). |
| `Summaries` | three replicas, four events, two buckets, one failing statement: type, `NoLostUpdate`, `RowsAgree`, `RetrySuffices`, `HoldersGoOn`, refinement `LedgerSpec`, and `CallsReturn`. |
| `Triage_jobs` | two requests, two ranges, one crash, one Redis failure, one expiry: `CompleteIsTrue`, `RangeLeadsToJob`, `FinalIsFinal`, `PendingEnds`, `JobsEnd`. |
| `Triage_twice` | violated: two POSTs for one range run two jobs (`triage.go:111` claims idempotency). |
| `Triage_tiers` | an arbitrary model, tables that change, a failing query and queries at their limit, a range whose start cuts through a bucket: `ReportGrounded`, `FindingsFlagged`, `FlaggedScanned`, `RangeCovered`. |
| `Ingest` | a batch and a single request, well formed or not, a shutdown at any time, and one outage, refusal, hang-up or kill: `AcceptedIsPublished`, `CountMatches`, `DrainAnswers`, `RequestsEnd`, `ReadyFollowsBrokers`. |
| `Analyze` | two clients, three requests of which two share a key, a triage job, a key that may be missing at first, and two of: outage of the model, hang-up, failing Redis call, restart: `CachedBelongs`, `BreakerAwaitsCalls`, `CacheCatchesUp`, `BreakerRecovers`. |
| `Triage_lowrisk` | violated: invented buckets in the low-risk list are reported (README.md:35). |

The violated properties stand apart in their modules, each with the line it
quotes. Further limits that the properties state in their premises:

* Offsets may go back when a replica commits for a partition it has lost, so
  `CommitsNeverRewind` and `EventuallyCommitted` are about behaviours in which no
  partition is taken from a running replica (`rebalances = 0`; one that dies may
  lose its own);
  `NoUnstoredCommit` and `EventuallyStored` hold through rebalances.
* An event stored by a replica that dies before `updateSummary` is never
  counted: the next insert is a conflict (`services/processor-svc/db.go:59-61`). `SummariesComplete` is
  about replicas that do not die.
* A poison record's offset is committed without waiting for the DLQ producer.
* The bucket that a range's start cuts through is not read by tier 1, and no more
  than 50 are; `RangeCovered` says that nothing else is left out.
* With Redis failing, a final status may be overwritten (the goroutine's first save
  fails, a poll gives up on the job two minutes later, and both write) or a range's
  key lead to a missing job; `FinalIsFinal` and `RangeLeadsToJob` are about Redis
  answering. While it does, a poll and a live goroutine never write about the same
  job, because the first save takes less than two minutes; that is what
  `FinalIsFinal` rests on.
* Requests to /analyze whose hashes agree in 48 bits get each other's answers;
  `CachedBelongs` and `CacheCatchesUp` allow for it.
* A poison record's message that is lost after `publishToDLQ`, in a replica that
  dies or a produce that fails, is lost for good; `PoisonReachesDlq` is about neither
  happening.
* `FlaggedScanned` needs buckets no wider than tier 2's five minutes. The run has
  them as wide as that.
* A record without id gets another id at each delivery and then has two rows;
  `CountInv` and the refinement hold of each of them. An event that a client
  sends to ingest again is likewise another event.
* A job whose process dies while it runs stays "running" until its key expires
  (`triage.go:149` leaves that to a heartbeat to come). `PendingEnds` is about
  "pending" jobs, `JobsEnd` about processes that live.
* A job may be left "running" by a model call that does not return, and a call
  that hangs as the breaker's probe refuses all others: calls to the model have
  no timeout. `JobsEnd` and `BreakerRecovers` have it as a premise that they
  return.
* Publishing's five seconds do not bound a request of which a record was sent and
  not answered. `RequestsEnd` excepts it while the brokers are away, and
  `DrainAnswers` excepts requests of which something was sent. It is about requests
  that were publishing when the listener closed: one that was still sending its body
  may need five seconds for that and five to publish, which is all of `Shutdown`'s ten.
* After SIGTERM the health check may set ready again (`services/ingest-svc/main.go:145`);
  `ReadyFollowsBrokers` is about a process that is not being stopped.
* Tier 2 reads a window closed at both ends, so it may read the next bucket's
  first instant; `FindingsFlagged` allows for it.

### Bounds

`MaxStops`, `MaxFaults`, `MaxRebalances`, `MaxMints` (ids that `Enrich` makes),
`MaxCrashes`, `MaxExpiries` and `MaxFailures` are budgets for what the
environment does; they are constants of the specifications, and the proofs hold
for all their values. Two replicas show every pairwise interference, one
overtaking the other after losing a partition; two rebalances give a partition
away and back. Two or three records in batches of two give a full batch, a
partial batch and a kept batch that grows past its size. Three workers on a
summary row are one more than meet in a conflict. Four events in three adjacent
buckets show both ends of the closed window, a query over its limit and the
bucket that the range's start cuts through; there are as many whole buckets as
tier 1's limit, so the limit's clause of `RangeCovered` is not put to the test (it is proved).

`Ingest`: the batch has a valid event on either side of an invalid one, so a
record's place and its event's differ. `MaxFaults` is 1: each kind of fault meets
every state of both requests and of the shutdown. Deadlines are one tick, the
drain two, in the code's order (5 < 10 seconds). `Analyze`: two clients are what
it takes for a slow answer to overwrite a newer one; of three requests with one
text, two share a key and yet ask for different events, the third has a key and a
range of its own, so an answer under the wrong key shows; `MaxFailures` is 1, `TTL` and
`OpenTimeout` one tick: the properties ask whether things end, not when. Two
faults let the breaker open and its probe lose its client.

All runs set `CHECK_DEADLOCK FALSE`: topics, events and requests are finite and
are used up, so every model stops when its work is done. That work does get done
is the liveness properties' claim. Replicas, workers and jobs are interchangeable
where a cfg has `SYMMETRY`; no run with a liveness property uses it.

### Fairness

Weak fairness only, of what goes on by itself:

* `Processor`: both goroutines run (`Receive`, `Flush`, `Consume`), the ticker of
  `processBatches` fires, the orchestrator restarts a replica that has exited,
  the group assigns free partitions and tells a client what it lost, the DLQ
  producer drains. Not fair: `Stop`, `Crash`, `Expire`, `Revoke`, and failures.
* `EventSummaries`: PostgreSQL answers and grants a lock that is free.
* `TriageJobs`: handlers and goroutines run, time passes, clients go on polling.
  The tiers need not end: `Finish` is not fair.
* `Ingest`: time passes and main goes on, handlers run, an unsent record is given
  up when its context has ended, the health check's ticker fires, and brokers
  that stay reachable answer. Brokers need not come back.
* `Analyze`: time passes. Nothing else: clients need not ask, the model need not
  answer.

## Proofs

The assumptions are the named ones of the modules, and no others; a theorem that
needs more has it as a hypothesis of its own (`RetryIsEnough`, `FlaggedAreScanned`,
`CachedAnswersAreOwn`).

For all topics, partitions, replicas, batch sizes and budgets, from the named
assumptions of `EventTopic` and `Processor` alone:

* `ProcessorProofs!TypeCorrect`: `Spec => []TypeOK`. One lemma per group of
  actions; `TypeOK` includes that a poll ends inside the log and that a flush's
  index stays inside the batch, without which `batch[p][at[p]]` means nothing.
* `ProcessorCommitProofs!CommitInvariant`: `Spec => []CommitInv`.
* `ProcessorCommitProofs!NothingCommittedUnstored`: `Spec => []NoUnstoredCommit`.
* `ProcessorCommitProofs!RewindInvariant`: `Spec => []RewindInv`, and
  `ProcessorCommitProofs!OffsetsGoForward`: `Spec => CommitsNeverRewind`.
* `ProcessorStoreProofs!CountInvariant`: `Spec => []CountInv`.
* `ProcessorStoreProofs!NothingCountedTwice`: `Spec => []CountedAtMostOnce`.
* `ProcessorStoreProofs!ProcessorImplementsStore`: `Spec => StoreSpec`.

Why `NoUnstoredCommit` is not inductive: `Commit` takes the furthest record of a
batch per partition, and that covers records which are not in the batch. They
must be settled (poison, or stored) already, which is a fact about all that a
replica has in memory. `Pipe(p)` is the batch, the channel and the record in hand
as one sequence, and `CommitInv` says of a replica that

* everything before a record of the pipe is settled or further ahead in the pipe
  (`Ordered`);
* everything before the next record of the poll is settled or in the pipe
  (`IterCovered`), and everything before the client's position is one of these
  or still in the poll (`PositionCovered`);
* items carry what their records decode to (`ItemsOK`), and the flush has stored
  what lies behind its index (`StoredSoFar`), so that at stage `commit` the whole
  batch is settled;
* a replica that is down has nothing in memory (`DownIsEmpty`).

Every step does one of three things to a pipe: leave it (the item moves from one
part to the next), append the next record of the poll, or drop a prefix that is
settled. The proof has a lemma for each, and one per action that cites them.
Stored events are never deleted, so `Settled` is stable and one replica's step
does not disturb another's pipe. A partition assigned anew starts at the
committed offset, before which all is settled, again by `NoUnstoredCommit`.

Why `CommitsNeverRewind` needs an invariant of its own: `Commit` writes the
furthest offset of the batch, whatever the topic's is by then, and that is a step
forward only if the batch is all of the replica's own partitions and ahead of what
is committed there. `RewindInv` says so of the whole pipe, as long as nothing was
taken from a running replica: what the client holds is what the group gave it
(`HoldsItsOwn`), and a record in the pipe is past the committed offset and among
those that the client has taken up (`AheadOfCommit`). Either way a commit clears the
batch, and the rest of the pipe is still ahead, because a partition's records lie in
it in the order of the log (`Increasing`).

Why `CountedAtMostOnce` is not inductive: `CountEvent` adds to whatever the
summary holds. `CountInv` says that an event of a batch that is stored and still
to be counted (`Pending`) has not been counted and is pending nowhere else. An
event becomes pending only when its row is new (`Copy` of rows that are not there,
`InsertRow` without a conflict), so nobody has counted it or has it pending
(`CountStores`); the step that counts it strikes it off (`AdvancePending`); every
other step makes nothing pending (`CountKept`).

The refinement follows step by step: `Copy`, `InsertRow` and failing calls that
took effect are `Store!Store`; `CountEvent` is `Store!Count` by `CountInv`;
`Commit` and `Drain` are `Store!Commit` because `CommitInv` holds again after
them; the rest stutters.

For all events, replicas, attempts and failures (finitely many events, and `NoRow`
no row), `EventSummariesProofs`:

* `TypeCorrect`, `NoUpdateIsLost` (`Spec => []NoLostUpdate`), `ColumnsAgree`
  (`Spec => []RowsAgree`) and `SummariesImplementLedger` (`Spec => LedgerSpec`).
* `NobodyHoldsAndWaits` (`Spec => []HoldersGoOn`): transactions cannot deadlock, which
  is the safety half of `CallsReturn`.
* `RetryIsEnough`: `Spec => []RetrySuffices` if `MaxAttempts > 1`, as it is in
  the code; with one attempt it is false.

`WorkerInv` says what the lock is worth: from SELECT to COMMIT its holder's copy is
the committed row, so the row that it commits is the committed one with its event,
and a second attempt implies a committed row. A COMMIT that takes effect is then
`Ledger!Count`, a call that ends otherwise `Ledger!Drop`, everything else a stutter;
and the bucket's total grows by one exactly when the set of ended calls does, which
is where no two calls may be for the same event (`CallInv`).

`RowsAgree` adds up a breakdown by counting its units (`Units`, `Sum`), which needs
no recursion: one more of a severity is one more unit. `RowsInv` strengthens it: the
samples of a row are events whose calls have ended, so the event that a COMMIT adds
is none of them, and the reservoir never holds one twice.

For all requests, ranges, processes and budgets, `TriageJobsProofs`: `TypeCorrect`,
`CompleteIsNeverALie`, `RangesLeadToJobs` and the action property
`FinalIsNotReplaced`. `SavedInv` ties the saved status to where the goroutine
stands while Redis answers, and has polls give up on dead jobs only: a job gets old
at its work or after its end, when it is no longer saved as pending. `KeyInv` says
that whoever writes a range's key has written the job's.

For all events, time ranges, widths and limits, `TriageTiersProofs`: `TypeCorrect`,
`ReportsAreGrounded`, `FindingsAreFlagged`, `RangeIsCovered`, and `FlaggedAreScanned` if
`Width <= Window`. The last needs it: with buckets wider than the five minutes that
tier 2 takes for them, events of a flagged bucket are never fetched, and nothing says so.
`RangeCovered` rests on the arithmetic of whole buckets (one that holds an event from
`FirstWholeBucket` on starts inside the range) and on `RangeInv`, which has it from the
job's first read on, and the counted events finite: a bucket is left out only if
`SummaryLimit` newer ones were read.

For all requests, bodies and timeouts (`PublishTimeout < DrainTimeout`, as in the
code), `IngestProofs`: `TypeCorrect`, `AcceptedArePublished`, `CountsMatch`,
`DrainsAnswer`. `ResultsInv` says that each record of a request being published is
unsettled or has one result, and that a result without error is of an event on the
topic; the results are then in bijection with the flags. `DrainInv` says that a
request in hand when the listener closed has less time left than `Shutdown`, or has
a record on the topic: time does not pass a deadline that can be acted upon.

For all requests, events, limits and lifetimes, any number of clients and triage
jobs, every threshold of the breaker and every number of faults, `AnalyzeProofs`:
`TypeCorrect`, `CachedAnswersBelong`, `CachedAnswersAreOwn`, `BreakerAwaits`. The hash
is arbitrary in all of them but `CachedAnswersAreOwn`, whose hypothesis it is that no
two requests share a key: then an entry was made for the very request that finds it.
`AnswersInv` follows an answer
from the query to the cache: what a handler has in hand belongs to the request it
works on, whoever else asks, fails or hangs up meanwhile, and what it saves it saves
under that request's key, which may be others' too. That a query returns no more than its limit is a lemma of
its own (`NewestAreFew`: of a finite set, no more than n have fewer than n newer
ones). The breaker's part follows `current` through its changes of state: only
callers let through since the last one are in it, each of them at the model, and
each leaves it when its call ends; a late result from before the change is of nobody
in `current`.

Only model-checked: liveness (fairness and `ENABLED` are out of the prover's reach),
which is `EventuallyStored`, `EventuallyCommitted`, `PoisonReachesDlq`,
`SummariesComplete`, `CallsReturn`, `PendingEnds`, `JobsEnd`, `RequestsEnd`,
`ReadyFollowsBrokers`, `CacheCatchesUp` and `BreakerRecovers`. Every other property
of a passing run is a theorem. `TypeOK` of `TriageTiers` is a theorem
that no run checks. The violated properties are false and stay with TLC's
counterexamples.

## Mutants

Operators commented "Mutant:" are not part of the model. Each is its neighbour
changed by a plausible bug (a dropped guard, an ignored error, an off-by-one), and
stands for the question whether the property would notice; `PROJECT.json`
(`mutants`) says which property refutes which.

## Plan

1. The safety facts that the liveness properties lean on, as invariants with
   proofs: what a full channel or a pending job still has coming to it.
2. `Pipeline`: ingest, topic, `EventStore` and a reader of the summaries, with
   the abstract modules in place of the detailed ones; what a triage job may
   report of an event that ingest has accepted.

## Not modelled

* Migrations and connection retries at startup (they run once, before anything
  else), environment parsing, HTTP defaults but for the timeouts, rate limits.
* The read-only endpoints for events and summaries: one query each, which
  `Analyze` and `TriageTiers` model, behind the parsing of parameters.
* The processor's ready flag: only callbacks of the Kafka client write it before
  the shutdown does, and when the client calls them is not in this code.
* Validation of requests to the analyzer, severities, the choice of sample
  events, prompt texts and how many of the events they show, the generated
  severity stringer, logging and metrics.
* Everything under `deploy`, Helm and Tilt.
