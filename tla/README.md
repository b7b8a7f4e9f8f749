# ModaCo Promotion API: specification and proofs

TLA+ modules of the ModaCo promotion service (an Express API, an S3/SQS ingestion pipeline,
Postgres and Redis), model-checked with TLC and, for the protocols at its heart, proved with
TLAPS. Each definition is translated from the source; `PROJECT.json` names the lines
(`map`), the runs, the theorems, the hazards they are aimed at and the findings.

- [1. The system](#1-the-system)
- [2. Plan](#2-plan)
- [3. The modules and the code](#3-the-modules-and-the-code)
- [4. What the runs check](#4-what-the-runs-check)
- [5. What is proved](#5-what-is-proved)
- [6. Findings](#6-findings)
- [7. What is not modelled](#7-what-is-not-modelled)

## 1. The system

| Component | State | Operations | Talks to |
|---|---|---|---|
| **Ingestion job** (`apps/ingest`: splitter, worker, job-state, dlq, queue; `apps/api/src/ingestion`) | `ingestion_jobs` and `ingestion_chunks` rows; S3 events; chunk messages; dead letters | create job, upload, split, claim, process, complete, dead-letter; on AWS or under the local runner | S3 and SQS (at least once), Postgres transactions |
| **Chunk reader** (`core/ingest/chunking.ts`, `processChunk`) | position in a streamed byte range | computeChunks, rangeFor, ownedLines, checkedLength | ranged GET on S3 |
| **Batch writer** (`worker.ts`) | the pending batch, row counts; products, categories and rejections tables | validate, price, dedupe, upsert, fall back to single rows, count, publish | Postgres, stock counters and version counters in Redis |
| **Read-through cache** (`core/cache/read-through.ts`) | an entry, its lock, the requests that wait for it | hit, lock, build, store, release, wait, take over, give up, bypass | Redis with timeouts on every command |
| **Catalog invalidation** (`promotions/service.ts`, `cached-reads.ts`, `versions.ts`) | products, promotions; version counters; versioned entries | promotion create, cancel, assign; product creation; ingestion; GET product, GET listing | Postgres first, then `INCR` |
| **Stock counters** (`products/stock.ts`) | the stock column, a counter key with a TTL | adjust, write through, drop, backfill | Postgres first, then Redis |
| **Promotion boundaries** (`keys.ts`, `nextPromotionBoundary`) | entry TTLs | cap a TTL at the next start or end; keep a "not found" for seconds | Postgres clock, Redis TTLs |
| **Pricing and money** (`core/pricing`, `core/money`, `effectivePriceExpr`, the load client's `pricing.ts`) | the base price column | price a vendor row, discount it, recompute the discount | the batch writer, promotions |
| **Upload client** (`ingest upload` of the CLI) | the job row it saw last | create a job, PUT the file, poll, exit | the ingestion API, S3 |
| **Load engine** (`apps/cli/src/load`) | the in-flight pool, a schedule, samples of a phase, promotions to clean up, checks under way | open and closed load phases, scenarios, checks, clean-up, Ctrl-C, exit code | the HTTP API |
| **CSV, slugs, API shell, other CLI commands, schema, infrastructure** | configuration | text processing, routing, validation, printing, deployment | |

How they interact: writers commit to Postgres and afterwards tell Redis (a counter `INCR` for
catalog data, a `SET` for stock), so between the two steps every crash, failure or other writer
is possible. Readers find an entry in Redis, or build it from Postgres under a lock that other
readers poll. The ingestion pipeline is a third kind of writer, driven by queues that deliver
at least once, and it writes the same rows and bumps the same counters.

What is hard, and what makes each component correct:

- **Ingestion job.** Deliveries are duplicated, die between any two steps, and are redriven to a
  dead-letter queue while a slow one may still be running; upload events come twice. Correct: every
  chunk is counted once, no chunk is lost, the verdict says whether a chunk failed, nothing
  finished comes back to life, every job ends.
- **Chunk reader.** Lines straddle range borders, bodies come in arbitrary pieces and may be cut.
  Correct: every line is read by exactly one chunk, only whole lines are read, only over-long
  lines are refused.
- **Batch writer.** A repeated delivery meets its predecessor's rows; a fallback can stop half-way.
  Correct: counts, rejections and catalog agree at the end.
- **Read-through.** Locks expire under their holders, timed-out commands take effect later, holders
  die. Correct: a lock is never taken from a live holder, builds do not run side by side, nobody is
  answered from before his request, nobody waits for ever.
- **Catalog invalidation.** The entry's version and its data are read at different times; what a
  write must bump is itself data that other writers change. Correct: no entry reads as fresh while
  it is out of date, and an answered write is seen by every later request.
- **Stock counters.** Write-throughs, drops and backfills race. Correct: a counter at rest equals
  the column, answered writes show, and a wrong counter is removed by its TTL.
- **Promotion boundaries.** Prices change by the clock while an entry is being built, stored or read.
  Correct: what an entry shows is at most the rounding and its build out of date, and the cap
  costs no rebuild without a reason; a "not found", which no write invalidates, is brief.
- **Pricing.** Texts, cents, a margin in double arithmetic, clamps in a fixed order, and one discount
  formula in SQL and another in the client. Correct: a stored price keeps to its category's rule, a
  discount stays within the price, both formulas give the same cent.
- **Upload client.** A PUT that S3 stored may look failed to its sender; the job row is polled while
  deliveries repeat. Correct: exit 0 is the last word on the file, and client and job both end.
- **Load engine.** Answers, timeouts, a full pool and Ctrl-C meet in any order. Correct: every due
  request is counted once, the pool is bounded, a run leaves no promotion behind that it could
  know of, an interrupted run ends, and exit 0 means that everything asked for was measured.

The hazards, each at the line where it bites and with the properties that would catch it, are in
`PROJECT.json`.

## 2. Plan

In order of importance; all of it is modelled and checked, every safety property of the runs is
proved, and what is left is one composition.

1. `IngestionJob`, with `JobLedger` as its abstract specification: the job protocol. *Proved, the
   refinement included, except for liveness.*
2. `UploadClient`: the command that uploads and polls, composed with `IngestionJob`. *Proved, except for
   liveness.*
3. `ReadThrough`: coalescing for one key. *Proved, except for liveness.*
4. `StockCounters`. *Proved, except for liveness.*
5. `Pricing`: a product's price from the vendor's text to the discount. *Proved.*
6. `CatalogCache`: writers, counters, entries. *Proved.*
7. `ChunkReader`: ranges and lines. *Proved.*
8. `BatchWriter`. *Proved.*
9. `PromotionTtl`. *Proved.*
10. `LoadRun`. *Proved, except for liveness.*
11. `ChunkReader` and `BatchWriter` composed into the one delivery that `IngestionJob.Process` stands for (the
    counts a chunk adds to its job are those of the tables). *Not begun.*

Abstract specification: `JobLedger` is what the client of an upload is promised. For the caches the promise
is a register whose reads return the last answered write or a newer one; it is stated by invariants
(`AnsweredWritesAreSeen`, `AnsweredStockIsSeen`, `NeverOlderThanRequest`), as each of the caches breaks it in exceptions
of its own.

## 3. The modules and the code

Throughout: one action per step that another process can observe or that a crash can separate;
data is abstracted to what the properties tell apart; faults are bounded by a constant and enumerated
in the module's comments. Constants carry named assumptions. `MC...` modules only add symmetry sets
and values of constants. Definitions headed
"Mutant" are not used by any specification: each is a plausible bug in the definition that
follows it, kept to show that the properties notice it.

### IngestionJob, JobLedger, UploadClient

One job. `job` and `chunk` are its rows in the two tables, `event` the S3 notifications together
with the splitter invocation that handles each, `msg` the chunk messages together with the worker
invocation. A slot holds a message and its one invocation because the visibility timeout (360 s)
outlasts the worker's time limit (60 s); two invocations on one chunk come from duplicated or
re-sent messages, which occupy slots of their own.

- Splitter: `SplitHead` (job read and HEAD; the later writes check the status again),
  `SplitEmpty`/`SplitCommit`/`SplitRaced` (the transaction and its guard), `SplitSelect` (the pending
  chunks), `SplitSend` (one entry of a `SendMessageBatch`, so a partly failed batch is `SplitSend`
  some times and then `SplitFail`), `SplitDone`. `SplitParks` selects the event source: the local
  runner's queue retries for ever, AWS retries twice and then hands the event to a failure queue.
- Worker: `ReadChunk`, `Claim`, `Process`, `MarkCompleted` are the four places where `processChunk`
  touches the rows; `WorkerDies` can happen between any two and covers kills, throws and a lost
  delete. `Process` chooses the number of rejected rows freely (BatchWriter says what it is).
- Queue: `Receive`, `Duplicate`, `VisibilityTimeout` with the redrive at `MaxReceives`;
  dead-letter handler: `MarkFailed`, `DeleteDeadLetter`, `RedeliverDeadLetter`.

Left out: the columns `error` and `attempts` (nothing reads them for a decision), messages of unknown
jobs (thrown or ignored by the handlers), and which bytes a re-uploaded object has.

`JobLedger` knows only the announced chunks, how each was settled, the row tally and the verdict.
`LedgerSpec` in `IngestionJob` maps the rows onto it.

`UploadClient` extends `IngestionJob` with `client`, where `ingest upload` is (its exit included), and `shown`, the job row
it exits with. `Put` stores the object; its answer reaches the command or comes too late. `PutFails` is a refused or
timed-out PUT, after which the object may still be stored by a later `Put`. `Poll` is the poll that finds the job
ended (the others change nothing the properties see), `PollFails` one that fails, which ends the command. The job
itself goes on by its own actions. Left out: progress output and what is printed of rejections.

### ReadThrough

All requests for one key, as they go through `readThrough`: `Check`, `TakeLock`, `Poll`, `GiveUp` (the
wait budget, or the client left), `BuildRead`/`BuildEnds`/`BuildUncached`/`BuildFails`, `Store`, `Unlock`,
and `RedisFails`/`HolderRedisFails` for a command that failed or timed out. A timed-out command stays on
`wire` and may take effect later, in the order its connection sent them. `lock` holds the token of a
request; tokens are never reused (they are random). Time is abstract: the lock may expire at any moment
its TTL allows. `version` is the data's version; `Invalidate` moves it. `lost` and `excused` are history
variables: they record that a lock expired under its holder, and that one of the documented reasons to
build side by side occurred. Left out: the configuration without Redis.

### CatalogCache

One product, its category, one promotion and one cached entry; the data is the number of the last commit.
`scene` says which entry a behaviour follows (the product's, a category's listing or the whole listing), which operations
its writers perform and which faults can happen; no counter of another entry can influence it, so one run
covers every entry and every mix of writers in `Scenes`. A writer's step that only reads (`PromoteRead`, `CancelRead`,
`AssignRead`, `IngestRead`) plans the counters to bump, its commit changes the tables, and then `Bump` increments one
counter at a time (an `INCR` pipeline is not atomic). `assign` holds the row lock from its read to its commit.
A worker that dies between commit and bump is repeated (`retry`). Requests follow `cached-reads.ts`:
`CheckListing` in one round trip, `CheckProduct` and `Confirm` in two; a build reads the product's category
(`Lookup`), then the versions (`Stamp`), then the data (`Fetch`), then stores. `changed` is the last commit
that changed what the entry shows, `announced` the last whose writer has answered. History variables:
`lost` (counters that miss a bump), `misdirected` (a commit whose bumps were planned on a category, or a
cancellation planned on a target, that had changed by then), and the `epoch` of Redis' data in an entry.

Merged or left out: the two reads of `cancel`; INCRs that a retry duplicates (more bumps only
invalidate more); the query of the next boundary; coalescing (any number of requests may build).

### StockCounters

One product's stock: a level is the number of the write that set it (deltas and limits do not matter to
who sees what). `Write` commits; `Set`/`SetFails`, `Delete`/`DeleteFails` are the write-through and the drop;
`Get`/`Fetch`/`Fill` a read that misses. Late commands are on `wire`, in the order of their caller. The three
exceptions are history variables: `overlapped` (two writes under way at once, so their SETs may arrive out
of order), `raced` (a backfill under way when a failed write's delete arrived) and `unpublished` (a write
that got neither its SET nor its delete through). `Expire` waits for the requests in flight, as the TTL of
300 s outlasts each of them.

### ChunkReader

A file is its length and the offsets of its newlines; a line is its first offset and its end. `Open` requests
a chunk's range, `Piece` delivers any number of bytes, `NextLine` is one turn of the inner loop and `PieceDone`
what follows it, `BodyComplete` yields the line without a newline, `BodyCut` is `checkedLength`. Decoding, the
trailing CR, the header row and blank lines are left out: the header is the first line chunk 0 yields.

### BatchWriter

The data lines of one chunk, each a row of some kind (malformed, invalid, refused by the
database, good), with a SKU and a category name; `Slug` maps names to
slugs so that names can collide. `Add` and `LastFlush` form batches; `Prepare` is `ensureCategories` (its insert
decides which names exist, its select sees them); `CommitBatch` the transaction, `BatchRefused`, `WriteRow`,
`Record` the fallback; `Count` the counters; `Complete` the chunk's completion. A delivery may die at each
step; another chunk may insert a category at each step.

### PromotionTtl

Promotions with a start and an end, and one cached entry: a product's, a category's listing, the
whole listing, or a category's slug. `Begin` fixes the instant the build prices for (`asOf`), `Lookup` finds the product or
the slug or does not, `ReadVersion`, `FetchPage` and `FetchBoundary` are the reads that follow, `Store` is the `SET` with
`EntryTtl`, whose seconds count from when it takes effect. `Insert` brings the product or category into being (`born`), and
`Delete` is the delete that `createProduct` attempts after it (`undeleted`); a worker's insert deletes nothing. `Passes` moves
the clock, by fractions of a second, between any two steps. A price is the promotion it comes from; of two
active promotions the one created last decides. Left out: moved promotions and products (`CatalogCache`), the
shorter TTL of empty pages, and clocks that differ between hosts.

### LoadRun

One run of either writing scenario in either load model. `plan` holds the phases to come. In the open model `Fire`
issues everything that is `Due`, and drops what finds the pool full; in the closed model a worker's answer issues its
next request. `Serve` is what the API does and `Answer`/`Refuse`/`Fail` what the client hears, so an answer may be lost after
the work was done, and work may be done after the client gave up (`stray`). `Interrupted`, `GraceOver` and `PhaseEnds` are
what Ctrl-C does to a phase; `StartSale` ... `EndSale` is the flash sale's promotion with the checks that run beside its
second phase (`pending`), `CleanUp` and `CancelOne` what write-mix cancels at the end, `Report` the exit code (`verdict`): interrupted
before failed before ok. `clean` is false after a failed check; the error rate is one, held against its default limit of 0.
History variables: `unknown`, the promotions of whose creation or cancellation the run had no word in time, and `cut`, a phase
to be recorded was skipped or cut short. Left out: latencies and percentiles, progress lines, which
price a check expects (`Pricing`), the choice of products, and the report document.

### Pricing

One product: `base` is its base price as the text the column gives back, `quote` the vendor row it comes from, `promotions`
the discounts that are not cancelled. `Ingest` is the pipeline of `priceVendorRow` (text to cents, margin, `.99` price
point, clamp) and back to text; `Promote` has the bound of `PromotionService.create`. Cents are integers and percentages
hundredths of a percent, as in the code; a money text is its whole part and its digits. The code multiplies by the margin in
double arithmetic: for amounts below ten million the error is under a ten-thousandth of a cent, so it can
only matter when the exact product is half a cent, and there `Rounded` admits both neighbours. `EffectivePrice` is
the SQL expression with `round(numeric)`, `DiscountedPrice` the integer arithmetic of the load client.

### How the modules fit together

`IngestionJob.Process` stands for one delivery of `ChunkReader` and `BatchWriter`; what a batch publishes is
`CatalogCache`'s ingest writer and `StockCounters`' writer; `CatalogCache`'s and `StockCounters`' readers are the
builders that `ReadThrough` coalesces. The modules are checked apart: each treats what the others do as
the freest environment it can (any count of rejected rows, any build time, any number of builders).

## 4. What the runs check

| Run | Instance | Shows |
|---|---|---|
| `job_reupload` | two uploads, also of another size, 2 chunks of 1 line, 1 receive, 1 copy, 2 events, an event source that parks | rows are counted once, counters equal rows, verdicts are right, nothing is acknowledged early or lost, what is final stays final |
| `upload_client` | 1 upload, 2 chunks, 2 receives, a command that polls, fairness | the job implements `JobLedger`; exit 0 is the last word; job and command end |
| `readthrough` | 2 requests, 2 versions, 2 failing commands, fairness | lock, coalescing, recency, termination |
| `cat_entries` | the product's entry under creation, promotion and batches or assignments, with a crash or a lost bump; a category's listing under everything but new promotions, with a loss of Redis' data; 2 writers, 2 commits | validity and read-your-writes |
| `cat_cancelrace` | listing, promotion writes, no faults | *violated*: see findings |
| `cat_retry` | listing, batches, a crash | *violated*: see findings |
| `stock` | 2 writers, 1 reader, 2 writes, 2 failures, fairness | counters at rest, answered writes, healing |
| `chunk_reader` | all files of up to 7 bytes, chunk sizes 1 to 3, lines of at most 2 bytes | who yields which line |
| `batch_writer` | all chunks of up to 3 rows of 6 kinds, batches of 2, 2 deliveries, 1 death | counts, rejections, last line wins |
| `promo_ttl` | 2 products in 2 categories, any 2 promotions of 3 windows and 3 targets, half seconds, a TTL of 2 s and of 1 s for a "not found" | prices are right but for rounding and build time; no early drop; a "not found" is brief |
| `load_run` | both scenarios and models, rate 2, pool of 2, 2 workers, phases of 1 or 2 ticks, a delay of 1, fairness | accounting, pool, clean-up, Ctrl-C, exit code |
| `pricing` | vendor prices, margins (negative ones too), floors and ceilings at and around their borders, discounts from 0 to 100 % and beyond | the pricing rule, the range of a discount, client and database agree |

**Bounds.** Two chunks and two messages suffice for what the job's counters can get wrong: a chunk that is
last and one that is not, and two deliveries of one chunk. Two receives give a retry and a redrive (in `job_reupload`,
where copies give the second delivery, one receive keeps the run small). A third event or message repeats these. In the caches, two writers give every order of two commits and their bumps,
and one request can build across both; with a second request only coalescing is added, which `ReadThrough`
looks at. Two commits let a promotion move and then move or be cancelled. A file of seven bytes with a limit
of two has over-long lines, empty lines, lines that start on the last byte of a chunk, and chunks inside a
line; the over-read equals the limit as in the code. A batch of two and a remainder of one distinguish
duplicates within and across batches. With half seconds and windows that begin and
end at odd ticks, every rounding occurs; two promotions overlap or follow each other, and may be cancelled. In a load
run, a rate above what the pool can hold at once makes drops, and a late tick makes a backlog at the deadline. The prices
of `pricing` are those where a text has no, one or two decimals, a product is half a cent, and a price point, a floor or a
ceiling is just met, missed or crossed. For the safety properties,
the theorems of section 5 remove the bounds of every module.

`upload_client` sets `Lines` to 0, which leaves the tally of `JobLedger` at zero: with one line a chunk the run no longer
ends in reasonable time with two receives, which matter more to it. The tally is what `job_reupload` checks with one line a
chunk (`TalliesMatchRows`), and `JobKeepsItsPromise` proves the whole of `LedgerSpec` for every `Lines`.

**Exceptions are part of the properties.** A property that has an exception names it (`lost`, `misdirected`,
`excused`, `overlapped` ...) instead of leaving the behaviour out of the model, so the run also shows that
nothing else violates it. A hazard that a property only excepts is not counted as covered by it: the list in
`PROJECT.json` names the property that catches it, or says that none does and what bounds the harm.

**Deadlock** is checked except where the system may really stop: `job_reupload` (the upload's event is parked
until an operator returns it), `readthrough` (every request has ended), `chunk_reader` and `batch_writer`
(everything was read or written), `promo_ttl` (the clock's bound) and `load_run` (the run has ended, or its bound on
requests is reached). In `upload_client` events can be redelivered at any time, in `pricing` prices can
always change, and requests keep coming in the caches.

**Fairness.** `IngestionJob`: the platform ends every invocation (it goes on or is killed), receives visible
messages and lets timeouts pass (weak fairness), and a splitter that is retried for ever gets through each
of its steps again and again (strong fairness: the local queue retries every 60 s without limit; on AWS
the property admits the parked event instead). Deaths are not bounded: `MaxReceives` bounds what a chunk can
suffer. Copies are bounded, as a queue that duplicated for ever would never drain. `UploadClient`: the PUT ends within its
time limit and the polling goes on (weak fairness); nothing is assumed of what the object store does. `ReadThrough`: commands are answered or time out,
builds are bounded by their query timeouts, waiters keep polling, TTLs pass; nothing is assumed of
deadlines, clients or crashes. `StockCounters`: requests and commands in flight end (they are
bounded by timeouts), and a TTL passes again and again (strong fairness, because a new request can delay the
step for the moment). `LoadRun`: the client goes on with its own steps (timers, clock, calls that time out; weak
fairness); nothing is assumed of the answers to the load, nor that anyone presses Ctrl-C.

## 5. What is proved

For every value of the constants; the assumptions are the named ones of the modules (bounds are natural
numbers, names are distinct).

`IngestionJobProofs`. Theorems `TypeCorrect`, `CountersAreExact`, `TalliesAreExact`, `FailureIsReported`, `AcknowledgedOnlyWhenFinal`,
`FinalRowsAndJobsStay`, `ChunksAreNeverLost`, `AccountedJobsEnd`. The properties are not inductive one by one:
that no chunk is lost needs that a splitter which committed still has to select, and that a job
which ended did so with all announced chunks final; that counters equal rows needs the
finiteness of the set of chunks and the guard of both updates; the job's row tallies are the sizes of sets of lines
(`ProcessedLines`, `RejectedLines`), to which a completion adds the lines of one chunk, disjoint from the others. The invariant is a conjunction
of such parts, each preserved in a lemma per action. `MaxUploads` is arbitrary: none of these theorems
assumes a single upload.

Of `JobLedger`, in the same module: `CompletedJobsAreWhole`, and the refinement `JobKeepsItsPromise`: for an object that is uploaded once, every behaviour
of the rows, queues and handlers is one of the ledger. The strengthening (`FileInv`) says that there is one object, that
every splitter that has read it knows its size, and that the rows of a split job are exactly its
announced chunks; then each step that changes what the ledger sees is one of the ledger's, and every other is a stutter.
With a second upload of another size neither holds (section 6), so `MaxUploads = 1` is an assumption and not
a convenience.

Of `UploadClient`, in the same module: `ClientRunsTheJob` (the composed system implements `IngestionJob`, so every theorem about the job holds
with the client) and `ZeroIsTheLastWord`: what the client saw last was final (`LastLook`), and final rows and jobs stay.

`ReadThroughProofs`. `TypeCorrect`, `LockIsKept`, `BuildsAreCoalesced`, `AnswersAreRecent`. The strengthening
says what may be on the wire: scripts (release, marker) belong to requests that have ended, so when they
arrive their token is no live holder's; and outside the exceptions there is one holder and no
request builds directly.

`ProductProofs` is about two columns of a product's row, its stock and its price. Of `StockCounters`: `TypeCorrect`,
`CounterAtRest`, `AnsweredWritesShow`. While none of the exceptions has
happened, at most one write is under way and it is the last one (`Turns`), the counter is no older than the
last answered write (`CounterRecent`), and a backfill that would bring back an older level finds the counter
there (`FillsBlocked`).

Of `Pricing`, in the same module: `PricesFollowTheRule`, `DiscountsInRange`, `ClientAlwaysAgrees`, for any texts, margins, floors, ceilings and
discounts: the run tries borders, the theorems leave no amount out. They rest on lemmas about each conversion
(a text's cents are its worth, reading back what was stored loses nothing) and about the two roundings, which agree
as long as the discounted price is not negative, that is as long as `Promote` keeps its bound.

`CatalogCacheProofs`. `TypeCorrect`, `EntriesAreInvalidated`, `ReadersSeeAnsweredWrites`, for any categories, writers,
requests and scenes. `AcceptedIsCurrent` speaks of the entry only and is not inductive: the next entry is what a build
is holding. The invariant is about *copies*, the entry and the values about to be stored. A copy's stamps are no
newer than the counters (`Behind`: so one bump makes it unacceptable for good, until Redis loses its data, which is why it
also carries an epoch); a product's copy names the category the product is in, or is out of date (`InPlace`: so a commit
planned on the present category covers it); a copy that is out of date has a due bump, a lost one or a misdirected one to
show for it (`Excused`); and without faults it waits for a writer that has not answered, or for a batch that moved the
product (`Waits`). All commits are one lemma (`CommitStep`), and a writer's operation has to show only that its planned
counters cover what it changes.

`ChunkReaderProofs`. `TypeCorrect`, `LinesAreReadOnce`, `LinesAreWhole`, `RefusalsAreRight`, for every file, chunk size and line
limit. The invariant: the buffer of an attempt starts at the start of a line, or on the byte before the chunk, and the
lines it has yielded are exactly those that start in the chunk before the buffer, each of them once and whole. That the
first newline after a position exists and is unique is the least-number principle, from the library's
theorem that `<` is well-founded on the naturals.

`BatchWriterProofs`. `TypeCorrect`, `CompletedChunkCounts`, `LastGoodLineWins`, for any file, batch size, number of deliveries and of deaths. What
becomes of a line (`Rejects`) depends on the categories there are, which other chunks change; once a batch has been
prepared the slugs of all its names are taken, and then the result of its lines is final (`Sure`, `SureStays`). As every
delivery forms the same batches, the result belongs to the line and not to the delivery: each delivery has counted the
results of the lines it is done with (`CountOK`), the rejections table holds lines whose final result is a rejection
and no others (`RecordedOK`), and a completed chunk has all of them (`ChunkOK`). That a batch is a whole block
of lines is arithmetic of multiples (`BatchEnds`, `BatchMonotone`). `LastGoodLineWins` needs a second invariant (`OrderInv`). It
keeps no history of who wrote what: which line of a batch writes its SKU's row (`Winner`) is final with the batch, and
a winner that some delivery has come to is the SKU's row, or a later line is, or some delivery
has yet to come to it (`OrderOK`). A repeated delivery that writes an older line of another batch is itself the one that has yet to
come to the newer (`LaterBatch`), and one that ends has come to every line. Only a death breaks this, and only while another
delivery is on its way or the chunk is completed: without an overlap neither is (`SoloOK`), which is the exception of the property.

`PromotionTtlProofs`. `TypeCorrect`, `PricesAreRecent`, `DenialsAreBrief`, `DropsHaveReasons`, for any windows, times to live and
length of a second. As long as no write that concerns the entry was committed since its version was read (`Fresh`), the
price in an entry, or in the builder's hands, is the price of every instant from the one it was built for up to the
boundary (`Holds`; `PricesHold` shows it of `NextBoundary`), and the time to live ends after the boundary by less than a
second (`TtlOf`). `DropsHaveReasons` assumes that every category a promotion is for has a product (section 6).

`LoadRunProofs`. `TypeCorrect`, `NothingLeftBehind`, `PoolIsBounded`, `ZeroMeansFullRun`, `EveryRequestCounts`, for any rate, pool,
number of workers, durations and lost answers. Requests and promotions carry numbers, and the invariant says first
that a number is in one place only (`RequestsOK`): a promotion that is queued for its cancel, or whose cancel is under way,
was created by a request that has been answered, so nothing can bring it to life again. Then the places where a living promotion can be are a
list without gaps (`Known`): to be cancelled, the sale's, that of a create whose answer is under way, or one the run had no word of. The
tally adds up with the requests of this phase that have no answer (`TallyOK`; those of earlier phases count for
none), and in the open model everything issued was scheduled, in order (`ScheduleOK`; that the ramp's offsets
grow with the request's number is `OffsetMonotone`). `EveryRequestCounts` is an action property and follows from the
invariant at the step that ends a phase.

The type invariants of `IngestionJob`, `ReadThrough`, `StockCounters` and `Pricing` are theorems and not properties of runs.

`OrderInv` and the invariant of `LoadRunProofs` were invariants of TLC's runs (317,325 and 600,991 states) before
they were proved; neither is one now, as the theorems contain them.

Only model-checked: everything under fairness (`UploadEnds`, `EveryRequestEnds`, `CounterHeals`,
`InterruptedRunEnds`), as the prover has no rules for fairness and ENABLED. Not proved either is that the parts
fit together (plan, item 11): the theorems speak of one component each.

## 6. Findings

Each is a run that TLC finds violated, by what the code does, of what the repository says.

- `cat_cancelrace`: `cancel` plans its bump on the target it read without a lock; an `assign` in between
  leaves the target it moved to with an entry that shows the cancelled discount until its TTL. `assign`
  itself locks the row for exactly this reason.
- `cat_retry`: a batch that moved a product between categories, killed between its commit and its bumps,
  is repeated with the new category as "old" one: no attempt bumps the category the product left.

Noticed, without a run of their own:

- A re-upload under the key of a running job can complete it with chunks open (ADR section 10 lists re-uploads as a
  limitation; `CompletedMeansAll` is proved for one upload).
- The row count of a superseded duplicate whose replacement the database refuses (`LastLineWins` excepts it).
- A "not found" can be cached just after the product was created; `NotFoundIsBrief` states for how long it can deny it.
- Stale stock has a third bounded case beside the two of the ADR: a replica that dies between its commit and its
  `SET` (`unpublished` in `StockCounters`); the same TTL heals it.
- An entry's TTL is its boundary rounded up to seconds, counted from the `SET`; `PriceWasRight` states by how much the
  "exact" moment of `keys.ts` can be missed.
- A promotion of a category without products is a boundary of the whole listing, which is then rebuilt although it
  shows the same (`DropsHaveReasons` excludes it).
- Ctrl-C while a phase waits for its last answers, after its deadline, has no grace time: the wait ends with the
  answers or their `--timeout` (`InterruptedRunEnds` excepts it).
- A load promotion lives for the warm-up, the duration and a minute, which does not include `--ramp`; with a long
  ramp it may end by itself before the run does.

## 7. What is not modelled

- **CSV and slug text processing** (`core/csv`, `core/slug`): functions from text to text without state; `BatchWriter` knows their
  outcomes (malformed, equal slugs). Their unit tests are the better tool.
- **The other CLI commands**: one HTTP call each and its printing. **The API shell**: routing, validation, error
  envelopes and configuration keep no state that two requests share.
- **Sampling, percentiles, progress and report layout** of the load engine: no other part depends on them.
- **Schema, migrations, connection pool**: Postgres' and `pg`'s own; the constraints the code relies on are guards of the
  actions that meet them.
- **Deployment files, demos, seed and fixture scripts**: run by hand or by a platform; the limits they set (receives, visibility
  timeout) are constants and fairness assumptions of `IngestionJob`.

`PROJECT.json` lists every component with its status.
