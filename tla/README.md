# Paper Research Hub in TLA+

Paper Research Hub collects biomedical paper records from OpenAlex, PubMed and
Crossref, projects them into one catalog of works, and publishes immutable
generations of that catalog. The core is a Go modular monolith
(`services/core`: commands `worker`, `migrate`, `api`) over PostgreSQL; a Nuxt
application (`apps/web`) renders the API. This directory holds TLA+ modules for
its core logic, TLC configurations that check them on small instances, and
proofs that TLAPS checks for every instance.

    tlc -config JobsStages.cfg MCIngestionJobs     # one model-checking run
    tlapm IngestionJobsProofs.tla                  # the proofs of one module

`PROJECT.json` names, for every definition that models code, the lines it
models (`map`), and lists the runs, the hazards of the code with the properties
that cover them, the disagreements found (`findings`) and the theorems.

## Inventory

Paths are below `services/core`.

| Component | State | Operations | Interacts through |
|---|---|---|---|
| Ingestion service and jobs: `internal/ingestion/service.go`, `job.go`, job half of `postgres_repository.go` | rows of `ingestion_jobs`; session advisory lock per batch key; transaction advisory lock per idempotency key | Run: acquire, start, per event setStage and writes, hooks, complete, finishFailure, release | PostgreSQL; an event sequence pulled from a source client |
| Projection: record half of `postgres_repository.go`, `migrations/000006` | `ingestion_raw_events`, `..._normalized_records`, `source_record_works`, `external_identifiers`, `works`, `ingestion_projection_assertions`, `ingestion_source_states`, `work_projection_states` | PersistRaw, PersistDeletion, Normalize, Exclude, Project, ApplyDeletion | called by the service; read by the publisher |
| Policies and values: `policy.go`, `envelope.go` | none | Evaluate, validation, order of revisions | service |
| Publisher: `internal/catalog/publisher.go`, `migrations/000007` | `public_catalog_generations`, `_papers`, `_taxonomies`, `_current` | PublishCurrent | reads what Projection wrote; read by the catalog reader |
| Catalog reader: `internal/catalog/repository.go`, `papers.go`, `analysis.go`, `cursor.go` | none (signed cursors held by clients) | Papers, taxonomies, documents, stats | HTTP API |
| PubMed bulk importer: `internal/source/pubmed/bulk.go` | durable checkpoint per job; a spool file | ImportBaseline, ImportDaily | file source, sink and checkpoint interfaces |
| Source clients: `internal/source/{openalex,crossref,pubmed}/client.go` | cursor of the current fetch | Fetch, Search | HTTP policy client; yield envelopes to the service |
| HTTP policy client: `internal/source/httpclient/policy.go` | time of the next request, turn of the rate limit | Do | every source client |
| Source parsers, PubMed queries | none | parse | clients |
| JCR import and journal policy: `internal/venue` | `journal_metric_snapshots`, aliases, import receipts | Import, PersistJCRImport, Evaluate | worker command, publisher |
| Ranking, research opportunities: `internal/ranking`, `internal/researchmap` | none | formulas | publisher |
| Identifiers and paper model: `internal/paper` | none | normalize, priority | parsers, projection |
| Migrations: `internal/database/migrate.go` | `schema_migrations`, session advisory lock | Up | migrate command |
| HTTP API, configuration, worker flags, web application | none | parse, render | all |

What is hard here is not any single operation. Several worker processes share
one database under READ COMMITTED with hand-made advisory locks; every call may
be applied although its answer is lost; a process may die, or only the
connection that carries its lease; two sources name one work in different ways
and at different times; events arrive late, again, or after a deletion. The
list at `hazards` in `PROJECT.json` gives each of these its line.

What makes each component correct:

- *Jobs*: one active job per key; the lease covers all the work on a job; the
  counters and the stage tell what is durable; success is reported only for
  what is done; every run returns and every job finishes.
- *Projection*: an identifier names one work for ever; each event has one
  current revision, its newest; the work shows the newest included revision of
  all its sources; no deadlock.
- *Publisher*: a generation is a function of the current revisions; readers see
  complete generations only; publishing the same sources again changes nothing.
- *Reader*: the pages of a listing partition it, within one generation.
- *Bulk importer*: every file is applied once, in sequence, whatever is
  restarted.
- *HTTP client*: bounded retries inside one wait budget, one slot per request
  and one request per interval, whoever is cancelled.
- *Source clients*: never more than asked, nothing lost from a server that keeps
  to its protocol, paging that ends with one that does not.
- *JCR import*: all rows of a file or none; a row is never replaced; success
  and conflict are the truth; no deadlock.
- *Formulas*: what is published as known is what every completion of the facts
  agrees on; a verdict does not depend on the order of the rules.
- *Migrations*: applied once (by the library that runs them).

## Modules

| Module | Role |
|---|---|
| `IngestionJobs` | `Service.Run` against the `ingestion_jobs` table |
| `MCIngestionJobs` | instances of it |
| `IngestionJobsProofs` | its invariant and theorems, for every instance |
| `SourceSnapshots` | immutable raw snapshots, identifiers, verdicts, revisions: constants shared by the next two |
| `SourceLedger` | abstract: identifiers, works, records and revisions as if every transaction ran alone |
| `SourceLedgerProofs` | what the ledger keeps, for every instance |
| `Projection` | the write transactions with their locks; implements `SourceLedger` |
| `MCProjection` | instances of it |
| `ProjectionProofs` | that it implements `SourceLedger`, keeps revisions complete and works current, for every instance |
| `PublicCatalog` | publication of catalog generations, and clients that page through them |
| `MCPublicCatalog` | instances of it |
| `PublicCatalogProofs` | what publishers may do and what a listing holds, for every instance |
| `PubMedBulk` | baseline and daily imports of ordered PubMed files |
| `MCPubMedBulk` | instances of it |
| `PubMedBulkProofs` | files, checkpoint and stored records, for every instance |
| `RateGate` | abstract: slots of a rate limit |
| `HttpPolicy` | the HTTP client of all sources: turns, retries, cancellation; implements `RateGate` |
| `SourceFetch` | the fetches of OpenAlex, Crossref and PubMed, composed with `HttpPolicy` |
| `MCSourceFetch` | instances of it |
| `SourceFetchProofs` | `HttpPolicy`: its invariant, wait budget, backoff and refinement; what fetches emit and ask for, for every instance |
| `JcrLedger` | abstract: imports of JCR files as if each ran alone |
| `JcrImport` | the import with its locks and transactions; implements `JcrLedger` |
| `MCJcrImport` | instances of it |
| `JcrImportProofs` | that it implements `JcrLedger`, and that success and conflict are true, for every instance |
| `CatalogFacts` | assertions, statistics and taxonomies of a published snapshot |
| `JournalRules` | decimals, the journal policy |
| `ResearchRules` | verdicts on research opportunities, ranking signals |
| `CatalogRules` | a caller that asks these rules, and what their answers must satisfy |
| `MCCatalogRules` | instances of it |
| `CatalogRulesProofs` | what the rules answer, for every question |

Nothing composes the projection and the catalog step by step: the publisher
sees the projection only through committed snapshots, and `Change` in
`PublicCatalog` is any commit of a worker.

Definitions commented `Slip:` are wrong variants of the definition that
follows: a plausible bug that the named property has to notice (`mutants` in
`PROJECT.json`).

### IngestionJobs

`run[w]` is the stack frame of `Service.Run` in worker `w`: where it is (`pc`),
its request, context, current job, the stage of its local job value (`at`), the
kind of the current event, events settled so far, the recorded cause of failure
and whether a hook failed. `row[j]` is a row of `ingestion_jobs` with three
counters: `raw` for raw_inserted + raw_reused, `settled` for projected +
excluded + deleted + unchanged, and `failed`. `batchLock` and `keyLock` are the
two advisory locks.

One action is one database call of the code, or one decision between two calls.
A call has three outcomes where the code allows them: applied and answered; not
applied (`Refused`: the context is done, or the database fails); applied and
the answer lost (`Lost`). `FinishFailure` and `Release` use a context that
cannot be cancelled (`context.WithoutCancel`), and so do their actions. A
statement needs a free connection in the worker's pool, of which the lease pins
one. The environment cancels a context, kills a process (its sessions and open
transactions end with it) or drops the connection of a lease.

Abstracted: what an event writes besides the job row (that is `Projection`),
payloads, timestamps, and the text of errors. A failure is a cause in `Causes`.
A timeout inside a source client is an ordinary failure of the sequence, since
the HTTP client does not keep the context error in its error chain.

### Projection

A transaction is a record `tx[w]`: its handler, the snapshot and policy version
it works on, the identifier locks it holds, whether it has the row lock of the
event's state, the work it resolved and the winner it selected. Nothing is
visible to others before its commit, a single step; `Abort` is a rollback for
whatever reason. Which lock a transaction holds is derived from the record:
the advisory lock on (source, event) from its first statement, the row of the
source state if there is one, identifiers one by one in sorted order, the row
of the work from `resolveWork` on.

`SelectWinner` is a step of its own, since under READ COMMITTED it sees what is
committed at that moment, plus the transaction's own changes (`SeenState`,
`SeenAsserted`). The steps before it are merged with the lock they wait for:
what they read is protected by locks they already hold. `Exclude` takes only
the row lock and is one step. A deletion writes `work_projection_states`
without the lock on the work, and waits for that lock only when a fallback
winner is written to `works`.

Abstracted: the tuple (source time, tie-break key, position, raw id) is the
rank of a snapshot, and a redelivered snapshot keeps its rank; scope and
projection policy versions are one version; the fields of a work are the
snapshot they were taken from (`content`). Left out: scope decisions (an
immutability check that a deterministic policy never fails), the retracted
status, and the tables of topics, authors and venues.

`SourceLedger` says what the transactions promise to others, without locks,
versions of the projection, or intermediate steps; the refinement maps its four
variables to those of the same names.

### PublicCatalog

PublishCurrent is one SERIALIZABLE transaction. Its snapshot is taken by the
statement that verifies the isolation level, *before* it waits for the
publishers' advisory lock, so a publisher that queued works on an old snapshot
when its turn comes. `buildCurrentSnapshot` is many queries: `LoadStates` reads
the states of all sources, and `BuildPaper` the rows of one work at a time, in
any order, while `Change` lets workers commit in between. Each of these steps
asks `Seen` for the state of the sources; what makes all of them see one state
is the isolation level, not the order of the steps. Two logs represent what a
snapshot can see: `history`, the states of the source tables that workers
committed, and `published`, the commits of publishers; a transaction remembers
a length of each. `Writable` says what PostgreSQL lets such a transaction write: a later commit that
inserted the same source revision, or that moved the singleton
`public_catalog_current`, makes it fail. `Rollback` is every failure, a
cancellation, or a crash; a commit whose answer is lost is a `Commit`.

Each page of `Repository.Papers` is a read-only snapshot transaction, hence one
step. A client holds the cursor of its last page; `Bound` is the check that the
cursor belongs to the current generation and to the filter of the request,
`AfterCursor` the predicate added to the query, `Precedes` the ORDER BY.
`seen`, `delivered` and `total` record what the client got.

A work is what the publisher may find of it: nothing visible, something not
ready, or a draft with a state and a value of the sort column. Hashes stand for
what they are computed from. An HMAC-signed cursor is the record it signs:
clients do not forge one. How fields, taxonomies and statistics are computed is
`CatalogFacts`. Left out: facets, search and single documents.

### PubMedBulk

`imp[i]` is a call of ImportBaseline or ImportDaily: the request, the progress
its next commit expects, the position in the list of files, the digest of the
bytes that were spooled, and the events staged in the file's transaction;
`loaded` keeps the progress it started from, for the properties. `checkpoint`
is the durable progress; `applied` logs the files whose transaction committed;
`projection` says from which file a citation was last replaced.

`FileTransaction` and `Checkpoint` are interfaces, and the repository has no
implementation of them outside its tests. `Commit` does what their comments
ask: it compares existence, revision and sequence, and makes the staged events
and the checkpoint durable together. The interface also forbids a commit that
is applied and answered with an error; the model allows one, since no
implementation over a network can rule it out. `Stop` is every error, a
cancelled context and the end of the process; `Spool` picks any bytes, so a
corrupt or replaced file is met too.

Abstracted: XML and gzip, limits on sizes (an import that exceeds one stops),
and temporary files. Files before the checkpoint are skipped without a look at
their digests, which `SuccessCoversRequest` says.

### HttpPolicy and SourceFetch

`call[c]` is the frame of `Client.Do` for goroutine `c`: attempt, time waited,
the delay it sleeps and its timer. `turn` is the token in the channel
`rateTurn`, `cooldown` the time until `nextRequest`. Time is relative and moves
by `Tick`; a timer fires at most `Late` after its time. Durations are machine
integers: `Backoff` doubles with the wrap-around of the code's arithmetic.

`SourceFetch` extends it: every call of Do is made by a page or a search of a
fetch, in the same step in which the fetch goes on to wait for it. `fetch[s]`
holds the cursor, the cursors seen, the batches still to fetch (PubMed) and the
number emitted. `load` says which client it is, how many records the server
has and how many each fetch may emit. `ReceivePage` lets the server answer
anything: any number of items, an unreadable item anywhere, any cursor. Whether
it has kept to its protocol so far is remembered in `faithful`, which only the
properties read.

Abstracted: URLs, headers, redaction of secrets, and the bytes of a page. The
guards at the top of Do and Fetch against nil arguments are not modelled.

### JcrImport

`run[i]` is the import a process is in; until it commits, its inserts are in its
own record (`mine`, `made`, `receipt`), which is what READ COMMITTED shows to
others. An insert that meets another transaction's row waits for it (`FreeKey`).
The file's lock is held by whoever is in a transaction on that file; the locks
of aliases, advisory keys of 32 bits that two aliases may share, are `held`.
`RegisterVenue` is ingestion, which may make a line's venue unique, ambiguous or
findable between two lines. `JcrLedger` is the promise without any of it.

### CatalogRules

The rules in `CatalogFacts`, `JournalRules` and `ResearchRules` are functions
without state. `CatalogRules` asks one of them a question and forgets it; its
invariants compare the answer with a definition of another kind: what holds in
all worlds that fit the facts (`StatsAreFinal`, `DecisionsAreFinal`), numbers
instead of digits (`DecimalsAreExact`), permuted ids (`SelectionIgnoresIds`).

## Runs

| Run | Question |
|---|---|
| `jobs_stages` | one worker, three events, two faults (a crash is one), cancellation: do counters, stage and reported result agree with what was done, does every Run return, and does every started job finish, also after a cancellation, unless a fault comes first? |
| `jobs_contention` | two workers, keys crossed over batches, cancellation, one fault: one active job per key, one driver per job, lease held throughout, a duplicate refused only while its owner is at work? |
| `projection_mixed` | two workers, every kind of write, two policy versions: is the winner current among the included, is an included revision complete, and is `SourceLedger` implemented? |
| `projection_ends` | two sources with both identifiers: does every handler end? |
| `projection_skew` | (violated) is the winner current when a deletion overlaps a projection? |
| `catalog_publish` | two publishers that build paper by paper, workers that commit between their queries, and a client that pages: is no publication torn, are they in order, and a completed listing exactly one generation's, in order? |
| `catalog_cursor` | (violated) does a next cursor bring the next page, whatever row it was taken from? |
| `bulk_import` | two importers of one job, stopped anywhere: is each file applied once, in sequence, and success the truth? |
| `source_fetch` | one long fetch of each source and two that share a client, over a server that answers anything: are slots, budget and backoff kept, is nothing lost, is a faithful server accepted, does every fetch end? |
| `jcr_import` | two processes, five files, a fault, venues registered meanwhile: do imports take effect at once, are success and conflict true, does every import end? |
| `catalog_rules` | do the stateless rules answer as their reference definitions do? |
| `catalog_assertions` | (violated) can the publisher read every assertion the projection writes? |

`IncludedWorksAreCurrent` is what remains true of `WinnerIsCurrent`, given
finding 1 and the second and third known limits; both are defined in `Projection` with the
reason.

**Bounds.** Two workers are enough for the races over a lock: locks are
exclusive and a third worker only queues. Two or three job ids let a key be
used again after its job ended or was lost. `MaxEvents = 3` reaches a second
and a third event after a fault in the first; `MaxFaults = 2`, with one worker, lets a
second call fail while the first failure is being cleaned up (the case of
Complete, then Fail); two workers get one fault, a crash included, since what
matters between them is the row and the locks that one failure leaves behind,
and the invariants are proved for any number. In the projection two identifiers with different priorities, two
sources and four snapshots give late, repeated, deleted and resurrected
records; there are as many works as identifiers, since a work owns at least
one. In the catalog, three keys with page size 1 give three pages; the four
states of the sources hold a tie, a deletion with a change of order, a work
that is not ready, and one value in each block of the order; three publications
let the current generation change between pages and come back, and two changes of the sources fall between the
queries of one build. `catalog_cursor` needs one generation only. Of PubMed files
there are three; the five lists are complete, begin in the middle, have a hole,
are out of order, or replace a file, and each is asked for as a baseline and as
a daily import after 0, 1 and 2 files; one more list has files of another year.
A page of two records and totals of three and four give full, short, empty and
overlong pages within, at and past the maximum; two retries with budget 2 and
backoff 1, 2 let a delay fit, exhaust the budget, and exceed it by a hint of 7.
The JCR files disagree on one value, order two venues in opposite ways, repeat
a row, contradict themselves, and hold a malformed row. The rules are asked
about every combination of a few values on both sides of each threshold. Workers, jobs,
works, publishers and importers are interchangeable, which the configurations
without liveness use as symmetry.

The runs of `IngestionJobs`, `PublicCatalog` and `JcrImport` do not check
deadlock, since their systems come to rest when bounded supplies (job ids,
publications, changes, imports) are used up; that no import waits for ever is
`ImportsEnd`.
The others do check it.

**Fairness.** A running Go process takes its next step: weak fairness of
`Progress(w)` and of `Step(w)`. PostgreSQL queues the waiters of a lock, so a
waiter that becomes able to proceed again and again is served: strong fairness
of the actions that wait for a lock. Event sequences are finite (`MaxEvents`);
that clients end them, as far as the server lets them, is `FetchEnds`. Submissions,
cancellations, crashes and faults are never fair: they may or may not happen.
In `HttpPolicy` time passes, an exchange ends by its timeout, a select with a
ready case returns, and senders to a Go channel are served in order, hence
strong fairness of `TakeTurn`. An import that has begun goes on: weak fairness
suffices, since no lock of `JcrImport` is taken again and again by others.
`JobsFinish` claims nothing of a job once a fault has occurred, since the code
gives up on a job whose last UPDATE fails and a process that died finishes
nothing; a cancelled context is no excuse. `PublicCatalog`, `PubMedBulk` and `CatalogRules` state safety only
and have no fairness.

## Proofs

For any values of the constants that satisfy the assumption of the module, and
so for any number of processes, faults and crashes:

| Module | Theorem | Property |
|---|---|---|
| `IngestionJobsProofs` | `TypeCorrect` | `TypeOK` |
| | `ActiveKeysAreUnique` | `OneActiveJobPerKey` |
| | `DuplicatesAreReported` | `DuplicateReportedAsConflict` |
| | `LeaseCovers` | `LeaseCoversRunningJob` |
| | `DriverIsUnique` | `OneDriverPerJob` |
| | `FinishedJobsStay` | `FinishedJobsAreFrozen` |
| | `CountersAreTrue` | `CountersTrackEvents` |
| | `StagesAreTrue` | `StageLocatesProgress` |
| | `SuccessIsTrue` | `SuccessIsDurable` |
| | `ConflictsHaveOwners` | `ConflictHasLiveOwner` |
| `PublicCatalogProofs` | `NeverBack` | `PublicationsAreMonotone` |
| | `NeverTorn` | `PublicationsAreTrue` |
| | `ListingsExact` | `ListingsAreExact` |
| `PubMedBulkProofs` | `InSequence` | `AppliedWithoutGaps` |
| | `CheckpointFollows` | `CheckpointIsLastApplied` |
| | `SuccessCovers` | `SuccessCoversRequest` |
| | `ReplayExact` | `ProjectionIsReplay` |
| `ProjectionProofs` | `ProjectionImplementsLedger` | `ImplementsLedger` |
| | `IncludedRevisionsAreComplete` | `IncludedIsBacked` |
| | `SettledWorksAreCurrent` | `IncludedWorksAreCurrent` |
| `JcrImportProofs` | `SuccessIsStored` | `SuccessMeansStored` |
| | `ConflictsAreReal` | `ConflictIsReal` |
| | `ImportsImplementLedger` | `ImportsAreAtomic` (refinement of `JcrLedger`) |
| `SourceFetchProofs` | `Budget` | `RetriesWithinBudget` |
| | `DelaysDouble` | `BackoffIsExponential` |
| | `SlotsApart` | `SlotsAreApart` (refinement of `RateGate`) |
| | `FetchesWithinBudget`, `FetchDelaysDouble`, `FetchSlotsApart` | the same three, of the composition |
| | `FaithfulServersPass` | `FaithfulIsServed` |
| `CatalogRulesProofs` | `SelectionIsStable` | `SelectionIgnoresIds` |
| | `StatisticsAreFinal` | `StatsAreFinal` |
| | `SlugsAreResolved` | `SlugsResolve` |
| | `JudgementsAreFinal` | `DecisionsAreFinal` |
| | `RegionsAreExclusive` | `VerdictsAreExclusive` |
| | `SignalsStayBounded` | `SignalsAreBounded` |
| | `ComparisonsAreExact` | `DecimalsAreExact` |

Proved of the model, but not the property of a run:

| Module | Theorem | What it says |
|---|---|---|
| `SourceLedgerProofs` | `Converge` | records that share an identifier share the work |
| | `StrongestKey` | a work's key is its own and the strongest offered |
| | `LinksStay` | identifiers and records never move to another work |
| | `NewestRevisionStands` | the revision of an event only advances, and keeps its work |
| `ProjectionProofs` | `LocksProtect` | its locks keep what a transaction chose by |
| `SourceFetchProofs` | `FetchTypes` | `TypeOK` of the composition |
| | `NeverOverLimit` | `WithinMaxResults`: no fetch emits more than asked for |
| | `CursorsAreNew` | `NoPageTwice`: no page is asked for twice |

*IngestionJobs.* `TypeOK` is inductive by itself. The others are not: that the
INSERT of Start never meets the unique index needs to know that the worker has
held the lock on its key since the SELECT, and that nobody else can have
inserted a row of that key meanwhile; that a job has one driver needs that the
row a worker inserts was unused and that drivers only drive used rows; that a
finished row is frozen needs that a driver which still counts or advances a
stage drives a running row. `IInv` adds these facts (`LeaseHeld`, `KeyHeld`,
`DriversOwn`, `DriversDiffer`, `DriversRun`). Fourteen of the actions change
rows and frames in the same restricted way; `DriverStep` says how,
`DriverActions` that they do, and `DriverKeeps` that such a step preserves
`IInv`. The ten actions that move locks or start a job have a step of their own
in `StepInv`.

The counters need a second invariant, `ProgressInv`: it ties the frame of a
driver to the row it drives. Before the raw write of an event nothing of it is
counted, between that write and the settling one the row is one ahead, and a
frame that waits to fail has recorded the stage the row was left at
(`NothingDone`, `DriverTallies`, `FailureLocates`); a frame that is about to
return without a cause stands before a row that succeeded (`SuccessReported`). A
driver has its row to itself, so other frames and rows never matter
(`OthersFit`). `ConflictsHaveOwners` rests on `OwnersLive`: until
something fails, a running row has a driver, or has not begun. The second case
is a Start that is cancelled between its INSERT and the answer: the caller gets
an error and no job to fail. A fault, which a crash is too, is counted and never
forgotten (`FaultsAreCounted`); after one, a row whose driver is gone stays
running (see known limits).

*PublicCatalog.* A publisher's snapshot of the sources is at least as late as
those of the publications its snapshot of the catalog shows (`SnapshotsAreLate`),
since both were taken at one moment. `Writable` is evaluated under the lock,
and until the lock is given up nobody else publishes, so at the commit the
snapshot shows all publications there are (`CommitsAreCurrent`). That a publication is
not torn is said paper by paper (`BuiltFromSnapshot`): from `LoadStates` on, the
papers built so far are those of the publisher's snapshot, of every visible work
but the ones still to do (`PapersBut`), whatever workers have committed since;
when nothing is left to do they are the papers of that one state. `FrameStep`
covers the steps of a publisher that commit nothing.

For listings, `Precedes` is a strict total order of the rows and `AfterCursor`
is that order for every row a publisher writes (`CursorIsOrder`): a row whose
value is not known has value 0, so that the two branches of the predicate agree.
`ListingInv` says of a client in the middle of a listing that what it has seen
is an initial segment of the rows of its generation in that order, that its
cursor is the last of them and that what was delivered is as long as what was
seen; a page, being the first rows after the cursor, extends the segment. That
a finite set of rows has a first and a last one is `FiniteHasLast`, by
well-founded induction over its subsets.

*PubMedBulk.* The revision of a progress is a position in the log of applied
files (`FromLog`). Together with `CheckpointIsLastApplied` it follows that an
importer whose expectation matches the checkpoint has the whole log in its
progress (`ExpectedIsLast`); and the file it is at is the one after its
progress, or one the progress covers (`Adjacent`, `Uncovered`). Once an
importer has committed a file it never skips again, which is why every file it
passes was applied or lies before the progress it loaded (`Settled`).
`ImportStep` covers steps that commit nothing, `LogGrows` keeps what the other
importers know across a commit.

What is stored of a record (`ReplayInv`): an open transaction has staged a
prefix of the events of its file, and all of them when it commits
(`StagedPrefix`); so a commit appends the file to the log and leaves each
citation as the last event of that file about it, or as it was (`ReplayStep`).
The last event of a file about a citation exists since positions are bounded.

*HttpPolicy* (in `SourceFetchProofs`)*.* A call that paces has the turn, and its timer is the time to
`nextRequest`, even late: so the slot it takes is the next one due, and a call
that is cancelled leaves the moment unused for whoever follows. The budget needs
that a delay is compared with what is left of it, for any hint. The refinement
maps a step that sends a request to a slot and everything else to time, an
answer or a stutter. The backoff is a recursive function, and that it satisfies
its equation is itself to be proved: there is a function that does up to any
number of retries, by the least number for which there would be none
(`BeginningsExist`), and two such agree where both are defined
(`BeginningsAgree`). With the equation (`BackoffEquation`) it doubles or caps,
again by the least retry at which it would not (`BackoffIsPower`); that the cap
is tested against half the maximum keeps the doubling from overflowing
(`DoublingCaps`).

*SourceFetch.* Every step is a step of `HttpPolicy` or leaves it alone
(`FetchesUseTheClient`), which carries its theorems over. For the rest the
invariant relates plan, cursor, cursors seen and number emitted: a cursor that
is waited for was not read before; the batches left tile what is between the
emitted number and the maximum (`BatchesCover`: the batches of `BuildBatches`
tile the whole, for any sizes); and while the server is faithful the cursor is
the number emitted.

*SourceLedger.* A work without a key is named by no identifier
(`NamedWorksExist`): so a new record that no known identifier places founds a
work of its own, and one that is placed joins the work all its identifiers
name. Since `Projection` implements the ledger, it has these properties too.

*Projection.* A transaction decides long before it commits, and others commit in
between. `PInv` says that its locks keep what it decided by: events, identifiers
and the works of projections are held by one transaction at a time (`Apart`);
from its choice on, the identifiers of a record name its work or nothing, and if
they name nothing the work has no key yet (`Chosen`); and what it found out about
the revision of its event is still true (`Settled`). So at its commit the ledger
would decide the same: `CommitProject` is its step `Record`, `Exclude` its
`Exclude`, `CommitDeletion` its `Delete`, and nothing else shows (`FrameKeeps`,
`CommitKeeps`, `WriteIsOffer`). `BInv` adds what makes a revision complete: a
record that is being projected is normalized (`Normalized`), and what it writes
to the rows of its work is what they hold or their first content
(`Associable`), so that those an older revision rests on do not move. What a transaction plans to write
to the projection of its work plays no part, and is not protected: see finding 1.

`WInv` says where it is protected after all. A work is settled if the events of
all its records still name it and none is excluded (`Settles`). For such works a
plan is right from `SelectWinner` to the commit: the projection holds the lock
on the work all that time, so every other transaction that could change what
the work shows, or which revisions it has, waits (`Fits`); and a
deletion, an exclusion or a move to another work, which does not wait for it,
leaves the work unsettled. So every settled work shows its newest revision, not only while
everything is quiet. The rest says that revisions, records and contents lead to
works that exist (`StatesAreBacked`, `RecordsHaveWorks`, `ContentIsShown`), and
that ranks are bounded, so that there is a newest.

*JcrImport.* A row, once committed, is never replaced, so what an import has
read of the tables stays true; what it has not read may still change, and its
own rows are not yet there. `JInv` says of one import (`Good`): the lines it
took it sees as its file has them, each of its own rows is new and stands for
one of those lines (`Inserting`), and its two counts and the lines left add up to
the file (`Counted`). Of two imports (`Apart`): they write different files, by
the lock on the file, and different rows, since the INSERT of a key waits for
the other transaction's. So a commit changes nothing another import has read
(`OthersKeep`), and is one step `Import` of `JcrLedger`: the batch fits, its own
rows are the new ones, and the receipt counts them (`CommitImports`). The locks
on aliases play no part in safety; they are there for `ImportsEnd`.

*CatalogRules.* The system asks one question at a time, so `AnswersInv` is
simple: an answer is what the rule says of the question. The proofs are about
the rules. A non-empty finite set of rows has a first one in the order
`asserted_at DESC, id`, and dealing out the ids anew changes which of the newest
rows it is, but not what it asserts (`DealtSelectsSame`). A paper says of its
date and its code exactly what the newest assertions settle (`PublishedKnown`,
`CodeKnown`), so what may be true of the works is what fits the papers
(`WorldsFit`); if a paper leaves its date or code open, two such worlds differ in
that paper alone and count one more or less (`OneMore`). Where metrics of a
journal are unknown, one value that matches a rule makes it accepted and one that
matches none leaves it rejected, and there are both. Two conclusive regions that
are separated by one score share no point. Rounding keeps signs, is odd and
monotone, and takes a part of a whole to at most one unit (`DivRoundSigned`,
`DivRoundBounded`); k of n papers round to less than 100 percent if k < n, for
cohorts of fewer than 200 times the precision (`PercentOf`).

Decimals are the only rule that computes by recursion, over the digits of a text
of any length. The number digits write and a power of ten are sums of one kind
(`Accrues`), which exist and agree on common beginnings as the backoff's do. From
that follow the value of a concatenation (`CoefficientOfBoth`), what trimming
zeros changes, bounds by the number of digits, and that digits of one length
write different numbers (`DigitsAreUnique`, from the last digit to the first).
`ParseDecimal` returns digits without a leading zero, and with a scale only if
the last digit is not zero (`ParsedIs`); of two of that kind with different
scales, one side of the comparison ends in a zero and the other does not, so
equal numbers have one representation (`EqualIsSame`). Both sides of `Cmp` are
the scaled numbers divided by one power of ten (`ScaledSides`).

**Assumptions.** Each module names what its constants must satisfy, and TLC
evaluates it in every run. Most are types and that a null value is none of the
values. The others: a table holds finitely many rows (`TablesAreFinite`, and in
`FactsAssumption`); a date may lie within the last days or not, and a metric
match a rule or not, or else an open fact would decide nothing (`FactsAssumption`,
`JournalsAssumption`); a cohort has fewer than 200 units of papers, where the
code computes with 10^18 units (`NumbersAssumption`); texts of decimals consist
of digits, of any number (`DecimalsAssumption`); the law of powers
2^k = 2 * 2^(k-1), which the provers do not know (`PowersAssumption`).

**Induction.** The induction rules of the library take a predicate as
parameter, which the provers cannot instantiate. What needs one is stated over
sets: the counterexamples to it would have a least member, by the
well-foundedness of `<` or of strict inclusion, and it has none.

Model-checked only:

- Liveness: `RunReturns`, `JobsFinish`, `HandlersEnd`, `FetchEnds`,
  `ImportsEnd`. The prover has no rule for fairness and ENABLED.
- The type invariants of `PublicCatalog`, `PubMedBulk` and `JcrImport` beyond
  the parts their proofs use.

## Findings

1. A deletion that overlaps a projection of the same work may write an older
   winner over a newer one (`projection_skew`).
2. A record without an abstract is stored with the state `missing` and an empty
   value, which the publisher refuses to read: one such record stops the
   publication of the catalog (`catalog_assertions`).
3. The cursor of a page that ends in a row without a known sort value carries an
   empty value, and the query of the next page casts it to a number or a time
   (`papers.go:472`, `525`), which PostgreSQL refuses: the rows behind it are out
   of reach, although `openapi.yaml:1309` calls it a cursor for the next page
   (`catalog_cursor`). `PublicCatalog` has such a page end with an error
   (`Castable`), so `ListingsAreExact` says of it only that what was read is an
   initial segment.

### Known limits

Consequences of the code that were met while modelling and that no run repeats:

- A job whose process died stays `running` and locks its idempotency key for
  ever; so does one whose Start committed without an answer
  (`postgres_repository.go:127`). `ConflictHasLiveOwner` therefore speaks of the
  time until something fails, and excepts a job whose Start was cancelled.
- An exclusion does not recompute the projection
  (`postgres_repository.go:699`): the work keeps showing the excluded revision
  until something else changes it.
- A newer revision of an event may name another work than the last one did.
  Project recomputes the new work only (`postgres_repository.go:899`): the old
  work goes on showing the revision that left it. `IncludedWorksAreCurrent`
  leaves such works out.
- A snapshot cannot be assessed under a second scope policy version, since
  Normalize refuses one on record under another (`postgres_repository.go:648`).
- Two topics whose names shorten to one slug, or one whose name has none, keep
  the whole catalog from being published (`publisher.go:991`, `1053`).

## Not modelled

- *Source parsers, HTTP API, configuration, worker flags, web application*
  translate or render data and keep no state: there is no interleaving, failure
  or sequence in them that a model would reach and a test would not.
- *Migrations*: `migrate.go` calls the library golang-migrate, whose advisory
  lock and dirty flag are not code of this repository.
- *Topics, authors and venues of a projection*, and with them the order in
  which replaceTopics and replaceAuthors lock shared rows. PostgreSQL ends a
  deadlock there by an error, and the job fails.
- *Search, facets and single documents* are queries without state.
- *Integrity triggers* of the JCR tables repeat at the commit what
  `SuccessMeansStored` and the receipts of `JcrLedger` say.
- Field contents, logging and metrics are left out everywhere.

## Plan

All components with state are modelled. What would add most:

1. `TaxonomyLocks`: the row locks of replaceTopics and replaceAuthors, to find
   out which orders of records end in a deadlock that PostgreSQL has to break.
2. The type invariants as theorems of their own.
