# A TLA+ model of astiango

astiango is a web search engine: a crawler, an indexing pipeline, a web graph,
a text index with ranking, and the services that serve them.  This directory
holds TLA+ modules that model the parts of it in which several processes share
state, the TLC configurations that check them on small instances, and proofs
that TLAPS checks for instances of any size.

## The system

| Part | State it keeps | Operations | What is hard about it |
|---|---|---|---|
| Central frontier, `configs/crawler/postgres/schema.sql` | PostgreSQL tables: partitions, origins (lease), URLs, captures, outbox, slots, budgets, robots cache | `crawler.rpc`: claim, renew, authorize, commit, nack, continue_redirect, discover, robots_put, admit, publish_outbox | row locks and snapshots, clocks read inside transactions that may stall, leases that lapse |
| Leased worker, `crawler/leased.rs` | the lease in memory, one job | start-up reconciliation, claim, renewal task, job, nack | lost and late replies, crashes, two timers (its own and the frontier's) |
| Replication outbox, `crawler/replication_outbox.rs` | staged captures on disk, at most 8 | save, load, remove, full, ids | crash between staging and confirmation |
| HTTP transport and body reader, `crawler/transport.rs` | connection pool, DNS cache | send with authority checks | the lease may lapse between the check and the request |
| Job executor, `crawler/worker.rs`, `scheduler.rs`, `retry.rs`, `traps.rs`, `robots_txt.rs` | one job's queue, politeness, robots cache | robots, pages, redirects, retries | the order of calls to the frontier |
| Local frontier, `crawler/frontier.rs`, `local.rs` | a redb database: rounds, sites, URLs, leases | admit, claim, resolve, recover, recrawl, quarantine | crash recovery, long sequences of legal calls |
| Spool, `crawler/spool.rs`, `warc_writer.rs` | segments on disk: data, journal, descriptor | append, seal, upload, reference, delete, recover | a crash or loss of power between any two system calls |
| Legacy coordinator, `crawler/coordinator.rs`, `router.rs` | domain queues in memory | sample, complete | restart |
| AMPC, `ampc/` | coordinator: scheduled jobs; worker: current job; DHT: tables | schedule, await, map; upsert, batch | worker failure, retried and repeated jobs |
| Live index, `live_index/`, `entrypoint/live_index/` | segments, temporary and permanent write-ahead log, cluster membership; the live crawler's outbox | index in replicas, set-up from a peer, commit, compact; enqueue, publish, settle | joins and copies while pages arrive, replicas that wait for each other, two users of one outbox |
| Cluster and RPC, `distributed/` | gossip membership | members, remote copy, retries | failure detection |
| Indexing pipeline, `entrypoint/indexer/` | files of jobs | partition, merge | - |
| Stores, `simple-wal`, `speedy-kv`, `bloom`, `file-store` | files | append, commit, read | partial writes |
| Search, ranking, web graph, optics, front end | - | queries, scores | numeric, not a protocol |

Workers call the central frontier over signed HTTP; a small server (not in the
repository) checks the signature, adds the lease and cooldown lengths and the
quotas to the request, and calls `crawler.rpc`.  The same server publishes the
outbox, and an operator's tool moves partitions.  These two are modelled from
the calls the schema offers (`PublishOutbox`, `Transfer`).  The crawl feeds the
indexing pipeline and the live index through WARC files; AMPC computes the web
graph's centralities.

What makes each part correct, in a sentence:

* central frontier: an origin is talked to under one lease at a time, a stored
  capture is final, nothing that a lease holds is left behind, and no quota,
  slot or pause is broken by two calls that overlap;
* worker: it sends only under a live lease whatever the network does, and never
  loses a capture it has staged;
* local frontier: every admitted URL is fetched in each round, or is in a state
  that recovery brings back;
* spool: an acknowledged capture survives every crash until the object store has
  it, and the spool always opens again;
* AMPC: every job is executed, also when workers fail, and the coordinator ends;
* live index: what a replica has acknowledged stays on its disk unless the copy of
  a peer's files replaces it (which can lose it for good, see below), no page in the crawler's hand is forgotten, and
  no lock is held for ever.

## Modules

| Module | What it is |
|---|---|
| `CentralFrontier` | `crawler.rpc` and its tables, with arbitrary clients |
| `LeasedWorkers` | worker processes, their outboxes and the network, composed with `CentralFrontier` (EXTENDS) |
| `OriginLease` | the abstract promise to a web origin |
| `OriginLeaseProofs` | proofs about `OriginLease` |
| `CentralFrontierProofs` | proofs about `CentralFrontier` |
| `LeasedWorkersProofs` | proofs about `LeasedWorkers`: invariants of the composed system, and that it implements `OriginLease` |
| `AmpcCoordinator` | the coordinator of AMPC computations and its workers, independent of the crawler |
| `AmpcCoordinatorProofs` | proofs about `AmpcCoordinator` |
| `LocalFrontierTables` | the tables of the local crawler's database and what a transaction does to them |
| `LocalFrontier` | the local crawler: process, jobs, spool journal, operator, over those tables (EXTENDS) |
| `LocalFrontierProofs` | proofs about `LocalFrontier`: its operators from database to database, and its invariants |
| `CaptureArchive` | the abstract promise of the spool |
| `CaptureArchiveProofs` | the proof about `CaptureArchive` |
| `Spool` | the spool, its writing task and its uploading task, on a disk with a cache; implements `CaptureArchive` |
| `SpoolProofs` | proofs about `Spool`: its invariant, and that it implements `CaptureArchive` |
| `LiveIndex` | the replicas of a shard of the live index and the live crawler with its outbox |
| `LiveIndexProofs` | proofs about `LiveIndex` |
| `MCCentralFrontier`, `MCLeasedWorkers`, `MCAmpcCoordinator`, `MCLocalFrontier`, `MCSpool`, `MCLiveIndex` | values of the constants for TLC |

### CentralFrontier

The variables are the tables of the schema (`urls`, `origins`, `captures`, ...,
columns as record fields), the clock `now`, and two variables for what is in
progress: `tx[u]`, the transaction that holds the row lock of URL `u`, and
`pick[c]`, the candidate that the snapshot of claim `c` chose.

`crawler.rpc` runs in one transaction.  `Begin` is the moment at which it holds
its locks and reads the clock: every condition of the code is evaluated there
(`Verdict`), and `tx[u]` remembers the answer, the clock it read (`at`), the
locked origins and whether it holds the lock around slots and budgets.
`Finish` is the moment at which its writes become visible.  The clock may move
between the two, by at most `MaxStall`: a commit waits for synchronous
replication (`synchronous_commit = remote_apply`) and for locks, and nothing in
the schema limits that wait.  `MaxStall` bounds what TLC explores; the theorems
hold for every value of it.  `Abort` is a transaction
that is lost.  A call that is answered without any write is one step.  A refused
`authorize` does write: what it acquired before it was refused stays, as in the
code.  `claim` has a step more: `ClaimPick` chooses from a snapshot, `ClaimBegin`
locks and reads the two clocks of the origin again, `ClaimEmpty` gives up.  No
time passes between the two, since that statement does not wait.

Abstractions.  A URL, an origin, an address and a capture are model values or
small numbers (the order of numbers is the order of identifiers in the ORDER BY
of claim).  A token is the origin, epoch and URL of the claim that created it:
the code draws a fresh random one, which stands in the row of that URL alone, so
that a call with another URL finds no row that matches (the guard of `Call`).  Of a robots.txt answer the time to live, the
crawl delay and whether it is a failure remain.  Byte budgets, provenance,
`http_attempts` and the clean-up of old commands are left out.  The command
table, which repeats an answer to a repeated command, is in `LeasedWorkers`: a
command is answered once.  `authorize` reads its clock before it waits for the
lock around slots and budgets, `Begin` reads it with every lock held: with the
older clock more slots and pauses count, and a lease that lapses during the wait
counts as one that lapses during a stall.  The pause that a commit or nack asks for (`origin_retry_after_ms`) is one
of `RetryAfters`.  Locks are taken in one step, so a deadlock inside
PostgreSQL is not visible; PostgreSQL ends it with an abort, which is.

### LeasedWorkers

One record per worker process, lost in a crash: the step it has reached (`pc`),
its lease, local deadline, pending calls and the request on the wire.
`pending[w]` is the durable outbox.  `calls[c]` is the network and the command
table together: a call that was sent may be executed at any later time, also
after the client gave up (three sends), crashed or was fenced, or never
(`Forget`).  Each `Serve...` action is the frontier's side of a call and runs
the action of `CentralFrontier`.

The steps follow `run_inner`: `Start`, `Offer` and `OfferAnswered` are the
reconciliation; `Claim` and `ClaimAnswered` set the local deadline from before
the call (`Authority::update`); `Renew...` is the renewal task; `Authorize` and
`SendHttp` are `Authority::authorize` and the second check before the request
leaves; `Stage`, `Confirmed` and `NotConfirmed` are the sink; the job ends in
`Nacked` or with the confirmed capture.  A job chooses freely between its next
possible calls, a superset of what the executor does.

`LeaseKept` states that this system implements `OriginLease`: the holder of an
origin is its token, the lapse its deadline, and the flights are the workers'
requests on the wire.

### OriginLease

A lease of an origin lapses at a time that its holder can push forward.  After
it has lapsed, the origin can be taken only when a cooldown has passed.  A
request is sent under a live lease and ends within `HttpMax`, which the worker's
configuration check bounds by the cooldown ("cluster request timeout must fit
the 11 second takeover cooldown").  The holder gives an origin back with nothing
on the wire.

### AmpcCoordinator

`Coordinator::run` and its workers' servers.  `phase` is where `run` stands:
between rounds (`round`), before the next job of the queue (`next`), asking the
workers for their current jobs for a job (`poll`) or while it waits (`await`),
or at an end (`done`, `failed`).  One action per decision: `StartRound` sends
the tables to all workers, `SetupFails` is a worker that does not take them,
`PopJob` takes a job from the queue, `CurrentJob(w)` asks the next worker, so
that workers go on between two questions, `HandOut` puts back the jobs of
workers that did not answer and calls `schedule_job`; `AwaitEnds`,
`KeepWaiting` and `Reschedule` are the three outcomes of a sweep of
`await_scheduled_jobs`.  Of a worker the model keeps its current job, the round
of the tables it has, and its threads: `MapEnds` is the end of one, which takes
the current job, whichever it is.

A lost answer is a worker that did what it was asked and an error at the
coordinator, or a request that did not arrive.  A worker that dies loses its
threads, its current job and its tables; one that comes back has neither until
the next round, and if it is given a job meanwhile, its thread panics and the
job stays its current job for good.

Left out: what a mapper computes, the times between two sweeps, the requests of
users, and the finisher, which may end the computation after any round.
Two history variables: `mapped`, the jobs that the present mapper has mapped, and
`returned`, the workers that came back in this round.

### LocalFrontier

The variable `db` is the redb database, one record field per table or index of
`frontier.rs`; `LocalFrontierTables` has an operator from database to database
per transaction.  `journal` is what the spool has made durable.  `phase` follows
`run` of `local.rs`: recovery of leases and of jobs, the commit outbox, seeds,
the discovery plan, reconciliation with the spool, the control loop, and the
drain.  `turns[s]` is the job of a site, which goes through claim, verification,
request, capture, commit, admission of links and resolution, one action each,
so that a crash (`phase` back to the start, `turns` lost) may come between any two.
`web` is chosen once: the links, the answers of the servers, and how much of
restarts, recrawls and operator's requests the run has.

Abstractions.  The transactions of the control loop come in any order, a
superset of its `select`.  A batch of URLs is admitted row by row.  An operator's
request has priority or not.  When `web.late` holds, `max_elapsed_ms` may have gone
by for any URL at any time, in `AuthorizeRequest` and in `Resolve`.  A failure of
the storage is a crash; a restart takes no time.  Left out: sequence numbers and
ties, migrations and repair of older databases, traps and quarantine, rows of
older versions (with `recover_scope_stop`, for a reason that this crawler gives no
URL), the batch mode with wandering, the seed fallback of a claim that
finds nothing, circuits and per-minute budgets, discovery quotas and cycles,
resource pressure, and sitemap indexes.

### Spool

An operation of `Spool` is a list of effects on the disk (`op.todo`), one step
each, which holds the lock to its end; its last effect and the change in memory
are one step.  The disk has a cache: `disk[s]` holds what is visible and how much
of it was synced.  `Killed` keeps what is visible; `PowerLost` keeps any prefix of
the bytes and of the journal's lines after the synced part, and either the old
or the new name of a file whose directory was not synced.  A sync of a directory
makes all its earlier changes durable, as journaling file systems do.  The next
start finds any combination of what may be left of each segment (`Remains`).

`Open`, `RecoverNext` and `Opens` are `Spool::open`: it syncs the directory, recovers
one damaged segment after the other, those with a descriptor first (`Recover`), and
may end or lose power in the middle.  `CanOpen` is what it demands.

The writing task is `Submit` ... `Reply`, `Tick`, `Gc` and `Finish`; a page that was
not modified cites the capture it confirms, which pins that capture's segment.
The uploading task is `Choose` ... `Published`, with lost answers, a timeout of the
attempt, and multipart uploads that are remembered, aborted and begun afresh.
The work of the spool is queued in order, so that a step whose caller timed out
takes place before the next one.  `Release` is a consumer of captures: none is in
the repository, and it is assumed to release a segment that it can read in the
object store.

`CaptureArchive` is the promise: a capture is acknowledged only when the spool
keeps it through a loss of power, and leaves the spool only when it is archived.
`ArchiveKept` states that `Spool` implements it, with what a loss of power cannot
take as `kept`.

Left out: the byte budgets and queues of `pipeline.rs`, the
formats and checksums of records and journal lines, temporary files, the check of
a changed target, an upload that arrives after its timeout, segment identities.

A capture has three sizes, with no relation assumed between them: `Size` is what its
records take in the data file, `Bound` what `append_inner` reckons for the first
capture of a group (payload, twice the metadata, 1%, URL and 8 KiB, spool.rs:599),
`Upper` what it reckons for each capture of the group (decoded body, 1%, URL and
8 KiB, spool.rs:636).  `Slack` is the 16 KiB of the quota that must stay free.  The
code counts journals and descriptors against the quota too, so that it stops a
little earlier than the model.  `config.validate` (spool.rs:65, 75) gives the
assumptions on the limits.

### LiveIndex

Two processes meet: a replica (`rep`, `disk`) and the live crawler (`up`, `sink`,
`pub`, `outbox`, `crawled`).  A replica that starts joins (`Start`), looks for a ready
one after ten seconds and deletes its own pages (`Look`), copies the files
(`Copy`), opens the index and replays the temporary log (`Replay`), commits
(`CommitIndex`) and announces itself (`Serve`).  The files of the peer are read one
by one while it goes on; `meta` and `segs` are separate, so that a commit of the
peer in between leaves an index that does not open, and the replica is `stuck`.
`calls` are `IndexWebpages` requests: `Handle` stores the pages, durably, in one of
the two logs, and replicates them with the lock of the temporary log held;
`Deliver` and `GiveUp` are the outcomes of one replication; `Answer` counts the
acknowledgements.  The caller may be gone by then.

The crawler's job enqueues a page, has it indexed and settles it (`Fetch`,
`SinkSettles`), or defers it, fails, and tries once more at its end
(`SinkDefers`, `SinkMovesOn`).  The publisher takes an entry that is due
(`Publish`) and does the same; both may have the page at once when the job's
first attempt failed.  If the sink has acknowledged what the publisher defers, the error
ends the crawler (`PublisherDefers`).

Abstractions.  An index and a log are sets of pages, so that a page indexed twice is
not seen.  There is one view of the cluster, `seen`, that lags behind.  The other
pages of a job are only remembered as `saved`.  A replication that is tried three
times is one delivery.  A timeout fires when nothing else can end the wait, or as
a fault (`AnswerLate`).  A lease of an entry lasts as long as the sink holds it.
`Serve` merges clearing both logs and dropping the temporary one.  Left out:
pruning and compaction, dates of segments, torn logs and errors of the disk, search, quota
of the outbox, pages that may not be indexed, the chunks of a copied file.

What the model has and no property forbids, since the code does it: the copy
deletes the index and overwrites both logs, so that a page which the peer does
not have is lost when this replica copies it, and one that is acknowledged
between the start and the copy of `wal.temp` even when the peer has it in no file
that is still to come.  `kept`, a history variable, records every page that a replica
acknowledges, at any time, and gives up only what such a step replaces, at that
step; `StillOnDisk` says that all of it is on the disk, hence that no other step, kill
or start takes an acknowledged page off.  Nor does a property forbid this: a
replica that copied an index in the middle of a commit never opens again; an
entry that failed six times stays in the outbox and is not tried again.

## Runs

| Run | Question | Properties |
|---|---|---|
| `authorize` | Do auxiliary leases, request slots and budgets stay consistent when calls overlap, stall and are refused half-way? | `AuxCoversMain`, `HeldOriginHasRow`, `SlotsWithinLimit`, `BudgetsHold` |
| `crash` | With a renewal or a fault anywhere and a takeover: is the lease kept, one request on the wire to an origin, every staged capture stored before it is dropped, and a stored one final? | `OneRequestPerOrigin`, `LeaseKept`, `StagedUntilStored`, `CommittedForever` |
| `destinations` | With requests to two origins: is the global limit kept on the wire? | `GlobalLimitOnTheWire` |
| `job` | One worker with every call, at the quota, with redirects and robots.txt: do page redirects run under a main lease and resume there, does the outbox cursor stay behind the rows and the counter below them, is no pause shortened? | `WTypeOK`, `PageUnderMainLease`, `TypeOK`, `PublishedArePresent`, `CapacityCounts`, `ResumesUnderLease`, `CourtesyNeverShortened` |
| `reconciliation` | Is an old capture always answered as the worker asserts? It is not: see below. | `OffersReconcile` |
| `ampc` | With lost answers, deaths and restarts: does a mapper end only when every job is mapped and nothing runs, is a job mapped once when nothing fails, does a worker run one map, and does the computation end? | `TypeOK`, `EveryJobMapped`, `NothingLate`, `OneMapAtATime`, `OnceUnlessFaulty`, `Ends` |
| `ampc_retry` | Does the coordinator schedule a job again, as its comment says? It does not: see below. | `AwaitKeepsJobs` |
| `local` | Do the indexes and counters of the local frontier stay consistent through crashes, rounds, recrawls and requests, is a capture neither lost nor fetched twice, and does every URL settle? | `TypeOK`, `NoneStranded`, `SitesQueuedOnce`, `EmptyMeansFinished`, `CapturesMatch`, `NoSecondFetch`, `LinksFollowPage`, `RevisitsScheduled`, `EveryUrlSettles` |
| `local_claim` | Does a site that is due always have work, as a claim asserts? It does not: see below. | `ClaimsFindWork` |
| `spool` | Does the spool implement `CaptureArchive`, open again after any crash, keep what is cited, overrun its quota by one group at most, and upload what it sealed? | `TypeOK`, `OpensAgain`, `PinnedUntilReleased`, `WithinQuota`, `ArchiveKept`, `PendingArchived` |
| `spool_fit` | Does a group always take a capture, as the spool asserts? It does not: see below. | `GroupFits` |
| `live` | Does a replica keep what it acknowledged, does no page in hand vanish, and does every lock become free? | `NothingDropped`, `StillOnDisk`, `LocksFreed` |

Bounds.  `MaxTime` stops the clock; `crash` reaches past a lease, its renewal and
the cooldown to a takeover.  In `crash` a renewal takes the place of a fault
(`RenewalCost`): both together, with leases long enough to be renewed, are more
than TLC can hold; `job` has both, with leases that are not.
Transactions stall by up to the cooldown in `authorize` and `crash`.  With a
longer stall (`MaxStall = 4` in `MCCrash.cfg`) TLC finds the other properties of
`crash` to hold and `CommittedForever` violated: a claim whose snapshot was taken
before the commit became visible takes the committed URL, since the code compares
only its id again.  Then the URL is fetched once more, but its capture stays as it
is (`CapturesAreFinal`).
`destinations` has pauses shorter and longer than the cooldown in `RetryAfters`.
Two workers and two origins are the smallest numbers at which takeovers,
skipped locks, foreign origins and shared limits occur.  `MaxFaults` bounds
crashes, abandoned calls, lost transactions and shutdowns together; command ids are two per worker
(one for the job, one for the renewal or for a call nobody waits for any more)
and are used again once the call is over.  Daily budgets of two requests bound
the requests of a behaviour.  The view `Recent` of
`MCLeasedWorkers` identifies states that differ only in instants that have
passed: every guard compares them with the clock or with later instants, so
they behave alike.  Worker symmetry is used where workers are interchangeable.

The run `ampc` has three jobs, one of which only one worker can take, so that
jobs queue and a dead worker may be the only one for its job, and two mappers in
each of two rounds, so that one can disturb the next.  `MaxFaults` bounds lost
answers, deaths and restarts together: three let a worker die and come back
while the answer of another is lost.

The run `local` has five URLs of four origins and three sites, in eleven worlds that
each bring one or two features together (`MCLocalFrontier`): the frontier holds
two unfinished URLs and a site admits two, so that both limits are met; a URL
fails at most twice; the clock reaches 4, where retries wait 2, and whatever waits
longer is past it.

The run `spool` has three captures, the third of which confirms the first, three
segments that hold two, of which two may exist at once, groups of two, and a part
size of one long page, so that rotation, a full quota, both ways of uploading and a
second use of a citation occur.  The first two captures are reckoned shorter than
they are, so that a group of both overruns the quota.  `MaxFaults` is two, and one
more during recovery.  The crawl
ends, but for faults, only when the writer stops admission.

The run `live` has two replicas and one page, which is enough for two calls at once
(job and publisher).  Its two initial states are a cluster in service, with one
kill or late answer, and a cluster that starts, with one kill of a replica before
it has replayed its temporary log.

Deadlock is checked in the runs of the central frontier and of AMPC: there
`Horizon` is the step of a system whose clock has reached its bound, `Stopped` that
of a coordinator whose `run` has returned.  It is not checked in `local`,
`local_claim`, `spool`, `spool_fit` and `live`, whose systems do stop: once every
URL is settled and the clock is at its bound, once admission has stopped and
everything is archived, once the page is settled or given up.  That nothing stops
sooner is what `EveryUrlSettles`, `PendingArchived` and `LocksFreed` say.

### Liveness and what the model shows of hangs

`EveryUrlSettles` (`local`) assumes weak fairness of the process's own steps
(`Work`) and strong fairness of the clock, which the steps interrupt; without a
fault every admitted URL is fetched, or waits for a time past the bound.
`PendingArchived` (`spool`) assumes that the process is started again and
ends once admission has stopped, that system calls return, and that requests to
the object store are made and answered.  `LocksFreed` (`live`) assumes only that
something goes on as long as anything can (`WF` of `Progress`): nothing is
repeated for ever, because tries and faults are bounded, and each timeout is a step of its own.  It is the timeout
of an attempt at replication (`GiveUp`) that frees two replicas that wait for
each other.

`Ends` is the liveness property of `ampc`.  `FairSpec` assumes that
the coordinator's thread goes on (`WF` of `Run`: it waits only in a sleep and in
calls that time out) and that a map ends (`WF` of `MapEnds`: it is a thread of
its own that takes no lock of the coordinator's).  It assumes nothing of faults,
whose number is bounded.  `Ends` excepts computations in which a worker dies, and
`EveryJobMapped` a round in which one comes back; both exceptions are needed:

* a worker that is dead never counts as finished (`coordinator.rs:141`), so that
  one that dies keeps `await_scheduled_jobs` waiting for good, also when all
  jobs are mapped;
* a worker that comes back answers that it has no job, which counts as having
  finished it, and the mapper ends without the job;
* one that comes back and is given a job in the same round keeps it for good
  (`server.rs:60`), which also keeps the coordinator waiting.

No comment or test claims otherwise, so these are limits that the properties
name.

### The violated properties

`OffersReconcile` states the assertion at `leased.rs:363`.  When a worker
crashes after it staged a capture, another worker takes the URL over and commits
its own capture, the first worker's offer is answered `capture_conflict` and not
`lease_fenced`.  The process ends with an error, and because the staged capture
stays on disk it ends in the same way at every start.

`AwaitKeepsJobs` states the comment "retry scheduling" (`coordinator.rs:132`).
While the coordinator waits, a worker that does not answer loses its job to an
idle one; if there is none, the job, which was removed from the scheduled jobs
before, is not put back, and no later sweep schedules it.

`ClaimsFindWork` states two assertions of a claim (`frontier.rs:2096`, `2098`): a
site that is due has a queued origin that is due.  When the process dies after
it committed the last page of a site and before it ended the turn, recovery
makes the site due although none of its URLs is left; the claim fails, which ends the
crawler, and every later start fails the same way.  Recrawls and
operator's requests break the second assertion without a crash.

`GroupFits` states the assertion at `spool.rs:649`, that a commit group takes its
first capture.  Whether a segment has room is decided with the bytes received,
while the group is filled with the decoded body; a page that was sent compressed
can make the group empty, which stops the writer.

## Proofs

`OriginLeaseProofs` proves, for any origins, tokens, instants, cooldown and
request length with `HttpMax <= Cooldown`, that `OriginLease` keeps its types
(`Typed`), that requests on the wire to one origin were sent under one lease
(`OneLease`) and that an origin changes hands only with nothing on the wire to
it (`Quiet`).  The promise is not inductive; `FlightsInsideLease` is its
strengthening: a request belongs to the present holder and ends before its
lease has cooled down.  `CooledIsQuiet` is the heart of the argument: once
the cooldown is over, a request that must have ended before that would have to
end both before and after `now`.

`CentralFrontierProofs` proves about `CentralFrontier`, for any sets and bounds:

* `Typed`: the tables and the transactions in progress keep their types;
* `PausesGrow` (`CourtesyNeverShortened`): no call shortens a pause.  It rests on
  the row lock of the origin: between a call's check and its writes no other
  call of that origin writes;
* `CapturesAreFinal`: a stored capture is never replaced and never withdrawn,
  however long transactions stall.  It is not inductive: `UnderLeaseHolds` says
  that while a call about a lease is in progress, the origin's deadline lies after
  the clock the call was checked at, and `Unstored` that the URL of a commit in
  progress has no capture, because it holds the row of the URL;
* `CommitsAreFinal` (`CommittedForever`) is the one result with a condition on the
  database, and it is stated of behaviours, not of constants: as long as no commit
  is on its way for longer than the cooldown (`PromptCommits`), a URL whose capture
  is stored stays committed.  Nothing in the schema enforces that, and the run with
  a longer stall shows that it is needed;
* `BudgetsAreKept` (`BudgetsHold`) and `SlotsAreKept` (`SlotsWithinLimit`): calls
  that count and write hold one lock; a renewal, which moves a slot's deadline
  without it, moves that of a slot that is counted already;
* `RedirectsResume` (`ResumesUnderLease`), `PublishedStay`
  (`PublishedArePresent`) and `CounterIsCovered` (`CapacityCounts`);
* `LeasesAgree`, which contains `HeldOriginHasRow` (`HeldAreFound`) and
  `AuxCoversMain` (`AuxiliariesOutlast`).  Neither is inductive alone: a commit
  gives back what it locked when it began, and `authorize` reads the rows that a
  renewal may be extending.  `Leased` adds what a transaction in progress holds:
  the main origin under its own token (`Holds`), every auxiliary origin that it
  will extend or give back, and no deadline past a lease from now (`Bounded`).
  Tokens never come back, because the epoch of an origin only grows
  (`TokensKnown`, `RowsKnown`);
* `HandoversOrderly`: a claim or an acquisition in progress has found its origin
  cooled down, and a commit or nack gives back origins of its own URL alone.

`LeasedWorkersProofs` proves about the composed system, for any workers,
commands, faults and network delays:

* `WorkersAreClients`: the workers over their network are clients that
  `CentralFrontier` allows (`WSpec => Spec`), so that every theorem above holds
  of the composed system as well.  It rests on `Sound` (`SoundHolds`): a process
  waits for the call that its step has sent, a message names a granted token and
  its URL, and a transaction in progress belongs to a call still to be answered.
  `WorkersTyped` (`WTypeOK`) follows from it;
* `NothingFetchedIsLost` (`StagedUntilStored`).  `Recorded` is the strengthening:
  an acknowledged commit on the wire is about the capture that the frontier has
  stored, and `CapturesAreFinal` keeps it so until the answer arrives;
* `RequestsUnderLease`.  `Owned` says that a token is carried by one process or
  one answer, and that nobody carries a token for which a commit or nack has
  been sent.  `InLease` says what a process may rely on: its local deadline does
  not outlive its lease, the answer of a renewal on the way promises no more
  than the lease has, an answer of `authorize` that arrives before the cooldown
  is over still has its slot and its origin, and a request ends before the
  cooldown of its lease.  From the two follow `OneProcessPerOrigin`
  (`OneRequestPerOrigin`) and, with `SlotsAreKept`, `WireWithinLimit`
  (`GlobalLimitOnTheWire`);
* `PromiseKept` (`LeaseKept`): the refinement of `OriginLease`, each step a step
  or a stutter of it.  A handover is allowed since `HandoversOrderly` says that
  the lease has cooled down or is given back by its holder, and `Owned` that the
  holder has nothing on the wire when it gives back;
* `PagesUnderMainLease` (`PageUnderMainLease`).  That a redirect leads to another
  origin is known to the process before the frontier has saved it.  `Saved`
  bridges the two: a process heads for a page of another origin only when the
  redirect is saved with its URL, or while its call that saves it is not yet
  granted; and a page of a saved redirect is admitted to no lease but the one
  that is claimed for it.

None of them bounds a stall.  A call keeps the row of its origin locked until it
is visible, so that while it stalls nobody takes the origin over; and what a
worker relies on is counted from before its call was sent, so that an answer which
comes too late grants nothing.  `PromiseKept` takes the abstract lease to
range over all tokens and all instants (`AllGrants`); in the runs `Grants` and
`Instants` are the ones that occur there.

`AmpcCoordinatorProofs` proves about `AmpcCoordinator`, for any workers, jobs,
rounds and numbers of faults:

* `Typed`, `OneMapEach` (`OneMapAtATime`) and `NothingRunsLate` (`NothingLate`).
  The invariant `Ordered` adds `Single` (a worker maps its current job or
  nothing) and `Heard`: a worker that said in this sweep that it has no job still
  has none.  It is what makes a decision on answers that were collected one
  after the other sound: only the coordinator gives out jobs;
* `MapsEveryJob` (`EveryJobMapped`).  `Accounted` says where a job is: in the queue, in the coordinator's hand,
  on a worker, or mapped; or else a worker is dead and has not told this sweep
  that it is idle, and then the mapper does not end;
* `MapsOnce` (`OnceUnlessFaulty`).  `Unharmed` says that without a fault a job is in one
  place at a time, which is inductive only together with `Heard`: the worker that
  takes the job has been idle since it was asked.  A job is its place in the list,
  so that the theorem covers lists with equal jobs, each of which is mapped once:
  `harmonic_centrality/coordinator.rs:191` makes one for every worker that answered,
  and replicas of a shard give equal ones.  That a shard is then mapped once per
  replica is what the code does.

`LiveIndexProofs` proves about `LiveIndex`, for any replicas, pages, tries and
faults:

* `OnDiskUntilReplaced` (`StillOnDisk`).  `Cleared`, `CopiesAlone` and `Emptied`
  strengthen it: the logs are cleared only while nothing can be written to them and
  only of what the index has, files are copied in one phase only, and the peer's
  index comes where no index is;
* `NoPageForgotten` (`NothingDropped`) and `OneCallEach`: of the two users of the
  outbox, the one that settles a page has it in hand, and no answer comes to a
  caller that has gone on;
* `Typed` (`TypeOK`).

`LocalFrontierProofs` proves about `LocalFrontier`, for any sites, origins, URLs,
limits and worlds, and any number of crashes, every safety property that the run
`local` checks:

| Theorem | Property |
|---|---|
| `TablesTyped` | `TypeOK`, the two counters of sites being natural numbers included |
| `NoneForgotten` | `NoneStranded` |
| `OneTurnPerSite` | `SitesQueuedOnce` |
| `EmptyIsFinished` | `EmptyMeansFinished` |
| `ReconcileNeverFails` | `CapturesMatch` |
| `NotFetchedTwice` | `NoSecondFetch` |
| `LinksAdmitted` | `LinksFollowPage` |
| `VisitsKept` | `RevisitsScheduled` |

A transaction is an operator from database to database, so most of the argument
is about operators and knows no process.  `Sound` says what the tables have to
agree on: shapes (`TablesOK`), rounds of rows (`RowsOK`), unfinished URLs and the
sites that work on them (`UnfinishedOK`), the queue of sites and its counters
(`SitesOK`, `CountsOK`), the queues of origins (`OriginsOK`), and the outbox of
commits (`OutboxOK`).  None of them is inductive without the others: that a round
begins with nothing left needs the counters, these need that a site has one
entry in its queue, and that entry is found again by the site's row.  The
properties about links and visits are stated of all databases in `LinksOK`
(a link waits in the outbox, or has been offered, or cannot be admitted any more:
`Covered`) and `VisitsOK`.

Admissions, discovery, plans, requests, recrawls, redirects and the outbox only
add work.  What they have in common is `Preserves`: the database stays sound, and
what a turn or a capture in progress is about stays as it is (`Steady`).  A batch
is admitted row by row and some operators are made of several, but `Preserves`
composes (`PreservesTwice`), so that each kind of admission needs it once.  A lease, a commit, a
resolution, the end of a turn and the two recoveries change just that, and have
a lemma each.

Of the process, `TurnsOK` and `LeasedOK` say that a leased URL is in the hands of the
turn of its site or of the next start; `FetchesOK` and `JournalOK`, that a fetch id
in a row or in a receipt has been issued; `CaptureHeld`, that a receipt whose
capture is not committed belongs to a turn about to commit it, once
reconciliation is over; `OutboxHeld`, that the outbox is then in the hands of the turn
that filled it.  With them `CapturesMatch` and `NoSecondFetch` are inductive:
no step between the receipt and its commit touches the row, because the turn
holds its lease, and a crash leads to reconciliation before another lease.

The assumptions are those of the code's types: an origin has one site, limits
are positive (`TableAssumptions`), and links, seeds, plans and requests are about
URLs (`WebAssumptions`).  That only finitely many sites exist is not assumed:
`CountsOK` carries that the queues are finite.

`CaptureArchiveProofs` proves `AcknowledgedStay`: in every behaviour that
`CaptureArchive` allows, an acknowledged capture is in the spool or in the
object store.

`SpoolProofs` proves, for any segments, captures, sizes, limits, batches and any
number of faults, that `Spool` implements it (`PromiseKept`, the property
`ArchiveKept`); what follows of acknowledged captures is stated of `Spool` itself
in `AcknowledgedAreKept`.  `OpensAlways` (`OpensAgain`) and `PinnedStay`
(`PinnedUntilReleased`) are from the same invariant, `IInv` (`Inductive`), which has
four parts:

* each file by itself (`FileOK`): a journal line counts bytes that were synced, and
  both descriptors, the visible and the synced one, tell the truth about the
  file.  Whatever mixture of the two a loss of power leaves is therefore a file
  of the same kind (`RemainsSettle`), has all that was durable, and is one that
  `Spool::open` reads.  A capture is in one segment at most, and what was
  acknowledged is durable or archived (`DiskInv`);
* memory and disk: they agree about a segment at rest (`Agree`).  After an error
  they need not, which is why the writer must stop; the uploader and `Release` go
  on, and what they rely on holds even then (`Basic`);
* the operation: for each list of effects that may be left, what the earlier
  ones have done (`AtWork`, one disjunct each in `Alter`, `Create`, `Write`, `Erase` and
  `Salvage`).  This is where the order of the effects matters: the descriptor of
  a deleted segment outlives its files, the line follows the bytes;
* the batch: each capture is still to be written, in flight or durable
  (`BatchOK`), and what it cites is pinned, or about to be, before it is
  written (`CitesOK`, `CatalogOK`).

A step of an operation makes durable (`Grows`) or deletes a segment that is
archived (`Drops`); an upload, the answers and all other actions leave the disk
alone (`Moves`).  `PromiseKept` reads this as `Keep`, `Discard`, `Archive` and
`Acknowledge`.  The proof rests on the file system as modelled, a sync of one
directory included, and on a consumer that releases only what it can read in
the object store.

`QuotaHolds` (`WithinQuota`) holds of any sizes; its one hypothesis is that there are
finitely many segments.  Its invariant, `QuotaInv`, says that between the check and
the write (`AboutToWrite`) there is room for what the group is reckoned at, beside
more than the code's own statistics count: all files, also those that are removed
and not yet synced, which a loss of power may bring back.  A step that only
removes, syncs or cuts short leaves the sum no larger (`Shrinks`); one that writes
uses the room that `NextGroup` found, and as much more as the captures are longer
(`StepQuota`, `BytesSplit`).  The sums are folds: each is expanded to the function that
defines it, and an induction over subsets is carried by a smallest counterexample
(`SmallestSet`, `OneChain`, `SumIs`).

The quota is not a limit that the code keeps.  The later captures of a group are
checked by their decoded body alone (spool.rs:636), with 1%, the URL and 8 KiB on top,
which cover the difference to what is stored as long as it is small: in the run
`spool`, `DataBytes + Slack <= MaxSpoolBytes` is violated by a group of two long
pages.  What holds, and what `WithinQuota` says, is that the overrun is that of one
group and never adds up.  The test of the quota (spool_tests.rs:236) writes records
one by one, without a payload of their own.

Constants are constrained only by the named assumptions of each module, which
TLC evaluates in the runs; those of `OriginLease` are a definition
(`OriginLeaseAssumptions`) and a hypothesis of its theorems, since the module is
used by INSTANCE.

Only model-checked: the liveness properties `Ends`, `EveryUrlSettles`, `PendingArchived`
and `LocksFreed`, since liveness under fairness is out of the prover's reach.
Liveness of the leased crawler is not stated: its progress rests on
workers that keep calling, and needs the publisher and operators that are not in
the repository.

## Plan

1. `CentralFrontier`, `LeasedWorkers`, `OriginLease` and its proofs (done).
2. `CentralFrontierProofs` and `LeasedWorkersProofs`: every safety property that
   the runs check (done).
3. `AmpcCoordinator` and `AmpcCoordinatorProofs` (done).
4. `LocalFrontier` over `LocalFrontierTables` (done) and `LocalFrontierProofs`: every
   safety property of its run (done).
5. `CaptureArchive`, its proof, `Spool` and `SpoolProofs`: every safety property of its
   run (done).
6. `LiveIndex` (done, but for pruning and compaction) and `LiveIndexProofs` (done).
7. Pure algorithms: write-ahead log iteration, DHT upserts, TTL cache and leaky
   queue, retry delays, external sort.

Not modelled, and why: search, ranking and centralities compute numbers over
large indexes; parsers, the front end and scripts have no shared state; tantivy
is vendored; membership is a wrapper of an external gossip library; the indexing
pipeline runs independent jobs whose results are merged once; the legacy
coordinator keeps its queues in memory only and is superseded by the two
frontiers; the hash table of AMPC and the stores are single-owner data structures, of
which the models use what they promise.
