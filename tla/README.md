# arm-rental in TLA+

`rental-app` is one Rust process (`experiments/rust-replay/src/production/`)
that crawls List.am, keeps what it found in SQLite, and sends matching listings
to Telegram users and to a channel. This directory holds TLA+ models of its
concurrent and crash-prone parts, the TLC runs that check them on small
instances, and TLAPS proofs for instances of any size.

All source paths below are relative to
`experiments/rust-replay/src/production/` unless they start with `ops/`,
`docs/` or `README.md`.

## 1. The system

### Components

| Component | State | Operations |
|---|---|---|
| Poll thread (`runtime.rs` `poll_thread`, `recover_deletions`, `send_operations`; `bot.rs`) | update offset, `telegram_users` rows, confirmations and rate gates in memory, deletion markers | `getUpdates`, one handler per update, replies, deactivation, working off deletion markers |
| Private scheduler (`runtime.rs` `Scheduler::deliver`) | job queue, token buckets, `running`, generation a job was checked in | classify, throttle, spawn, requeue, drop, drain on stop |
| Send workers (same function) | recipient gate, cancellation flag, item in hand | read, send, acknowledge, report |
| Private selection (`private.rs`, `storage.rs`) | `private_recipients`, `private_delivery_decisions`, `private_delivery_work`, temp table `private_delivery_batch` | prepare candidates, initial selection, readmission, filtering, batch, acknowledge, history answer, selection request |
| Channel delivery (`channel.rs`, `runtime.rs` `channel_delivery`) | `channel_state`, `channel_deliveries`, `channel_work` | prepare, page of operations, send / edit / replace / repost, acknowledge |
| Crawl (`crawl.rs`, `source.rs`, `storage.rs` `commit_crawl`) | `apartments`, watermarks, first-page counts | fetch pages until the watermark, integrity checks, commit |
| Exchange rates (`runtime.rs` `rates`) | stored snapshot, shared cooldown | refresh from two threads, fall back on the stored value |
| Transport (`transport.rs`) | pacing of the source, retry state of a call | bounded attempts, `retry_after`, cancellation |
| Lease (`lease.rs`) | `.singleton.sock`, `.singleton-recovery`, `.singleton.json` | acquire with stale recovery, drop |
| Health (`health.rs`, `health_cli.rs`) | component states, failure counters, firing alerts | observe, evaluate, resolve |
| Recovery (`recovery.rs`) | snapshots, staging, live database files | backup, verify, restore |
| Storage (`storage.rs`) | the SQLite file | open, validate, migrate, checkpoint |
| Configuration, operator commands (`config.rs`, `operations.rs`, `inspection.rs`, `browser_cleanup.rs`, `bin/rental-app.rs`) | none, or one command's | parse, run, cancel on a signal |
| Deployment and operations (`ops/`) | release pointers, running container, state backups | deploy, roll back, monitor, exercise |

### How they interact

- The main thread alternates crawls and passes. A pass runs the private
  scheduler and, beside it, the channel worker. The poll thread, the metadata
  thread, the health server and the rates thread run all the time.
- The poll thread, the scheduler and the workers share one SQLite connection
  under a mutex. It is held for one handler, one classification or one worker
  section, never over a network call. Crawl, channel and rates have connections
  of their own.
- Each recipient has a mutex, the *gate*. A worker holds it from the moment it
  reads the user to the end of the acknowledgement, network call included; the
  poll thread takes it to delete or deactivate; the scheduler takes it to
  classify or to look at a waiting job.
- A cancellation flag per worker, raised by a confirmed deletion and by a stop,
  interrupts its network call. A generation counter tells the scheduler that
  some recipient's state changed, so that it looks at waiting jobs again.
- `stop` ends all threads; `fatal` also forbids further acknowledgements.

### What is hard about it

Deleting a user while a worker is between Telegram's answer and the
acknowledgement; shutting down without losing an acknowledgement and without
waiting for ever; a job whose recipient left while it waits for a token;
classification cut into six transactions that a crash may separate; decisions
changed by the user while a prepared batch is being delivered; a lease made of
files that several processes probe, remove and bind. `PROJECT.json` lists the
hazards at their lines with the properties that cover them.

### What makes each component correct

- *Private delivery*: nothing of a deleted user remains or comes back; an
  acknowledgement belongs to the registration it was read from; what Telegram
  accepted is acknowledged unless the user is being deleted or storage failed;
  at most eight sends; deletions, shutdown and passes come to an end.
- *Private selection*: no listing is lost, whichever transactions a crash cut
  off; none is sent twice without a change at the source; a declined one is
  never released; a filter change releases nothing.
- *Lease*: one owner, who can be reached; recovery removes abandoned paths only;
  an acquisition ends.
- *Channel*: every pending listing is posted once, edits go to the message that
  was posted, a failure of one operation does not hold back the others.
- *Crawl*: nothing is committed of a crawl that failed; what appeared since the
  last crawl is found although pages shift; reading a listing again is no news.
- *Updates*: each update is applied once and in order whatever reply fails and
  wherever a crash falls; a rejected input is answered before it is forgotten.
- *Rates*: attempts are spaced, whichever thread makes them.
- *Health*: an alert fires from its cause to its remedy; ready means that a crawl
  was completed; a stop ends every thread.
- *Recovery*: whatever step of a backup or restore is cut off or fails, the prior
  state is still there, and no log is replayed over a database it does not extend.

## 2. Plan

| # | Module | Subject | State |
|---|---|---|---|
| 1 | `Delivery`, `DeliveryProofs` | poll thread, scheduler, workers of one process | done, all safety properties proved |
| 2 | `Lease`, `LeaseProofs` | singleton lease, supervised or not | done, all safety properties proved |
| 3 | `Selection`, `SelectionProofs` | decisions, work rows and batches of one recipient | done, all safety properties proved |
| 4 | `Channel`, `ChannelProofs` | channel cursor, work, posts and acknowledgements | done, all safety properties proved |
| 5 | `Outbox` | abstract promise of delivery, implemented by `Selection` through a refinement mapping | done, refinement proved in `SelectionProofs` |
| 6 | `Updates`, `UpdatesProofs` | update offset, inputs acknowledged after their reply, rate decisions, replay after a crash | done, all safety properties proved |
| 7 | `Crawl`, `CrawlProofs` | watermark scan against a source that changes between pages, commit of a crawl | done, all safety properties proved |
| 8 | `Service`, `ServiceProofs` | main loop, exchange rates with their shared cooldown, readiness and alerts, stop | done, all safety properties proved |
| 9 | `Recovery`, `RecoveryProofs` | backup, retention, validation and restore, cut by crashes and failures | done, all safety properties proved |
| 10 | `TelegramCall` | back-off of one call | dropped: sequential arithmetic, and its outcomes are in the modules above |
| 11 | `Deployment` | release switch of the host scripts | dropped: it would be a model of docker and systemd, not of this code |

`Delivery` and `Selection` look at the same code from two sides: `Delivery` has
all recipients, locks and threads and counts batch rows; `Selection` has one
recipient and knows which listing each row is. Composing them adds nothing that
either property set tells apart, since the gate serialises what `Selection`
treats as steps (that is `AcknowledgesWhatItRead` and `ItemInFlightHasRow`).

The modules share no variables. What one of them takes as an outcome is what
another establishes: `Service` has crawls, deliveries and refreshes that succeed
or fail, `Crawl` commits listings that `Selection` and `Channel` meet as
`Commit`, `Delivery` has handlers whose updates `Updates` orders, and `Recovery`
runs under the lease.

## 3. Modules and their correspondence to the code

### Delivery

| Variables | Code |
|---|---|
| `user`, `recipient`, `batch` | `telegram_users` row (absent, inactive, active, `deletionPendingAt`), `private_recipients` row with its cascades, rows of the temp table |
| `gate` | `Gates` map, one mutex per recipient |
| `cancel` | the worker's flag, in the `Cancellations` map or not |
| `checked`, `seen` | `checked_recipient_state_generation` equals the counter; the value loaded before the gate still does |
| `main`, `hand`, `running`, `job`, `later`, `attempts` | the main thread and its queue: phase 0, 1, 2 is classify, announce, listing; `later` is `due > now` |
| `worker`, `result` | where a worker thread is and what it will send through the channel |
| `poll`, `todo`, `next`, `subject`, `deleting`, `left`, `unavailable`, `doomed` | the poll thread: markers still to work off, updates left, recipients no reply can reach, an error of the batch that will stop the runtime when it has been wound up |
| `lost` | history: the recipient whose committed change was never read back |

Sections under the database mutex are single actions; everything between two
such sections can interleave. A failure of the scheduler's or a worker's
statements is `MainStorageFails` or `WorkerStorageFails`. In the poll thread it
matters which statement it is (`PollStorageFails`):

- `MarkersUnread`, `DeletionFails`, `DeactivationFails` and `HandlerFails` set
  `fatal` and `stop` at once; a handler may have committed part of its work.
- `LoadFails` and `ReloadFails`, the reads before and after handling
  (`runtime.rs:206`, `runtime.rs:219`), leave the batch by `?`: markers are still
  worked off and unreachable recipients deactivated before `UnavailableDone` sets
  the flags (`runtime.rs:265-270`). What `ReloadFails` leaves behind was committed
  by the handler, without the bump and without the cancellation flag; `lost` names
  its recipient, and divergence 12 says what comes of it.

A deactivation commits (`DeactivateUnavailable`) before its bump
(`BumpDeactivated`), both under the gate. `Crash` is a
crash at any point or the end of a stopped process: what SQLite committed
stays, the temp table and all memory are gone until `Restart`. Token buckets and back-off are
reduced to "may have to wait" (`Throttle`, `Requeue`) and "the wait is over"
(`Due`). The queue's order is left out: any queued job may be picked.

### Selection

One recipient. Each SQLite transaction is a step, so `Crash` can fall between
any two. Classification (`Prepare`, `Select`, `Readmit`, `Filter`,
`RetainPending`) and handlers hold the database mutex to their end, so nothing
else of the recipient happens in between; sends interleave with handlers.
Clock comparisons are reduced to the two questions the code asks: `recent`
(within 24 hours) and `changed` (changed after the decision and within 24
hours). `renewed` are the work rows that readmission put under a new id, which
`retain_pending` and `acknowledge_batch_item`, deleting by the ids they
loaded, do not see. `answered`, `sent`, `rejected` and `backlog` record history
for the properties and never influence a step.

### Lease

Every system call on the directory is a step: bind and listen are two, so a
socket file exists before it accepts connections. `listening` is the kernel's
view, `socket` the directory's. `supervised`, which never changes, says whether
a process starts or stops only when no other is in the middle of acquiring or
dropping, which is what systemd and Compose impose (`docs/architecture.md`,
"Singleton lease and supervision"); crashes stay unrestricted. The safety
properties hold if it is TRUE, `AcquisitionDecided` in both cases.

### Channel

| Variables | Code |
|---|---|
| `prepared`, `unseen`, `again` | `channel_state`: the filter fingerprint, and the listings whose `changed_sequence` or `encounter_sequence` is past `source_sequence` |
| `status`, `hash`, `old` | `channel_deliveries`: status, content hash, `published_at` more than 72 hours ago |
| `work` | `channel_work` |
| `ahead`, `page`, `plan`, `item` | the loop of `channel_delivery`: rows past `after`, rows of the page `operations` has not looked at, the operations it returned and not yet performed, the one under way |
| `mode` | running, `stop` set, no process |
| `shown` | what the message whose id is stored shows |

`prepare` is one transaction (`PrepareFirst`, `Prepare`); `operations` is none,
so `Enter`, `Readmit` and `Examine` are steps that a crash can separate. Main
thread and channel worker take turns, so `Commit` and `Encounter` happen
between publications; the clock (`Age`) runs all the time. A call may fail with
or without effect: a lost reply to an edit leaves the post changed, a lost reply
to a post leaves a message nobody knows. `Leave` is every early return. The
order of posts (`work_id`) is left out: `LoadPage` may take any rows. The fourth
argument of `Telegram::call`, the number of attempts, is inside one call.

### Outbox

What a recipient is promised, without tables: each listing is absent, waiting,
sent, rejected by the filter or declined (`phase`), may have been changed since
(`fresh`), be due in the pass under way or on its way. `Selection` maps its
decisions to `phase`, `changed` to `fresh`, the batch to `due`, the item to
`flying` and a selection to come to `asked`; cursor, work rows, candidates and
renewed rows have no counterpart, and the six transactions of classification are
a `Select`, `Release`s, a `Reject` and a `Queue` with stutters between them.

### Updates

| Variables | Code |
|---|---|
| `log` | what Telegram has for `getUpdates`; an update's id is its place |
| `offset`, `rows` | `telegram_state`, `telegram_users`: the input that is pending, the filter's value |
| `pc`, `at`, `end`, `held` | `poll_thread` and `send_operations`: the update under way, the rest of the batch, `ackOffset` |
| `tokens`, `decisions` | `Context.buckets`, `Context.decisions` |

`Handle` is `handle_update` with the database locked, its transaction included;
`Replied` and `ReplyFails` end its operation, and `Acknowledge` is the
`update_offset` that a rejected input holds back. Text is four kinds of input:
one that asks for a filter, a valid and an invalid value, any other menu entry.
`limited`, `replied` and `verdict` are history.

### Crawl

| Variables | Code |
|---|---|
| `day`, `board`, `date` | List.am, from how `source.rs` reads it |
| `stored` | `apartments`: category and posting date |
| `sources` | the configured categories |
| `pc`, `at`, `page`, `today`, `watermarks`, `seen`, `signatures` | locals of `crawl` |

A fetch is a step, so cards come and move between pages. `Passed` is how many
cards the page number skips; past the end (`Beyond`) List.am answers with no cards
or with its last page again. `Scanned` is the loop over the cards of a page with
its watermark, `Commit` is `commit_crawl`. A failure at any point is `Fail`, an
empty first page `FirstPageEmpty`. The configured categories differ
(`SourceAssumption`; `config.rs:312-313` fixes two).

`moves`, `owed`, `due` and `unstored` are history. `Calm`, and `Remove` between
crawls only, are assumptions about the source without which no crawl could keep
`NothingMissed`: while one page is fetched fewer cards than a page come up, and
none is taken down. `Forgone` takes out of `owed` what divergence 11 loses.

### Service

| Variables | Code |
|---|---|
| `pc`, `passed`, `error` | the main loop of `serve`, `preflight`, the error of a run |
| `worker` | the rates thread |
| `stop` | the flag |
| `age`, `wait`, `primed`, `elapsed` | the stored snapshot's age, the time until `next` of the shared cooldown, whether it is set, the time since the attempts under way began |
| `health` | the state behind `health.rs`: components, counters, firing alerts |

The cooldown's mutex is held by whoever is in `refresh`; the other thread waits
(`Unlocked`). Time is in ticks and passes while the process is down. Readiness
and its reasons are `Reasons`; `Probe` is a request to the health server, which
also fires or resolves the readiness alert. Crawls, deliveries and the four
attempts of a refresh only succeed or fail here, and one pass of the loop calls
the health functions in the order the code does.

### Recovery

| Variables | Code |
|---|---|
| `live` | `DATA_DIRECTORY` |
| `temporary`, `stage`, `rollback` | the directories named by process id and counter |
| `daily`, `weekly` | the published recovery points |
| `pc`, `pid`, `chosen`, `next`, `installed`, `moved`, `errors`, `outcome` | `create_snapshot`, `restore_snapshot` and their locals |
| `before`, `acknowledged`, `prior`, `intact`, `torn`, `reused` | history: what the restore found, the last commit, the files owed, whether a restore left other files or a foreign log, which directories a restore found in use |

Every rename, copy and removal is a step, so `Crash` falls between any two or half
way through a copy, and each may fail (`CreateFails`, `ValidateFails`,
`StageFails`, `InstallFails`, `UndoFails`, `RemovalFails`). Removing a directory
of an attempt is one step. A database is the version a reader reconstructs; a log
extends one version only, and over another yields `Mixed`.

A command gets any process id of `Pids`, also one that an earlier command had: a
one-off container numbers its processes from the start, a long-lived host does
so after a wrap. A stage or rollback directory is then the one the earlier
command left, and `clone_tree` fails where it meets a file (`Stage`, `StageFails`). Nor does
anything keep the service from starting after a restore that did not finish
(`Start`), although `docs/state-recovery.md` tells the operator to. The properties
name the two cases in which that matters, by `reused` and `torn`.

## 4. Runs

| Run | Specification | Instance | Shows |
|---|---|---|---|
| `delivery` | `Spec` | 2 recipients, 1 worker slot, 1 attempt, 1 row, 1 update; symmetric | the six invariants and `AcceptedIsAcknowledged` under every interleaving, failing statement, stop and crash (1.6 million states) |
| `delivery_live` | `FairSpec` | 1 recipient, 2 attempts, 1 row | deletions are completed, a stop ends both threads, a job of a recipient who left is dropped, all without rate and retry waits running out; a pass ends if they do |
| `selection` | `Spec` | 2 listings, 2 filters, limit 1, crashes; symmetric | nothing lost, nothing sent twice without a change, nothing released by a filter, and that `Selection` implements `Outbox` (1.8 million states) |
| `lease` | `FairSpec` | 2 processes, 3 starts each, supervised and not | an owner that stays reachable and is therefore the only one, and safe removal, if supervised; every acquisition is decided in any case |
| `channel` | `Spec` | 1 listing, 2 filters, 2 texts; symmetric | nothing forgotten, also when the filter changes; no known duplicate |
| `channel_live` | `FairSpec` | 2 listings, 1 filter, 1 text, limit 1, pages of 1 | a listing that Telegram accepts is published although another one fails for ever, across pages |
| `updates` | `FairSpec` | 2 users, 3 updates, rate 1, 1 crash | each update applied once and in order, rejected inputs answered, rate decisions stand, every update handled |
| `crawl` | `FairSpec` | 3 cards, one undated, 2 categories, 2 days, pages of 2, 1 refresh, 1 failure | nothing missed, no false change, what is owed is stored in the end |
| `service` | `FairSpec` | a snapshot fresh for 3 ticks, cooldown 2, attempts of up to 1, 2 challenges, 2 failures | spaced refreshes, exact alerts, earned readiness, a stop ends, crawls go on |
| `service_ready` | `Spec` | as `service` | *violation*: a network failure after an integrity failure makes the service ready |
| `recovery` | `Spec` | 3 commands, 2 process ids, 2 commits, 3 days, 2 crashes, 2 failures; symmetric | prior state kept unless a restore is given the rollback directory of another, restores all or nothing, logs with their databases, backups current, newest points kept (4.1 million states) |
| `recovery_rerun` | `Spec` | 3 commands that share one process id | *violation*: a second restore removes what the first one moved aside |

### Bounds

- `Users`: a hazard involves one recipient's worker and the poll thread, or one
  recipient's job standing in for another's slot: two recipients over one
  worker slot contain both. `MaxWorkers = 1` makes the limit bite.
- `MaxAttempts`: `delivery_live` has two, a first attempt, a retry and giving up.
  `delivery`, where each attempt multiplies the states of two recipients, has one;
  that its invariants survive retries is in the proofs, for any number. `MaxBatch`: one
  row is enough for a batch to empty, its job to come back and the batch to be
  prepared again; any number of rows is in the proofs.
- `MaxUpdates = 1`: batches of updates differ from single ones in `left` only;
  the poll loop returns for more at once.
- `Listings`, `Filters`, `Limit`: two listings compete for a limit of one, and
  two filters let each listing be admitted by either, both or none.
- `Procs`, `MaxStarts`: three starts let a process find what its own and
  another's crash left, recovery directory and socket both, and meet a rival
  while it recovers; any number of processes is in the proofs.
- `Channel`: what happens to a listing depends on others only through the limit
  of the first run, the pages and failed calls. So one listing meets two filters
  and two texts, and two listings meet a limit and pages of one.

- `Updates`: three updates are an input that is asked for, a value for it and one
  more of the same or another user, which is refused by a rate of 1 or waits
  behind a reply that fails. `Write` adds them one at a time, so batches of every
  length occur; a second crash finds nothing the first did not leave.
- `Crawl`: with pages of 2, three cards make two pages whose boundary moves; two
  days separate the watermark's own day from an older one; `Undated` has one card
  without a date. One refresh and one failure let a crawl fail, be repeated and
  find a known card on top.
- `Service`: `Cooldown < Fresh` and attempts that take a tick order every expiry
  against every attempt; limits of 2 tell the first from the last. `MaxElapsed`
  bounds how long four attempts take; the code's timeouts do.
- `Recovery`: three commands are a backup, a restore and a repeated restore (or a
  second backup for retention); two process ids let the repetition have the
  first one's directories or others. Two commits make a log over a version and a
  version it does not extend; two crashes and two failures cut a restore and
  its repetition. Retention keeps one point of each kind and two of the three days
  are Sundays, so that daily and weekly points are removed, also after a removal
  that was cut short (the code asks for at least 7 and 4, the proof for one).
  A sentinel that survives in a stage (the exception of `AllOrNothing`) takes five
  commands; the proof covers it, the run does not reach it.

The runs of `Lease` and `Recovery` set `CHECK_DEADLOCK FALSE`: starts, commands
and days are used up, and the processes really stop.

### Fairness

`Delivery` assumes that every thread keeps running (network calls have
time-outs, a free mutex is taken) and, where a thread competes again and again
for something that comes free again and again, that it is not passed over for
ever: the queue is rotated, so a job is reached; a gate is released for as long
as a network round trip before the poll thread can want it again. Nothing
obliges users to write, Telegram to accept or an operator to stop. In the end
a process stays up. That rate and retry waits run out is a premise of `PassEnds`
only. `Lease` assumes that a running process takes its
next step and that time passes. `Updates` assumes that the poll thread goes on
and, by the strong fairness of `Replied`, that a reply which is attempted again
and again is in the end accepted or refused for good; nobody has to write.
`Crawl` assumes that the crawl goes on, and bounds how often it fails. `Service`
assumes that both threads and the clock go on; the main thread is not
passed over for ever when it waits for the cooldown's mutex (`SF_vars(Main)`), since the
other thread sleeps between its turns; and, for `CrawlsAgain` alone, that what
fails does not fail for ever: some refresh, and some preflight or crawl,
succeeds if it is tried again and again. `Channel` assumes that a process which runs
performs the next step of its publication, that crawls succeed again and again
(a publication follows one), and that in the end a process is left running;
`PendingIsPublished` itself says what Telegram must do.

## 5. Proofs

`DeliveryProofs` proves `Spec => []IInv` for any finite set of recipients and
any bounds, and from it every safety property of the run `delivery`. The
properties are not inductive by themselves. `IInv` adds what each thread knows
at each step:

- `GateOwned`: the gate is held by exactly the thread that is in its scope, so a
  deletion and a send exclude each other (`AcknowledgesWhatItRead`,
  `ItemInFlightHasRow`).
- `TodoMarked`: only marked users are worked off, so deletion never meets a
  recipient that was registered anew (`DeletedLeavesNothing`).
- `JobsPlaced`: a job out of the queue is a message job in its worker's hands.
- `FlagsRaised`: the flag exists from spawn to report and is raised for a marked
  user's send once the handler of the confirmation is through, unless the user is
  `lost` (`DeletionCancelsSends`).
- `ChecksFresh`: strengthens `CheckedMeansEligible` to jobs that a worker holds.
- `LostStops`: somebody is `lost` only in a batch that is `doomed` or in a runtime
  that is stopping, so the two properties are excepted for one batch at most.
- `Counted`: `running` is the number of workers, with the finite-set facts that
  a spawn adds one and a receipt removes one.

Each conjunct has a lemma, each lemma a step per action that can disturb it.
`AcceptedIsAcknowledged` is an action property and follows from `IInv` by cases
on the steps that let a worker return.

`LeaseProofs` proves one owner, its reachability and the safety of removals
if `supervised`, and type correctness in any case, for any number of processes and starts. The invariant
says that at most one process is between start and rest, that whoever found
nobody listening shares the directory with no owner, and that a process is
named by the path from its bind on.

`SelectionProofs` proves every property of the run `selection` for any finite
set of listings, any filters and any limit. `SInv` adds to the types:

- `Candidates`: while classification runs it has the database to itself, and
  its candidates are the work rows.
- `BatchUndecided`: batch rows are listings that nobody rejected or declined,
  and exist only in a pass (`DeclinedForGood`, `FilterReleasesNothing`).
- `Covered`: `NothingLost` for the filter of the cursor instead of the current
  one, with what initial selection must find in the work rows.
- `SentAcknowledged`: what Telegram accepted is acknowledged, unchanged and out
  of the batch, or is about to be (`SentOncePerChange`).
- `RejectedDecided`: what a filter rejected stays filtered and unchanged, or
  declined; a selection that may release it is one the user asked for.

`Select` is proved through a lemma that says listing by listing what it decides
(`SelectDecides`), with the finite-set fact that a limit of zero selects nothing.

The same module proves that `Selection` implements `Outbox`: initial states
map to initial states, and each step to the step of `Outbox` listed under
*Outbox* above or to none. It rests on `SInv` and on `Placed`: only what is being
sent is in hand, and nothing is decided of a listing before it is stored.

`ChannelProofs` proves every safety property of the run `channel` for any listings, filters, texts and sizes. `CInv` says that a
row is ahead of the page, on it or planned (`PagePartition`), that a publication
works under the filter its cursor was moved with (`CursorCurrent`), states
`NothingForgotten` for that filter, so that it survives a change of the
configuration (`Covered`), and ties every planned operation to the state of its
listing (`PlanFits`, from which `NoKnownDuplicate` follows).

`UpdatesProofs` proves the types, `DecisionStands`, `StateMatchesOffset` and
`RejectedAreTold` for any users, updates and rates. `BatchPlaced` says that the
update under way is the one at the offset, or just below it once its transaction
has passed it; it is carried over a growing log by `Sized`, the same over a log of
n updates. `Recalled` says that nothing above the offset has been decided, and
that what was decided of the update at the offset is remembered or would be
decided again.

What handling updates leaves in the tables is a recursive function of the log
(`After`). The proof never computes it: that the recursion has a solution, and that
updates below the offset leave the same rows when only what lies above them changes
(`AfterUnfolds`, `AfterSame`), are inductions over the set of lengths for which
it holds, which the prover can do where it cannot take an operator. A step that
moves the offset by one uses one instance of the equation. `Settled` says that only
updates below the offset have been refused, and that one whose offset is held was
rejected and is told to its user before the offset moves.

`CrawlProofs` proves the types for every way of writing dates, `UpdatesAreReal`
and `NothingMissed` for calendar dates (`~RelativeDates`; with the others
`NothingMissed` is false, divergence 8). The cards, the categories, the
page size, both page budgets and all bounds are arbitrary.

`UpdatesAreReal` follows from `Faithful`: what List.am has not changed since it was
stored reads exactly as it is stored, and an undated card as what is stored for it.

For `NothingMissed` one has to know where an owed card can be while pages are read
and cards move. `NInv` says:

- `Sorted`, `Placed`: a board shows its newest card first, a card keeps its category.
  A refresh or a removal moves the rest by one place (lemmas on `Raised`, `Without`).
- `Stage`, `Kept`, `Marked`: what a crawl has read so far, that a category which
  was read has something stored or seen, and that a watermark is the date of a
  stored card.
- `OwedPlaced`: an owed card is shown by a followed category, and nothing stored
  of that category is newer. So the watermark never passes it, and an old
  card that ends the scan has everything owed above it.
- `Signed`: the cards of the pages already read were seen and lie no further than
  `Passed + moves`. Since fewer cards than a page come up (`Calm`), a page that is
  still to come has a card which is not among them, unless it lies past the end;
  so a page that repeats an earlier one hides nothing.
- `Expected`: an owed card of the category under way was read with its date
  (`Current`), is still to be read (`Pending`), or came up behind the page read next
  after the crawl began and is newer than all that was read (`Behind`).
- `Finished`: of the categories that were read, an owed card is `Current` or is not
  due and newer than all that was read; so the next watermark does not pass it
  either, and it stays owed.

`Commit` then has every due card `Current`.

`ServiceProofs` proves `AlertsExact`, `ReadyIsEarned` and `RatesSpaced` for any
limits and times. `Reported` says what is known of an error where it is reported,
`Cleared` that nothing is owed of a source that was validated; `Tallied` and
`Sounded` tie the counts and the two alerts to what happened, save for what the
run under way has yet to report; `Earned` does so for what readiness asks, and
`Spaced` says that after failed attempts the cooldown has as long to run as is
missing since they began.

`RecoveryProofs` proves every property of the run `recovery`, for any process ids
given in any way and whenever the service starts; there is no hypothesis on
the operator. `RInv` says:

- `Shaped`: what is published or restored is an archive, a closed database
  without log and cookie, and a stage holds neither log nor cookie.
- `Recorded`: a directory that a restore finds in use is in `reused`.
- `Current`: as long as every restore left what it found or succeeded (`intact`), the
  files are those of the last commit; as long as none left a foreign log (`torn`),
  the log is the database's own. While a restore works this is said of the
  files it found.
- `Progress`: each of the four targets is `Untouched`, `Removed`, `Exchanged` or,
  while a failed restore undoes what it did, `Returning`; in the last case
  without the order the code goes in, since a step of the way back may fail.
  `Staged` allows for the sentinel of a stage that was in use.
- `Kept`: every file owed is among those this restore found or in the rollback
  directory of another id, while no restore was given a rollback directory in use.

`PriorKeptApart` follows because a file that was found is at every step in place or
in the rollback directory (`FoundIsSafe`), and the directory is removed only when all
targets are back or all are exchanged (`AllIsBack`). `AllOrNothing` follows from
`Progress`, since a restore that ends without an error has all targets on the same
side. For `NewestKept` the invariant `NInv` says that a point which was emptied
has as many whole newer ones as are retained, and the point that is removed next is
the newest in excess.

Assumptions: the named `ASSUME`s of the modules (finite set of recipients,
positive bounds, `None` and `Nobody` outside the sets, in `Recovery` also outside
the logs, directories and points). TLC evaluates them in every run.

Types are proved for every module with proofs, and checked by a run as well in
`Crawl` and `Recovery`; `Outbox` states none of its own.

Only model-checked: liveness (`MarkedIsDeleted`, `StopTerminates`, `PassEnds`,
`IneligibleJobDropped`, `AcquisitionDecided`, `PendingIsPublished`, `Handled`,
`Discovered`, `StopEnds`, `CrawlsAgain`), which is out of the prover's reach, and
the violations of section 6. Every other property of a run is a theorem.

## 6. Divergences found

Two are shown by a run whose property TLC finds violated:

1. `recovery_rerun`: the rollback directory is named by process id and a counter
   (`recovery.rs:24-30`), and one-off containers number their processes alike. A
   restore after one that a crash cut short takes the directories of the first
   for its own, fails, and removes the only copy of the prior state
   (`recovery.rs:670-671`), which `docs/architecture.md:568-570` promises to keep.
   `PriorKept` fails in this case only: `PriorKeptApart` is `PriorKept` without it,
   and holds.
2. `service_ready`: `list_am` has one status and one code (`health.rs:288-297`). A
   network failure after an integrity failure overwrites it, and the service
   answers ready although no page has passed its checks since;
   `docs/health-readiness.md:47-50` says otherwise. The alert stays firing.

Others are in the models, stated there as operators that no run checks, or
follow from a constant's other value:

3. `OneOwner` without `supervised`: when starts overlap, the recovery's second
   probe is out of date when it removes the path, and a socket refuses
   connections between bind and listen; two processes can own the lease
   (`lease.rs:72-79`). `docs/architecture.md:469` promises one owner without that
   proviso.
4. `AnswerStands` (Selection): `save_telegram` commits the answer to a start
   together with the update offset (`bot.rs:920`), `request_selection` is a second
   transaction (`bot.rs:928`). A crash between them loses the selection, and the
   update is not seen again; `README.md:62`.
5. `NewOnlySendsNew` (Selection): after a stop and a start with "new listings
   only" a pass that is still under way sends the rows it had prepared
   (`runtime.rs:554`, `README.md:60`).
6. `AcceptedIsAcknowledged` (Channel): `channel_delivery` does not acknowledge an
   operation that Telegram accepted when `stop` is set by then
   (`runtime.rs:687-689`); the documented shutdown (`docs/architecture.md:474`)
   drains accepted acknowledgements, as private delivery does.
7. `PostsCurrent` (Channel): work is dropped by comparing the listing with the
   acknowledged hash (`channel.rs:208-212`). After an edit whose acknowledgement
   was lost and a change back at the source, the post keeps the text in between.
8. `NothingMissed` with `RelativeDates = TRUE`: a date stored as "today" is read
   again at the next crawl's clock (`storage.rs:1387-1414`, `source.rs:203-213`),
   so the watermark moves with the days and cards below it are missed. List.am shows
   such dates only in layouts the parser accepts besides the usual one.
9. `OwnLog` without `~torn`: a restore cut between installing the database and
   moving the old log aside leaves a log that the next start of the service
   replays over the restored database. `docs/state-recovery.md` keeps the
   service stopped, the code does not.
10. In `Service`: the alert of a challenged startup stays firing while nobody
    monitors, since only a crawl resolves it (`health.rs:198`); the alert for
    failures stays firing when monitoring ends and its count is reset
    (`health.rs:231-236`). The docs do not say when these are resolved.
11. `NothingMissed` without `Forgone`: a category with fewer cards than a page is
    read past its end, and List.am may show its last page again. If two of its cards
    were refreshed after they were read, and another was posted after midnight, that
    page is no repetition by its ids: the new card is stored with its date, the two
    keep their first reading (`encountered`, `crawl.rs:177`). The next watermark is
    the new day; the first of the two ends that scan, the refresh of the second is
    missed. `README.md:26-29` and `docs/architecture.md:519-521` promise it without
    this proviso. Three cards on pages of four show it within three days.
12. `DeletionCancelsSends` and `CheckedMeansEligible` without their exception: if the
    read after handling fails (`runtime.rs:219`), what the handler committed is neither
    announced nor flagged, and the runtime stops only when the batch has been wound
    up (`runtime.rs:268-270`). A deletion confirmed in that update is worked off
    meanwhile and waits for its user's send, and a job checked for that user stays
    checked. `docs/architecture.md:58-60` has a confirmed deletion cancel the request
    first. The window is one batch, and the proofs say that it is the only one.

## 7. Not modelled

- Text: menus, announcements, filter parsing, HTML and XML parsing, prices, log
  events. Floating-point time in the token bucket, back-off lengths. SQL schema
  migration and row validation.
- Parts of modelled components: the metadata thread; the alerts for Telegram
  credentials and stale rates; the health server's protocol and `health_cli`;
  `maintenance` and `disk_check`, which measure and report; announcements and
  the order of sends in `Selection`; the queue's and the posts' order.
- The save of a refreshed rate that fails while a snapshot is stored is dropped by
  the code (`runtime.rs:770`, `runtime.rs:801`); `Service` takes it as attempts
  that failed.
- In `Crawl`: cards taken down or more than a page of cards posted between two
  fetches of one crawl, and a category in use that becomes empty. The code cannot
  see the former (List.am gives no cursor) and refuses the latter by design.
- In `Recovery`: a validation stage that a crash left behind (it has a
  name of its own and is not read again), and the `state` audit.
- Deployment, rollback, host bootstrap, monitoring and release scripts: shell over
  docker and systemd, whose behaviour would be assumed and not modelled. The
  order they impose on starts is `supervised` in `Lease`.
- The replay experiments, fixtures and tests.
