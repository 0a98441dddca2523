# A TLA+ verification of FastDB

FastDB is a FastQL frontend (`src/fastdb`) over a pinned Turso engine
(`src/core`). Around the language there is a good deal of protocol: a service
that publishes each write exactly once although clients retry and commits fail
without saying whether they happened; an engine with multi-version transactions
and group commit; nested atomic operations that can be cancelled at any moment;
an embedded adapter whose clients share worker threads; command-line tools that
must survive a power failure. This project models these parts, checks them with
TLC and proves the safety of the service, of its clients, of atomic operations, of
the resumable import and of the offline conversion with TLAPS.

## The system and its parts

| Part | Source | Module |
|---|---|---|
| Publication protocol: requests, receipts, sequence, retry window, fence, recovery | `fastdb/service/src/lib.rs`, `fastdb/frontend/src/service_catalog.rs`, `request_wire.rs` | `ServicePublication`, `PublicationLedger` |
| HTTP connections, job permits, admission queue, shutdown and checkpoint | `fastdb/service/src/http.rs`, `admission.rs`, `fastdb/cli/src/service.rs` | `ServiceLifecycle` |
| Remote client and request journal | `fastdb/bindings/node/client.cjs`, `request-journal.cjs` | `ClientRecovery` |
| Embedded adapter: shared sessions, one worker per file | `fastdb/bindings/node/embedded-client.cjs`, `embedded-worker.cjs` | `EmbeddedSession` |
| Atomic operations, savepoints, cancellation, interrupts | `fastdb/frontend/src/lib.rs`, `interrupt.rs`, `core/vdbe`, `core/connection.rs` | `AtomicOperations` |
| Engine MVCC: versions, dependencies, validation, exclusive transactions, collection | `core/mvcc/database/mod.rs`, `core/mvcc/cursor.rs` | `MvccTransactions` |
| Engine group commit | `core/mvcc/database/group_commit.rs`, `mod.rs` | `GroupCommit`, `CommitLog` |
| Cloud CLI: resumable import | `fastdb/cli/src/cloud/imports.rs`, `journal.rs` | `CloudImport` |
| Offline conversion to MVCC and its restore | `fastdb/cli/src/migration.rs` | `OfflineConversion` |
| FastQL parser, planner, functions, indexes, metering, transfer, other bindings | `fastdb/parser`, `fastdb/frontend/src`, `fastdb/bindings` | not modelled |

A write through the service meets three of the modules: the client prepares a body
with a fresh identity and the sequence it knows (`afterSequence`), saves it, and
sends it (`ClientRecovery`); the HTTP layer turns it into a job, which waits in
admission for a place to run (`ServiceLifecycle`); running, it takes the schema
lock, executes on a snapshot, and publishes under the publication mutex
(`ServicePublication`). `ServiceLifecycle` sees a running request only as
something that may write or raise the fence, and `ClientRecovery` sees the
service only as a ledger with uncertain publications. The first view is what
`Commit` and `StorageError` do; the second is what `ImplementsLedger`,
`ExactlyOnce` and `ConfirmedSurvives` establish. What `Commit` takes from the
engine (one snapshot, a conflict when the row has changed, a record that is
whole or absent) is what `MvccTransactions` and `GroupCommit` check one layer
below; the two of them meet at the log record: the first treats writing it as
one step, the second is about nothing else. `AtomicOperations` is the frontend
between a caller and one engine connection.

## Modules and how they correspond to the code

### ServicePublication

A *thread* is one call of `query`, `read` or `info`. Its `pc` names the place
where the call can be overtaken:

| `pc` | place in `lib.rs` |
|---|---|
| `schema`, `first`, `bad`, `publish`, `exhausted`, `info` | in `lock_before`, waiting for the schema lock or the publication mutex |
| `begin`, `read` | about to open the transaction of an attempt, or of a read |
| `settle` | `COMMIT` has returned; sequence, fence and answer are still to come |

Actions are the stretches between those places: `LockCheck`, `LockBusy`,
`LockRefused` and `SchemaLock` are the turns of `lock_before`; `First`, `Begin`,
`Publish`, `GiveUp`, `Settle` are the stretches of `query_locked`;
`NeedExclusive` is `query` starting over with the exclusive lock. The check of
the fence and the try-lock are two steps, as they are in the code.

`db` is what connections of the process see; `recoverable` is the set of
databases that opening the files could find now. They differ after an uncertain
commit. A `COMMIT` that fails with anything but a conflict has three fates:
nothing was written, the record may be on disk, or the record was appended and is
visible to the process although its sync failed. `Stop` is a process death or exit at any
step, and picks one of the recoverable databases. `log` inside a database is a
history variable: it stands for the effects of all publications, the receipts
table is `receipts`.

`W`, `Attempts` and `Limit` stand for 64, 16 and the largest sequence. SQL is
abstracted to its result, a success or an error with rollback; a body is
abstracted to its digest, its kind (plain, schema change, unpreparable, read,
info), `afterSequence` and `ifSequence`.

From the engine the model takes: a transaction sees one snapshot, a log record
is on disk entirely or not at all, the `UPDATE` of the state row conflicts when
another transaction has changed it since.

`PublicationLedger` is the abstract service: an append-only ledger that never
takes back a confirmed publication. A crash may only remove publications that
nobody was told about.

### ServiceLifecycle

One connection carries one request. `conn` is the connection task, `job` the
blocking database job, which outlives its connection when the client leaves.
`Acquire`, `Sleep`, `Wake`, `Admit`, `Expire` and `Finish` are the pieces of
`Admission::acquire` and `Permit::drop` between which the mutex is free; waking
without a notification is included. A running job looks at the fence a last time
(`Pass`) before its `COMMIT` (`Write`), which appends to the log and may checkpoint
it on its own, whatever other jobs do; `Fence` can fall between the two. `phase`
follows `serve` through its stop: listener dropped, admission closed, connections
joined, job permits collected, checkpoint.

### ClientRecovery

One application has one *intent*. It prepares a request, saves it, submits it and
recovers it until the outcome is known; only a confirmed rollback lets it prepare
another (the rule of `docs/service-protocol.md`). The application and the service
die at any point; the owner of the URL can be replaced by one with another
database; requests are delivered late, after their call has given up, and
responses are lost. A journal file that is being written can be torn, complete or
absent after a crash, and a `saveRequest` that could not sync the directory leaves the
file behind although it failed (`SaveFails`). The application's conduct is part of
the model, since `client.cjs` leaves it to the caller.

### EmbeddedSession

`sessions` is the map of `embedded-client.cjs` from canonical paths to sessions,
`ses` every `Session` made so far with its worker's inbox and outbox. A *slot* is
one use of the API: an `openEmbedded` call and the client it returns. The actions
are the stretches of the asynchronous functions between two awaits (`Lookup`,
`LookAgain`, `ReadySettled`, `InfoSettled`, `Released`), the callers' moves
(`Open`, `Call`, `Abort`, `Close`, the deadline `Abandon`), the worker (`Start`,
`Serve`, `Die`) and the event handlers of the main thread (`Receive`). The native
lock of a file can be held by another process. What a worker does with a write is
left out.

### AtomicOperations

`frames` is the stack of `savepoint_on_stack` calls, `db` the engine's side of the
connection: committed rows, rows of the open transaction, autocommit, the named
savepoints and the mark of an abandoned write. Every `SAVEPOINT`, write, `RELEASE`
and `ROLLBACK TO` is a statement with a beginning, an effect and an end, and may be
interrupted before, between (a write in halves) and after. Tokens ask through the
progress handler, once per installed guard and not during a clean-up; the handle
of `InterruptHandle` sets the connection's flag in two steps and is not held back
by clean-ups. `Succeeded` and `Failed` are the decision table of
`savepoint_on_stack`.

Any statement can also fail on its own (`EngineError`). A `SAVEPOINT`, `ROLLBACK TO`
or `RELEASE` that fails before its effect leaves the transaction as it is or rolls it
back, as the error arms of `Program::abort` decide; a write fails with or without
what it had stored. A commit that fails or is interrupted is *uncertain*
(`UncertainCommits`): `cleanup_dropped_commit` rolls it back when its record was not
appended, and completes it when only the sync failed. The frontend cannot tell the
two apart; `execute_atomic_request` reports any error after the callback as
`FDB_STORAGE`, which `embedded-worker.cjs` treats as uncertain. `OutcomeTold`
therefore allows complete writes behind an error in one place only, the `RELEASE` of
an outermost operation.

### MvccTransactions

`chain[r]` is a row's version chain; a version's begin and end are a timestamp or
the id of a transaction whose fate decides them. `BeginVisible`, `EndVisible` and
`Speculative` translate `is_begin_visible` and `is_end_visible`, including reads
of a transaction that is still preparing; `Register` is
`register_commit_dependency`. A commit goes through the states of
`CommitStateMachine` (`Prepare`, `Publish`, `Validate`, `Wait`, `BeginLog`,
`WriteLog`, `CommitEnd`, `RewriteLiveVersions`, `Notify`, `Finish`), a rollback
through `Abort`, `Tell` and `Undo`. `Drop` is `cleanup_dropped_commit`: the dropped
transaction is rolled back, completed when its record is in the log, or left to the
leader that is appending it (`abandon_if_issued`), which then commits or rolls it
back (`Adopt`) and removes it (`Leave`). `Acquire*` are the steps of
`acquire_exclusive_tx`, `GcStart` and `Collect` those of `gc_incremental`. With
`threads` every connection has a thread and all steps interleave; without, one
thread drives them all and only the places where the code yields do (`MayRun`).
Row contents are the ids of their writers.

### GroupCommit and CommitLog

`g` is the coordinator's `GroupState`; `pc` follows each commit state machine from
`BeginCommitLogicalLog` to `FinalizeCommit`. Leaders append their own and others'
records, sync and raise the durable watermark; a failed append hands the record
back as a retry; a statement can be dropped between any two steps, after which
`cleanup_unfinished_commit` decides the transaction's fate or leaves it to the
leader. `CommitLog` is what callers rely on: a record enters the log at most once,
a transaction is committed only with it and aborted only without it, and under
`synchronous=FULL` success means synced. Tickets, locks, batches and wakeups are
hidden by the refinement mapping (`Fate`).

### CloudImport

`start` hashes the snapshot chunk by chunk, saves the journal, syncs it, and only
then talks to the service; `resume` begins at the journal; `cancel` needs a job
only. Each request is a message that its sender may stop waiting for and that can
still arrive; `PowerFailure` may take a journal whose directory was not synced.
The service is external. It is assumed to keep a part it has confirmed; otherwise it
is permissive, and accepts a completion without looking at the parts, so that
`CompleteWhole` is the client's merit.

### OfflineConversion

Each command is a process that goes through the statements of `migrate` or
`restore`. A file is its bytes, whether they are synced and whether its name is;
`PowerFailure` takes what is not. The application that owns the source opens it,
writes and checkpoints whenever the lock allows. The source is a WAL database: one
with a sidecar of another journal mode is refused, which is `Fail`.

### Setups

Several questions about one module need different settings. `MvccTransactions`,
`GroupCommit`, `CloudImport` and `EmbeddedSession` choose theirs in `Init` from a
constant (`Setups`, `Casts`, `Budgets`) and never change it, so that one run covers
several configurations. A property that is claimed for some of them only says so
(`ExclusiveSerial`, `ImplementsCommitLog`); why is told under
"Further disagreements".

## Runs

| Run | Specification and bounds | Distinct states | Shows |
|---|---|---|---|
| `publication_window` | 2 threads, `W`=2, 1 attempt, 4 publications, 5 bodies | 995,644 | The safety invariants, with a receipt evicted, its body retried, its ID reused, uncertain commits and crashes |
| `publication_calls` | 2 threads, all kinds of call, 2 attempts, 2 publications, fairness | 102,472 | A schema change is alone; the ledger is implemented; every call is answered |
| `fence_race` | 2 threads, fairness | violation | See Findings |
| `read_restart` | 2 threads | violation | See Findings |
| `service_lifecycle` | 3 connections, 2 connection and 2 job permits, 1 running, 1 queued, fairness | 12,480 | Counters, wakeups, capacity, stop, checkpoint; jobs return; a service told to stop exits |
| `client_recovery` | 1 application, 2 databases, `W`=2, 3 publications, 2 drafts, 3 calls | 810,572 | What the application is told is true, its intent happens at most once |
| `embedded_session` | 2 slots; 2 files opened twice, or 1 opened three times; 1 adapter, 1 outstanding request, 2 requests, fairness | 166,060 | One adapter per file, exact references and tokens; openings and closes end |
| `atomic_operations` | 2 tokens, depth 2, 2 operations by the caller, 3 writes, 3 savepoint names, 1 interrupt, any number of engine errors | 2,317,494 | Cancellation restores, outcomes are told, nothing is committed in half |
| `mvcc_transactions` | 6 setups of 2 or 3 transactions and 2 rows, one of them in the B-tree | 1,489,086 | Snapshots, first committer, exclusive transactions, bookkeeping |
| `group_commit` | 3 transactions, one with `synchronous=FULL`; 3 setups, fairness | 264,425 | Coordination, refinement of `CommitLog`, every commit is resolved |
| `cloud_import` | 2 parts, 1 receipt per page, 1 poll, 2 changes; 2 starts and a crash, a start resumed with a crash, or a start and a cancel | 396,779 | A job has its journal; only whole snapshots are completed |
| `offline_conversion` | 2 conversions to one output, 1 restore, 2 writes, 1 crash | 255,070 | Backups and outputs are whole, nothing is replaced or lost |

Why the bounds are enough to see the interesting cases.

* *Publication.* With `W`=2 and four publications a receipt is evicted and its ID
  used again at distance three, the first distance at which that is allowed, and
  the last sequence is reached. Two threads give every pair of overlapping calls:
  one that commits and one that was overtaken, or one that fails and one past the
  fence check. One attempt makes `exhausted` reachable; `publication_calls` has
  two, so that the retry loop turns.
* *Lifecycle.* The two jobs exactly fill one running and one queued place, as
  36 = 4 + 32 does in the code, and one connection more than there are permits
  competes for them. The safety properties are proved for all sizes.
* *Client.* Three calls are a submission and two recoveries, two drafts are a
  request and its replacement after a rollback, and publications by others push
  the request out of the window.
* *Embedded.* Two files and one adapter reach the limit; three openings by two
  users let one file be opened while it is closing and again afterwards; one
  outstanding request makes the second one refused; a request that was aborted
  keeps its place.
* *Atomic operations.* Depth two is an operation around another, with the caller's
  `BEGIN` around both; the third savepoint name is the last, so that the counter
  also runs out; one interrupt is enough to break a clean-up, and the second
  operation of the caller then meets what was left.
* *MVCC.* A writer of both rows, a deleter and a reader give torn snapshots the
  chance; two writers that meet in a resident and in a new row, validation; two
  transactions that each read what the other writes, cycles of dependencies, and two
  dropped statements, one for each; two writers in a batch, a reader of what they
  write and one drop, a waiter that is abandoned to its leader while it has a
  dependent.
* *Group commit.* Three transactions are a leader, a waiter and one that comes
  later; two failures are a leader's and a waiter's, also with a thread for each
  connection, where both may be dropped; two connections with
  `NORMAL` and one with `FULL` make a leader write for a stricter member.
* *Import.* Two parts and one receipt per page need two pages. A torn snapshot
  needs two changes.

`Limit`, `MaxSeq`, `MaxDrafts`, `MaxCalls`, `MaxIds`, `MaxWrites`, `MaxDepth`,
`MaxInterrupts`, `MaxChanges`, `MaxVersion`, `MaxCrashes` and the fields `drops`,
`crashes` and `opens` are bounds on behaviours; of these only `Limit` and `MaxIds`
also exist in the code, as much larger numbers.

Symmetry (threads, databases, tokens) is used only in runs without liveness.
Deadlock is checked except in `embedded_session`, `cloud_import` and
`offline_conversion`, where everybody may have finished.

Each property has a fault that breaks it, an operator marked `Fault:` beside the
definition it would replace: a window one too wide, a missing notification, a
dropped header comparison. `Bookkeeping`, `Coordinated`, `AdapterExact` and
`ConversionHasBackup` are conjunctions of named invariants that belong together.

### Fairness

* `publication_calls`: a running call is scheduled (weak fairness of its steps),
  and its deadline arrives: `lock_before` looks at the deadline at every turn, so
  a call that keeps turning is refused at some turn (strong fairness of
  `LockRefused`, since the check and the try-lock alternate). Nothing is assumed
  about the order in which a polled lock is handed out.
* `service_lifecycle`: jobs and `serve` are scheduled, an operation ends (its own
  deadlines, and `Answered`; a stalled filesystem call, which the deadlines cannot
  interrupt, is excluded), a wait in the queue expires (`wait_timeout`), and a
  connection is dropped when its 20 seconds of drain are over. No client is
  assumed to do anything: while the service runs, a connection may stay open.
* `embedded_session`: the event loop runs every continuation and delivers every
  event, a worker takes up its next message and the native call it makes returns.
  No caller is assumed to close or to call again, and the deadline need not come.
* `group_commit`: whoever drives a statement steps it again. The fairness is strong
  because on one thread a statement can step only where another yields, and a
  waiter that meets an open retry takes and returns the commit lock in a loop until
  the owner of the retry has had its turn: a driver that always polled the first
  and never the second would hang, and weak fairness does not exclude it.

## Proofs

| Module | Proves |
|---|---|
| `ServicePublicationProofs` | `TypeOK`, `ExactlyOnce`, `ReceiptsAreTheWindow`, `IdentityReuseIsFar`, `SerialWrites`, `ConfirmedSurvives`, `ToldSurvives`, `OneAnswer`, `ReplyInWindow` |
| `ServiceRecoveryProofs` | `RecoveryValidates`, `SchemaChangeAlone`, the refinement `ImplementsLedger` |
| `ServiceLifecycleProofs` | `TypeOK`, `Accounting`, `NoLostWakeup`, `QueueNeverFull`, `NothingStartsAfterStop`, `CheckpointAlone` |
| `ClientRecoveryProofs` | `NoStray`, `ClaimsHold`, `IntentOnce`, `JournalCovers`, `NotSentIsTrue` |
| `AtomicOperationsInvariant`, `AtomicOperationsProofs` | `CommittedWhole`, `OutcomeTold`, `CancelRestores` |
| `OfflineConversionProofs` | `ConversionHasBackup`, `ReportedSurvives` |
| `CloudImportProofs` | `JobHasJournal`, `CompleteWhole` |

Each holds for every value of the constants: any number of threads, connections,
requests, applications, databases, commands and tokens, every window, attempt limit,
capacity, depth of nesting and bound on behaviours. The assumptions are named in the
component modules: `RequestAssumption` (well-formed bodies; equal digests are equal
bodies), `ConstantAssumption`, `BoundAssumption`, `CapacityAssumption` and
`Parameters` (numbers are natural; the window, the attempts and the places to run are not
zero; the markers `None` and `Torn` are none of the values they stand beside),
`SettlementAssumption` (`None` is not a settlement either), and `FitAssumption`
(`MaxJobs <= MaxActive + MaxQueued`, true of the constants in the code).

**Publication.** No listed invariant is inductive alone: whether a retry may be
published depends on the receipts still there, on the window of its
`afterSequence`, and on how far `db` and `recoverable` may be from `pubSeq`. The
inductive invariant `Inv` adds to the types:

* `Sound(d)` for every database in `Databanks`: its receipts are its window, each
  publication lies within `W` of its `afterSequence`, equal identities are more
  than `W` apart, and writes are serial. `PublishedIsSound` shows that one
  publication that passed `replay` and `check_position` keeps this. Exactly-once
  follows (`SoundIsOnce`): two publications of one body lie in one window of width
  `W` and share an identity, so they cannot be more than `W` apart.
* `Control`: what a call has established when it is at a label.
* `Settlement`: between a commit and its settlement the mutex is held by one
  thread, and a sure commit is the only recoverable database.
* `Durable` and `Ahead`: all candidate databases agree up to `pubSeq`, hold
  everything confirmed, and are at most one publication ahead. This is what makes the
  fence race harmless: a publication that slips past the fence goes on top of the
  settled sequence and replaces the uncertain candidate, or meets a conflict.

`ReplyInWindow` and `ToldSurvives` follow from the same invariant: what a call was
told is at most `pubSeq`. `SchemaChangeAlone` has an invariant of its own about who
holds the schema lock.

The proof has one step per action. `CommitStep` treats the four outcomes of a
commit once, for successful writes, error receipts and exhausted calls.
`Refinement` maps the ledger to `db.log` and the confirmed set to the sequences in
`acked`.

**Lifecycle.** `Inv` is the types, `Accounting`, `NoLostWakeup`, `JobsBounded`
(live jobs within the semaphore), `Drained` (what `serve` waited for stays gone)
and `Fresh` (a connection still reading has no job). `QueueNeverFull` is the
counting argument: the arriving job is itself one of at most
`MaxActive + MaxQueued` jobs, so the others cannot fill all places.

**Client.** `Inv` of `ClientRecoveryProofs` relates four places a request can be in,
the ledgers with what is in limbo, the network, the journal and the application.
`Recorded`: an entry lies in its own database and in the window of its request, and
is made once; what is in limbo could still be the next entry. `Fresh`: identities
and call numbers grow. `Prepared`: what an application holds follows from what it
has saved and sent. `Journalled`: a request that left is in the journal unless its
rollback was confirmed. The last is the key to `IntentOnce`: a second request of an
intent exists only when the first one is in its ledger as a rollback.

**Atomic operations.** Everything an operation tells its caller is relative to the
state in which it was entered. `Inv` of `AtomicOperationsInvariant` therefore says,
for each place of the innermost operation and of its running statement (`Position`),
how the database differs from the `entry` of its frame: `Marked` with the
savepoint, `Opened` with its writes too, `Inside` the transaction with the savepoint still
there, `Outside` without it, `Done`. A frame below the top is in its callback, and
the one above it was entered in exactly the state that callback had made
(`Nested`); so a return is a step of the frame below, which is what `PopStep` shows
once for all ways to return. `Sound` carries the poison mark: what is not marked is
whole, in the pages and in every savepoint. `Undisturbed` says that without the
handle no flag is set, so that a clean-up, whose tokens are suspended, fails only in
an `EngineError` of its own: that step, or a `FDB_ROLLBACK` handed up by an operation
inside, is what `CancelRestores` blames (`Blame`). `Outcome` is what a frame must
have made true when it returns: the writes done, the entry restored, the transaction
rolled back, or, in the `RELEASE` of an outermost operation, either end of an
uncertain commit; with `FDB_ROLLBACK`, that nothing was committed and the savepoints
around the operation are there or the whole transaction is gone. The two action
properties are proved with the step of the invariant (`Honest`).

**Conversion.** `Inv` says what is on disk when a command is at a place of its
sequence (`Filling`, `Staged`), that a readable manifest and the files it lists
survive a power failure together (`Manifested`), and that a published output is
durable and whole and, when converted, still has its way back (`PublishedWhole`).
The lock on the source, held from `lock_source` to the end, is what keeps two
conversions from filling one backup (`Roles`).

**Import.** `Inv` of `CloudImportProofs` says what an invocation has established where
it is (`Placed`), what the answer it waits for will mean (`Told`), and what a request
under way may still assume, whether or not its sender lives (`Sent`). Two facts
carry the result. A job has one declaration, whoever holds it: a start, a journal, a
request or the service (`OneDeclaration`), because a journal is never replaced. And that
declaration has a witness (`Witnessed`): the content `h` of the file at the moment the
hash was finished. No part of the file was older then than in the hash; a part that is
sent is still the hashed one, so `h` has it too; and when all parts were sent, `h` is the
declaration. That is why a file hashed under no lock cannot be completed torn.

**Model-checked only.** Liveness (`Answered`, `EveryJobReturns`, `Stops`,
`EveryCommitEnds`, `EveryWaitEnds`) is
outside the prover's reach, as are `ENABLED`, induction over data and `RECURSIVE`
operators (none are used). The safety properties of `MvccTransactions`, `GroupCommit`
(with its refinement of `CommitLog`) and `EmbeddedSession` have no proof yet: their
inductive invariants have to describe every interleaving of a dozen labels.

## Findings

Both are differences between what a document says and what the code does; the
proved properties hold in spite of them.

* `fence_race`. `service/README.md:73` says that uncertainty stops further
  database operations. A call that had passed the fence check of `lock_before`
  gets the mutex after the fence is raised and publishes.
* `read_restart`. `docs/service-protocol.md:227` says the sequence survives a
  restart. A read that falls between an uncertain commit and the fence can answer
  with the sequence of that commit, which the restarted service may not have. The
  sequences in write and info replies do survive.

## Further disagreements

Comments, an assertion and tests of the code claim more than the model of the code
gives. Each claim is a definition at the end of its module; checking it as a further
property of the named run, with the setup given where it is not one of the run's
own, shows the violation.

| Claim | Where it is made | What happens |
|---|---|---|
| `NoAbortedReplay` (`group_commit`) | `group_commit.rs:50` "They must not roll back themselves", `group_commit_tests.rs:615` "recovery must not replay an aborted waiter" | The leader appends a waiter's record (`mod.rs:3478`) and only then notes it (3480). A waiter dropped on its own thread in between sees neither mark (7091, 7100) and rolls itself back, with its record in the log. |
| `HoleHasWaiter` (`group_commit`) | `group_commit.rs:45` "The waiter rebuilds its log record instead of hanging." | A failing leader checks that the waiter exists and then asks for its retry (`mod.rs:1851`). A waiter dropped in between has already removed its tickets; the retry has no taker, and `take_work` hands out nothing while one is open. |
| `DependentsDrained` (`group_commit`) | `mod.rs:6701` "commit_dep_set must be drained before removing the transaction" | `finish_abandoned_group_waiter` removes a committed waiter (`mod.rs:1973`) without notifying its dependents. When it has any the assertion fails: the waiter stays in `txs`, the leader's own commit is dropped as the panic unwinds, and the dependents are never told. |
| `ExclusiveAlone` (`mvcc_transactions`, `Upgrades` on threads) | `mod.rs:7541` "no other txn can sneak in and commit" | A commit looks for an exclusive transaction (`mod.rs:3110`) before it stores `Preparing`; the compare-exchange and the scan for preparing transactions fit in between. |
| `ExclusiveIsCurrent` (`mvcc_transactions`, `Upgrades` with one drop, or grouped) | `mod.rs:7496` "Another transaction committed after this transaction's begin timestamp, do not allow exclusive lock." | A dropped commit is finished by the clean-up (`mod.rs:7106`), which does not raise `last_committed_tx_ts`. A commit logged by another's batch raises it only when its own state machine goes on, and gives up the thread before. |
| `UpdateSupersedes` (`mvcc_transactions`) | assertion `cursor.rs:1916` "read found a visible version but update could not supersede it" | The writer of a speculatively read row rolls back between the read and the update. |
| `SyncedBeforeWork` (`cloud_import`) | `journal.rs:25` "Sync contents and directory before any request that could execute work." | A resume loads a journal that its start has created and not yet synced, and goes on without syncing it. |
| `IdleRequestsIgnored` (`atomic_operations`) | `interrupt.rs:78` "Idle requests do not poison subsequent statements.", `connection.rs:4885` | `interrupt` tests for an active statement and stores the flag in two steps; the next statement can begin with the flag set. |

This is why `ImplementsCommitLog` is claimed for one thread, `ExclusiveSerial` for
setups without dropped commits and without group commit and, on threads, among
exclusive transactions,
`EveryCommitEnds` except behind a retry that lost its waiter on threads, `CounterExact`
(in `Bookkeeping`) as an exact count that does not promise the answer, and
`JobHasJournal` excepts jobs that a resume took over before their journal was
synced. Files without a directory are in `core/mvcc/database`.

## What is not modelled

* The language (parser, planner, functions, indexes) is sequential translation
  whose correctness is query semantics; at sizes TLC can handle there is nothing
  to learn that tests do not show.
* The engine's pager, WAL and B-tree are the pinned upstream's. Of MVCC,
  checkpoints, recovery from the log, savepoints inside a transaction, indexes,
  schema and header cookies are left out.
* The embedded worker's handling of a write: one thread answers one request at a
  time, with the receipt window and position check of the service.
* Managed migrations (`frontend/src/migration.rs`): one atomic operation over a
  table of applied scripts, compared and extended in the same transaction.
* Cloud CLI requests (`cloud/requests.rs`): one journalled request, with the
  journal of `CloudImport` and the retry rule of `ClientRecovery`.
* Tokens, header and argument validation, formatting and byte limits change no
  state the properties speak of. In `client.cjs`, `warm`, deferred connections and
  the resend after a Cloud queue refusal are left out.
* Liveness of an import: its waits are bounded by a request timeout and a number of
  polls, which the model bounds too.

## Plan

1. Proofs: `AdapterExact`; the dependency counters and the snapshot of
   `MvccTransactions`; then `Coordinated`.
2. MVCC checkpoints and recovery, on top of `CommitLog`.
3. Composition of `ClientRecovery` with the ledger by refinement, so that its
   service actions are shown to be those of `PublicationLedger`.
