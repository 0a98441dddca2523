------------------------------ MODULE GroupCommit ------------------------------
(* The engine's group commit: `CommitCoordinator` (group_commit.rs) and the    *)
(* states of the commit state machine from BeginCommitLogicalLog to            *)
(* FinalizeCommit that use it (core/mvcc/database/mod.rs).                     *)
(*                                                                             *)
(* A committing transaction queues its log record under a ticket. Whoever gets *)
(* `pager_commit_lock` leads: it appends every queued record, syncs the log    *)
(* and raises the durable watermark; the others sleep until then. A COMMIT can *)
(* be dropped between any two of its steps and its I/O can fail; either way    *)
(* `cleanup_unfinished_commit` gives back what it holds.                       *)
EXTENDS Naturals, Sequences, FiniteSets, SequencesExt, FiniteSetsExt

CONSTANTS
  Txs,         \* the transactions that commit
  Full,        \* those whose connection has synchronous=FULL
  Setups,      \* the settings under which they may run
  None         \* no transaction

ASSUME Parameters ==
  /\ Full \subseteq Txs /\ None \notin Txs
  /\ Setups \subseteq [exclusive : SUBSET Txs, readFrom : SUBSET Txs,
                       modes : SUBSET BOOLEAN, threads : BOOLEAN, drops : Nat]

VARIABLES
  setup,     \* the member of Setups at hand; it never changes
  g,         \* GroupState
  lock,      \* pager_commit_lock is write-locked
  waking,    \* those inside unlock_pager_commit_lock, past the unlock
  pc,        \* the state of each commit state machine
  ticket,    \* the ticket its record was queued under
  batch,     \* group_batch
  held,      \* pager_commit_lock_held
  state,     \* Preparing, Committed; Finished and RolledBack have left `txs`
  appended,  \* log_appended
  deps,      \* the transactions whose commit_dep_set is not empty
  log,       \* the records below the logical log's offset
  synced,    \* how many of them the last fsync covered
  acked,     \* the transactions whose COMMIT returned success
  drops

coordinator == <<g, lock, waking>>
machine == <<pc, ticket, batch, held>>
transaction == <<state, appended, deps>>
disk == <<log, synced>>
vars == <<setup, coordinator, machine, transaction, disk, acked, drops>>

Exclusive == setup.exclusive  \* begun by begin_exclusive_tx: they hold the lock throughout
ReadFrom == setup.readFrom    \* those a concurrent reader may read speculatively
GroupModes == setup.modes     \* the values PRAGMA mvcc_group_commit takes
Threads == setup.threads      \* a thread per connection, or one thread for them all
MaxDrops == setup.drops       \* bound: COMMIT statements dropped or failed

NoEntry == [ticket |-> 0, tx |-> None]
NoBatch == [writing |-> NoEntry, rest |-> <<>>, advanced |-> 0]

\* States inside one call of `step` or of the cleanup: another connection runs
\* there only when it has a thread of its own.
MidStep == {"lock", "locked", "park", "noting", "failed", "unsynced", "dropping"}

Init ==
  /\ setup \in Setups
  /\ g = [next |-> 0, durable |-> 0, written |-> 0, fullWritten |-> 0,
          pending |-> <<>>, retry |-> {}, issued |-> None, abandoned |-> {},
          parked |-> {}]
  /\ lock = FALSE /\ waking = {}
  /\ pc = [t \in Txs |-> IF t \in Exclusive THEN "begin" ELSE "build"]
  /\ ticket = [t \in Txs |-> 0]
  /\ batch = [t \in Txs |-> NoBatch]
  /\ held = [t \in Txs |-> FALSE]
  /\ state = [t \in Txs |-> "Preparing"]
  /\ appended = [t \in Txs |-> FALSE]
  /\ deps = {} /\ log = <<>> /\ synced = 0 /\ acked = {} /\ drops = 0

--------------------------------------------------------------------------------
(* The methods of CommitCoordinator that run under its mutex, on the state s.  *)

Enqueue(s, t) ==
  [s EXCEPT !.next = @ + 1,
            !.pending = Append(@, [ticket |-> s.next + 1, tx |-> t])]

Requeue(s, records) == [s EXCEPT !.pending = records \o @]

DensePrefixCap(s, k) ==
  LET cap == Min({k, s.written})
      holes == {h \in s.retry : h <= cap}
  IN IF holes = {} THEN cap ELSE Min(holes) - 1

MarkDurable(s, k) ==
  LET d == Max({s.durable, DensePrefixCap(s, k)})
  IN [s EXCEPT !.durable = d, !.parked = {p \in @ : p > d}]

NoteWritten(s, k) ==
  IF \E h \in s.retry : h <= k THEN s ELSE [s EXCEPT !.written = Max({@, k})]

NoteFullSyncWritten(s, k) == [s EXCEPT !.fullWritten = Max({@, k})]

NeedsFullSync(s) == s.fullWritten > s.durable

\* Fault: a dropped waiter leaves its retry behind.
DropKeepsRetry(s, k) ==
  [s EXCEPT !.parked = @ \ {k}, !.pending = SelectSeq(@, LAMBDA e : e.ticket # k)]

DropPending(s, k) ==
  [s EXCEPT !.retry = @ \ {k}, !.parked = @ \ {k},
            !.pending = SelectSeq(@, LAMBDA e : e.ticket # k)]

RequestRetry(s, k) ==
  [s EXCEPT !.retry = @ \cup {k},
            !.written = IF @ >= k THEN k - 1 ELSE @,
            !.durable = IF @ >= k THEN k - 1 ELSE @,
            !.parked = @ \ {k}]

--------------------------------------------------------------------------------
(* What the steps share.                                                       *)

InTxs(t) == state[t] \in {"Preparing", "Committed"}

HasBatch(t) == batch[t] # NoBatch

\* The transaction whose record t's machine is writing.
Writer(t) == IF HasBatch(t) THEN batch[t].writing.tx ELSE t

Asleep(t) == pc[t] = "await" /\ ticket[t] \in g.parked

MayRun(t) ==
  /\ t \notin waking
  /\ Threads \/ \A u \in Txs \ {t} : u \notin waking /\ pc[u] \notin MidStep

At(t, s) == pc[t] = s /\ MayRun(t)

Goto(t, s) == pc' = [pc EXCEPT ![t] = s]

Unlock(t) == lock' = FALSE /\ waking' = waking \cup {t}

UnlockIfHeld(t) ==
  /\ held' = [held EXCEPT ![t] = FALSE]
  /\ IF held[t] THEN Unlock(t) ELSE UNCHANGED <<lock, waking>>

LogSyncRequired(t) == t \in Full \/ NeedsFullSync(g)

AdvanceGroupOrSync(t, b) ==
  IF b.rest # <<>>
  THEN /\ Goto(t, "upgrade")
       /\ batch' = [batch EXCEPT ![t] = [b EXCEPT !.writing = Head(b.rest),
                                                  !.rest = Tail(b.rest)]]
  ELSE Goto(t, "sync") /\ batch' = [batch EXCEPT ![t] = b]

--------------------------------------------------------------------------------
(* The coordinator's second half of an unlock, and the other users of the lock *)
(* and of a preparing transaction.                                             *)

\* take_parked_through(u64::MAX) after the unlock
Wake(t) ==
  /\ t \in waking
  /\ Threads \/ waking = {t}
  /\ waking' = waking \ {t}
  /\ g' = [g EXCEPT !.parked = {}]
  /\ UNCHANGED <<setup, lock, machine, transaction, disk, acked, drops>>

\* Busy when the lock is taken: the connection begins again.
BeginExclusive(t) ==
  /\ At(t, "begin") /\ ~lock
  /\ lock' = TRUE /\ held' = [held EXCEPT ![t] = TRUE]
  /\ Goto(t, "build")
  /\ UNCHANGED <<setup, g, waking, ticket, batch, transaction, disk, acked, drops>>

\* register_commit_dependency by a reader that meets a version of t
SpeculativeRead(t) ==
  /\ t \in ReadFrom \ deps
  /\ state[t] = "Preparing" /\ pc[t] # "begin"
  /\ Threads \/ \A u \in Txs : u \notin waking /\ pc[u] \notin MidStep
  /\ deps' = deps \cup {t}
  /\ UNCHANGED <<setup, coordinator, machine, state, appended, disk, acked, drops>>

--------------------------------------------------------------------------------
(* The commit state machine.                                                   *)

\* BuildLogRecord and BeginCommitLogicalLog; without a ticket the record is
\* written under the lock, which an exclusive transaction already holds.
BeginCommit(t) ==
  /\ At(t, "build")
  /\ \/ /\ t \notin Exclusive /\ TRUE \in GroupModes
        /\ g' = Enqueue(g, t)
        /\ ticket' = [ticket EXCEPT ![t] = g.next + 1]
        /\ Goto(t, "await")
        /\ UNCHANGED <<lock, held>>
     \/ /\ t \in Exclusive \/ (FALSE \in GroupModes /\ ~lock)
        /\ lock' = TRUE /\ held' = [held EXCEPT ![t] = TRUE]
        /\ Goto(t, "upgrade")
        /\ UNCHANGED <<g, ticket>>
  /\ UNCHANGED <<setup, waking, batch, transaction, disk, acked, drops>>

\* rebuild_log_record: back to BuildLogRecord, for a new ticket
TakeRetry(t) ==
  /\ ticket[t] \in g.retry
  /\ g' = [g EXCEPT !.retry = @ \ {ticket[t]}]
  /\ Goto(t, "build")

Await(t) ==
  /\ At(t, "await") /\ ~Asleep(t)
  /\ \/ g.durable >= ticket[t] /\ Goto(t, "end") /\ UNCHANGED g
     \/ g.durable < ticket[t] /\ TakeRetry(t)
     \/ g.durable < ticket[t] /\ ticket[t] \notin g.retry /\ Goto(t, "lock") /\ UNCHANGED g
  /\ UNCHANGED <<setup, lock, waking, ticket, batch, held, transaction, disk, acked, drops>>

TryLock(t) ==
  /\ At(t, "lock")
  /\ lock' = TRUE
  /\ Goto(t, IF lock THEN "park" ELSE "locked")
  /\ UNCHANGED <<setup, g, waking, ticket, batch, held, transaction, disk, acked, drops>>

\* Fault: the waiter registers without looking at the lock again.
ParkBlindly(t) ==
  /\ At(t, "park") /\ Goto(t, "await")
  /\ g' = [g EXCEPT !.parked = @ \cup {ticket[t]}]
  /\ UNCHANGED <<setup, lock, waking, ticket, batch, held, transaction, disk, acked, drops>>

Park(t) ==
  /\ At(t, "park") /\ Goto(t, "await")
  /\ g' = IF g.durable >= ticket[t] \/ ticket[t] \in g.retry \/ ~lock
            THEN g ELSE [g EXCEPT !.parked = @ \cup {ticket[t]}]
  /\ UNCHANGED <<setup, lock, waking, ticket, batch, held, transaction, disk, acked, drops>>

\* Under the lock: a late retry, then take_work. Its own transaction leaves
\* `txs` only in its own cleanup, so it is still there.
TakeWork(t) ==
  /\ At(t, "locked")
  /\ \/ TakeRetry(t) /\ Unlock(t) /\ UNCHANGED <<batch, held>>
     \/ /\ g.retry = {} /\ g.pending # <<>>
        /\ g' = [g EXCEPT !.pending = <<>>]
        /\ batch' = [batch EXCEPT ![t] = [writing |-> Head(g.pending),
                                          rest |-> Tail(g.pending), advanced |-> 0]]
        /\ held' = [held EXCEPT ![t] = TRUE]
        /\ Goto(t, "upgrade") /\ UNCHANGED <<lock, waking>>
     \/ /\ ticket[t] \notin g.retry /\ (g.retry # {} \/ g.pending = <<>>)
        /\ UNCHANGED <<g, batch>>
        /\ IF g.written > g.durable
           THEN /\ held' = [held EXCEPT ![t] = TRUE]
                /\ Goto(t, "prefix") /\ UNCHANGED <<lock, waking>>
           ELSE Unlock(t) /\ Goto(t, "park") /\ UNCHANGED held
  /\ UNCHANGED <<setup, ticket, transaction, disk, acked, drops>>

\* UpgradeLogicalLogHeader: the record of a transaction that is gone is skipped.
Upgrade(t) ==
  /\ At(t, "upgrade")
  /\ IF InTxs(Writer(t)) THEN Goto(t, "write") /\ UNCHANGED batch
                         ELSE AdvanceGroupOrSync(t, batch[t])
  /\ UNCHANGED <<setup, coordinator, ticket, held, transaction, disk, acked, drops>>

\* WriteLogicalLog up to log_tx, which may fail
Write(t) ==
  /\ At(t, "write")
  /\ IF ~InTxs(Writer(t))
     THEN AdvanceGroupOrSync(t, batch[t]) /\ UNCHANGED drops
     ELSE /\ UNCHANGED batch
          /\ \/ Goto(t, "noting") /\ UNCHANGED drops
             \/ drops < MaxDrops /\ drops' = drops + 1 /\ Goto(t, "failed")
  /\ UNCHANGED <<setup, coordinator, ticket, held, transaction, disk, acked>>

\* WriteLogicalLog after log_tx
NoteWriteIssued(t) ==
  /\ At(t, "noting")
  /\ g' = IF HasBatch(t) THEN [g EXCEPT !.issued = Writer(t)] ELSE g
  /\ Goto(t, "own")
  /\ UNCHANGED <<setup, lock, waking, ticket, batch, held, transaction, disk, acked, drops>>

TakeAbandoned(t, w) == w # t /\ w \in g.abandoned

\* FinishLogicalLogWrite and OwnLogicalLogRecord
Own(t) ==
  LET w == Writer(t)
      b == batch[t]
      k == b.writing.ticket
      noted == NoteWritten(g, k)
      full == IF w \in Full THEN NoteFullSyncWritten(noted, k) ELSE noted
  IN /\ At(t, "own")
     /\ log' = Append(log, w)
     /\ g' = IF HasBatch(t)
             THEN [full EXCEPT !.issued = None, !.abandoned = @ \ ({w} \ {t})]
             ELSE [g EXCEPT !.issued = None]
     /\ appended' = [appended EXCEPT ![w] = InTxs(w)]
     \* finish_abandoned_group_waiter tells no dependents: with any left, the
     \* assertion of remove_tx fails, w stays in `txs` and the leader unwinds.
     /\ state' = IF ~TakeAbandoned(t, w) THEN state
                 ELSE [state EXCEPT ![w] = IF w \in deps THEN "Committed" ELSE "Finished"]
     /\ IF TakeAbandoned(t, w) /\ w \in deps
        THEN Goto(t, "unsynced") /\ batch' = [batch EXCEPT ![t] = [b EXCEPT !.advanced = k]]
        ELSE AdvanceGroupOrSync(t, IF HasBatch(t) THEN [b EXCEPT !.advanced = k] ELSE b)
     /\ UNCHANGED <<setup, lock, waking, ticket, held, deps, synced, acked, drops>>

\* The fsync, skipped when nobody needs it, may fail.
SyncThen(t, next) ==
  /\ \/ /\ synced' = IF LogSyncRequired(t) THEN Len(log) ELSE synced
        /\ Goto(t, next) /\ UNCHANGED drops
     \/ /\ LogSyncRequired(t) /\ drops < MaxDrops
        /\ drops' = drops + 1 /\ Goto(t, "unsynced") /\ UNCHANGED synced
  /\ UNCHANGED <<setup, coordinator, ticket, batch, held, transaction, log, acked>>

SyncLogicalLog(t) == At(t, "sync") /\ SyncThen(t, "end")

SyncGroupPrefix(t) == At(t, "prefix") /\ SyncThen(t, "prefixed")

GroupPrefixSynced(t) ==
  /\ At(t, "prefixed")
  /\ g' = MarkDurable(g, g.written)
  /\ UnlockIfHeld(t)
  /\ Goto(t, "await")
  /\ UNCHANGED <<setup, ticket, batch, transaction, disk, acked, drops>>

\* EndCommitLogicalLog and CommitEnd
EndCommit(t) ==
  /\ At(t, "end")
  /\ g' = IF HasBatch(t) THEN MarkDurable(g, g.written) ELSE g
  /\ batch' = [batch EXCEPT ![t] = NoBatch]
  /\ state' = [state EXCEPT ![t] = "Committed"]
  /\ Goto(t, "final")
  /\ UNCHANGED <<setup, lock, waking, ticket, held, appended, deps, disk, acked, drops>>

\* FinalizeCommit: dependents notified, lock released, transaction removed
Finalize(t) ==
  /\ At(t, "final")
  /\ state' = [state EXCEPT ![t] = "Finished"]
  /\ deps' = deps \ {t}
  /\ UnlockIfHeld(t)
  /\ Goto(t, "done")
  /\ acked' = acked \cup {t}
  /\ UNCHANGED <<setup, g, ticket, batch, appended, disk, drops>>

--------------------------------------------------------------------------------
(* cleanup_unfinished_commit, of a COMMIT dropped between two steps or failed. *)

\* release_group_claim: the coordinator after t gave its batch or its place back
ReleaseGroupClaim(t) ==
  LET b == batch[t]
      k == b.writing.ticket
      noted == IF b.advanced = 0 THEN g ELSE NoteWritten(g, b.advanced)
      cleared == [noted EXCEPT !.issued = None, !.abandoned = @ \ ({b.writing.tx} \ {t})]
      asked == IF b.writing.tx = t \/ b.writing.tx \in g.abandoned
               THEN cleared ELSE RequestRetry(cleared, k)
  IN IF ~HasBatch(t)
     THEN IF pc[t] = "await" THEN DropPending(g, ticket[t]) ELSE g
     ELSE IF pc[t] \in {"upgrade", "write"}
     THEN Requeue(noted, <<b.writing>> \o b.rest)
     ELSE IF b.advanced # k /\ pc[t] \in {"failed", "own"}
     THEN Requeue(asked, b.rest)
     ELSE Requeue(noted, b.rest)

\* The abandoned waiter whose append t gives up, rolled back by t.
Orphan(t) ==
  {batch[t].writing.tx} \cap
    {w \in g.abandoned : HasBatch(t) /\ pc[t] \in {"failed", "own"} /\ w # t}

\* The claim is released and the transaction's state and log_appended are read:
\* a transaction whose record is in the log is committed, whatever failed.
Cleanup(t) ==
  LET committed == state[t] = "Committed" \/ appended[t]
      gone == Orphan(t) \cup (IF committed THEN {t} ELSE {})
  IN /\ g' = ReleaseGroupClaim(t)
     /\ batch' = [batch EXCEPT ![t] = NoBatch]
     /\ state' = [u \in Txs |-> IF u \notin gone THEN state[u]
                                ELSE IF u = t THEN "Finished" ELSE "RolledBack"]
     /\ deps' = deps \ gone
     /\ IF committed THEN Goto(t, "done") /\ UnlockIfHeld(t)
                     ELSE Goto(t, "dropping") /\ UNCHANGED <<lock, waking, held>>
     /\ UNCHANGED <<setup, ticket, appended, disk, acked>>

Failed(t) ==
  /\ pc[t] \in {"failed", "unsynced"} /\ MayRun(t)
  /\ Cleanup(t) /\ UNCHANGED drops

Drop(t) ==
  /\ pc[t] \notin MidStep \cup {"begin", "done"} /\ MayRun(t)
  /\ drops < MaxDrops /\ drops' = drops + 1
  /\ Cleanup(t)

\* Fault: a waiter whose record is being appended rolls back like any other.
RollBackAlways(t) ==
  /\ At(t, "dropping")
  /\ Goto(t, "done")
  /\ state' = [state EXCEPT ![t] = "RolledBack"]
  /\ deps' = deps \ {t}
  /\ UnlockIfHeld(t)
  /\ UNCHANGED <<setup, g, ticket, batch, appended, disk, acked, drops>>

\* abandon_if_issued leaves the transaction to the leader; otherwise it is
\* rolled back, and its dependents are told to abort.
RollBack(t) ==
  /\ At(t, "dropping")
  /\ Goto(t, "done")
  /\ IF g.issued = t
     THEN /\ g' = [g EXCEPT !.abandoned = @ \cup {t}]
          /\ UNCHANGED <<state, deps, held, lock, waking>>
     ELSE /\ state' = [state EXCEPT ![t] = "RolledBack"]
          /\ deps' = deps \ {t}
          /\ UnlockIfHeld(t)
          /\ UNCHANGED g
  /\ UNCHANGED <<setup, ticket, batch, appended, disk, acked, drops>>

--------------------------------------------------------------------------------
Step(t) ==
  \/ Wake(t) \/ BeginExclusive(t) \/ BeginCommit(t) \/ Await(t) \/ TryLock(t)
  \/ Park(t) \/ TakeWork(t) \/ Upgrade(t) \/ Write(t) \/ NoteWriteIssued(t)
  \/ Own(t) \/ SyncLogicalLog(t) \/ SyncGroupPrefix(t) \/ GroupPrefixSynced(t)
  \/ EndCommit(t) \/ Finalize(t) \/ Failed(t) \/ RollBack(t)

\* Every transaction has left `txs` and nothing is left to do.
Quiet ==
  /\ \A t \in Txs : pc[t] = "done"
  /\ waking = {}
  /\ UNCHANGED vars

Next == Quiet \/ \E t \in Txs : Step(t) \/ Drop(t) \/ SpeculativeRead(t)

Spec == Init /\ [][Next]_vars

\* Whoever drives the connections comes back to each statement that can step,
\* also when it can only between the steps of the others, and cleans up what
\* it drops.
FairSpec == Spec /\ \A t \in Txs : SF_vars(Step(t))

--------------------------------------------------------------------------------
(* Properties.                                                                 *)

Entry == [ticket : Nat \ {0}, tx : Txs]

\* The type of the state; a batch is held only by a machine that writes or syncs.
TypeOK ==
  /\ g.next \in Nat /\ g.durable \in Nat /\ g.written \in Nat /\ g.fullWritten \in Nat
  /\ g.pending \in Seq(Entry) /\ g.retry \subseteq 1..g.next /\ g.parked \subseteq 1..g.next
  /\ g.issued \in Txs \cup {None} /\ g.abandoned \subseteq Txs
  /\ lock \in BOOLEAN /\ waking \subseteq Txs /\ held \in [Txs -> BOOLEAN]
  /\ pc \in [Txs -> MidStep \cup {"begin", "build", "await", "upgrade", "write", "own",
                                  "sync", "prefix", "prefixed", "end", "final", "done"}]
  /\ ticket \in [Txs -> Nat] /\ appended \in [Txs -> BOOLEAN]
  /\ state \in [Txs -> {"Preparing", "Committed", "Finished", "RolledBack"}]
  /\ \A t \in Txs : HasBatch(t) =>
       /\ batch[t].writing \in Entry /\ batch[t].rest \in Seq(Entry) /\ batch[t].advanced \in Nat
       /\ pc[t] \in {"upgrade", "write", "noting", "own", "failed", "sync", "unsynced", "end"}
  /\ log \in Seq(Txs) /\ synced \in 0..Len(log)
  /\ acked \subseteq Txs /\ deps \subseteq Txs /\ drops \in 0..MaxDrops

\* The statements that act under pager_commit_lock
Holders == {t \in Txs : held[t] \/ pc[t] = "locked"}

\* The commit lock is taken exactly while one statement acts under it: no path
\* through retry, cleanup, failure or rollback leaves it taken with no owner
\* or hands it to two leaders, which would both append at the same log offset.
LockOwned ==
  /\ Cardinality(Holders) = (IF lock THEN 1 ELSE 0)
  /\ \A t \in Txs : pc[t] \in {"upgrade", "write", "noting", "own", "failed", "sync",
                               "prefix", "prefixed"} => held[t]

\* A sleeping waiter has somebody to wake it: the lock is taken, or its releaser
\* has yet to collect the sleepers. A release that slips between the failed
\* lock attempt and the registration would leave it asleep for good.
SleeperHasWaker == \A t \in Txs : Asleep(t) => lock \/ waking # {}

\* A ticket the coordinator can still serve: durable, to be retried, queued, in
\* a leader's batch, or written and waiting for the sync.
Accounted(k) ==
  \/ k <= g.durable \/ k <= g.written \/ k \in g.retry
  \/ \E e \in ToSet(g.pending) : e.ticket = k
  \/ \E t \in Txs : HasBatch(t) /\ \E e \in ToSet(<<batch[t].writing>> \o batch[t].rest) : e.ticket = k

\* No waiting COMMIT loses its ticket when leaders fail, are dropped, requeue or
\* skip records: take_work would answer None to it forever.
NoLostTicket == \A t \in Txs : pc[t] \in {"await", "lock", "park"} => Accounted(ticket[t])

\* A waiter that finds its ticket durable has its own record in the log, and in
\* the synced part of it when it commits with synchronous=FULL, even if leaders
\* in NORMAL mode wrote it, failed after it or skipped records around it.
DurableMeansLogged ==
  \A t \in Txs : pc[t] = "await" /\ ticket[t] <= g.durable =>
    /\ t \in ToSet(log)
    /\ t \in Full => t \in ToSet(SubSeq(log, 1, synced))

\* Records enter the log in ticket order: the queue, the batch in hand and what
\* is written never overlap or swap, however often a batch is put back.
TicketOrder ==
  LET queued == [i \in 1..Len(g.pending) |-> g.pending[i].ticket]
      taken(t) == [i \in 1..Len(batch[t].rest) |-> batch[t].rest[i].ticket]
      rising(s) == \A i, j \in 1..Len(s) : i < j => s[i] < s[j]
  IN /\ rising(<<g.durable>> \o queued)
     /\ \A t \in Txs : HasBatch(t) => rising(<<batch[t].writing.ticket>> \o taken(t) \o queued)
     /\ g.durable <= g.written

\* The coordinator's state is consistent: its lock, sleepers, tickets and durable
\* watermark agree with the commits that depend on them, also on threads.
Coordinated ==
  TypeOK /\ LockOwned /\ SleeperHasWaker /\ NoLostTicket /\ DurableMeansLogged /\ TicketOrder

\* The refinement is claimed of one thread; on threads the ledger stays empty.
Shown(value, nothing) == IF Threads THEN nothing ELSE value

Fate(t) ==
  CASE state[t] = "Preparing" -> "open"
    [] state[t] = "RolledBack" -> "aborted"
    [] OTHER -> "committed"

Log == INSTANCE CommitLog WITH
  log <- Shown(log, <<>>), synced <- Shown(synced, 0), acked <- Shown(acked, {}),
  fate <- [t \in Txs |-> Shown(Fate(t), "open")]

\* When one thread drives the connections, whoever writes a transaction's record,
\* it is logged at most once, committed exactly when logged, and acknowledged
\* under FULL only once synced.
ImplementsCommitLog == Log!Spec

\* A retry hole has a waiter to take it: "The waiter rebuilds its log record
\* instead of hanging". A hole nobody takes stops every later group.
HoleHasWaiter ==
  \A k \in g.retry : \E t \in Txs : ticket[t] = k /\ InTxs(t)

\* Every COMMIT that is begun ends with its transaction committed or rolled back,
\* by itself or, after it was dropped, by the leader; no waiter sleeps or spins
\* forever. With a thread for each connection there is one exception, a retry
\* whose waiter was dropped while the leader asked for it: the hole stays, and
\* whoever waits behind it takes and returns the lock without end.
EveryCommitEnds ==
  \/ <>(\A t \in Txs : pc[t] = "done" /\ state[t] # "Preparing")
  \/ Threads /\ <>[]~HoleHasWaiter

--------------------------------------------------------------------------------
(* What a comment, a test and an assertion of the code claim, and the setups     *)
(* refute, as they do HoleHasWaiter (see the README).                          *)

\* A transaction that was rolled back has no record in the log. The comment on
\* `abandoned` says of waiters dropped after log_tx that they "must not roll
\* back themselves"; a test says "recovery must not replay an aborted waiter".
NoAbortedReplay == \A t \in Txs : state[t] = "RolledBack" => t \notin ToSet(log)

\* A transaction that leaves `txs` has its commit_dep_set drained, or its dependents
\* would wait forever: the assertion of remove_tx does not fail.
DependentsDrained == \A t \in deps : ~(pc[t] = "done" /\ state[t] = "Committed")
================================================================================
