--------------------------- MODULE MvccTransactions ---------------------------
(***************************************************************************)
(* The transactions of the engine's multi-version store                    *)
(* (core/mvcc/database/mod.rs): snapshot reads over chains of row          *)
(* versions, speculative reads of a transaction that is still preparing    *)
(* and the commit dependencies they create, optimistic writes validated at *)
(* commit, the exclusive transaction, rollback, and the collection of old  *)
(* versions.                                                               *)
(*                                                                         *)
(* A version carries a begin and an end; each is None, a timestamp (a      *)
(* number) or the id of a transaction whose fate decides it.  A row's      *)
(* content is abstracted to the transaction that wrote it; rows of         *)
(* Resident are also in the B-tree, with content "base".  A lock-free load *)
(* of one transaction's state is atomic; the state can change before the   *)
(* reader registers its dependency, while it holds the chain's lock.       *)
(* Checkpoints, savepoints, indexes and schema changes are left out.       *)
(***************************************************************************)
EXTENDS Naturals, FiniteSets, SequencesExt

CONSTANTS
  Txs,        \* transactions; each runs once
  Rows,       \* row ids, numbers (chains are swept in this order)
  Resident,   \* rows that the B-tree holds when the store opens
  Setups,     \* the loads and settings under which the store may run
  None        \* no timestamp, no transaction

ASSUME Parameters ==
  /\ Rows \subseteq Nat
  /\ Resident \subseteq Rows
  /\ \A s \in Setups :
       /\ DOMAIN s.programs \subseteq Txs /\ s.exclusive \subseteq Txs
       /\ \A t \in DOMAIN s.programs : \A p \in s.programs[t] :
            Range(p) \subseteq {"read", "put", "delete"} \X Rows
       /\ {s.grouped, s.threads} \subseteq BOOLEAN /\ s.drops \in Nat
  /\ None \notin Txs \cup Nat

VARIABLES
  setup,         \* the member of Setups at hand; it never changes
  clock,         \* the logical clock, and the holder of its lock
  clockLock,
  tx,            \* the Transaction records
  live,          \* keys of `txs`
  finalized,     \* keys of `finalized_tx_states`
  chain,         \* the version chain of each row
  pc,            \* where each connection is
  op,            \* its operation: kind, row, cursor in the B-tree, version hit
  want,          \* None, or dependencies to register under the chain's lock
  todo,          \* rows left for the step at hand
  tell,          \* dependents still to be told of a rollback
  left,          \* operations left, after which it commits or rolls back
  exclusive,     \* exclusive_tx
  commitLock,    \* pager_commit_lock
  lastCommitted, \* last_committed_tx_ts
  lwm,           \* low-water mark of the collection in progress, or None
  dropped,       \* transactions whose commit statement was dropped
  own,           \* own[t][r]: what t last wrote to r (history)
  reads          \* reads[t]: row, own write, content read (history)

txVars == <<tx, live, finalized>>
opVars == <<op, want, left, own, reads>>
clockVars == <<clock, clockLock>>
lockVars == <<exclusive, commitLock, lastCommitted>>
vars == <<setup, clockVars, txVars, chain, pc, opVars, todo, tell, lockVars, lwm, dropped>>

Programs == setup.programs    \* the sequences of operations a transaction may perform
Exclusive == setup.exclusive  \* transactions not begun with CONCURRENT
Grouped == setup.grouped      \* whether a commit may be logged by another's batch
Threads == setup.threads      \* FALSE: one thread drives all connections
MaxDrops == setup.drops       \* how many commit statements may be dropped half-way

Absent == "absent"
Base(r) == IF r \in Resident THEN "base" ELSE Absent
Infinity == 2 * Cardinality(Txs) + 1

Idle == [kind |-> "read", row |-> 0, inBtree |-> FALSE, hit |-> 0]

Init ==
  /\ setup \in Setups
  /\ clock = 0 /\ clockLock = None
  /\ tx = [t \in Txs |-> [state |-> "None", begin |-> 0, end |-> 0, writeSet |-> <<>>,
                          counter |-> 0, abortNow |-> FALSE, depSet |-> {}]]
  /\ live = {} /\ finalized = {}
  /\ chain = [r \in Rows |-> <<>>]
  /\ pc = [t \in Txs |-> IF t \in DOMAIN Programs THEN "new" ELSE "closed"]
  /\ op = [t \in Txs |-> Idle]
  /\ want = [t \in Txs |-> None]
  /\ todo = [t \in Txs |-> <<>>]
  /\ tell = [t \in Txs |-> <<>>]
  /\ left \in {p \in [Txs -> {<<>>} \cup UNION Range(Programs)] :
                \A t \in Txs : p[t] \in IF t \in DOMAIN Programs THEN Programs[t] ELSE {<<>>}}
  /\ exclusive = None /\ commitLock = None /\ lastCommitted = 0
  /\ lwm = None /\ dropped = {}
  /\ own = [t \in Txs |-> [r \in Rows |-> None]]
  /\ reads = [t \in Txs |-> {}]

(***************************************************************************)
(* Visibility of a version v to transaction t.                             *)
(***************************************************************************)
LookupState(x) ==
  IF x \in live THEN tx[x].state
  ELSE IF x \in finalized THEN "Committed" ELSE "Missing"

\* Has the (possible) commit of x a place before t's snapshot?
Precedes(x, t) == tx[x].end < tx[t].begin

BeginVisible(t, v) ==
  \/ v.begin \in Nat /\ tx[t].begin > v.begin
  \/ /\ v.begin \in Txs
     /\ \/ LookupState(v.begin) = "Active" /\ v.begin = t /\ v.end = None
        \/ LookupState(v.begin) \in {"Preparing", "Committed"} /\ Precedes(v.begin, t)

EndVisible(t, v) ==
  \/ v.end = None
  \/ v.end \in Nat /\ tx[t].begin < v.end
  \/ /\ v.end \in Txs
     /\ \/ LookupState(v.end) = "Active" /\ v.end # t
        \/ LookupState(v.end) \in {"Preparing", "Committed"} /\ ~Precedes(v.end, t)
        \/ LookupState(v.end) \in {"Aborted", "Terminated", "Missing"}

Visible(t, v) == BeginVisible(t, v) /\ EndVisible(t, v)

Speculative(t, x) == x \in Txs /\ LookupState(x) = "Preparing" /\ Precedes(x, t)

\* The transactions on whose commit the answer of Visible(t, v) depends.
VisibleDeps(t, v) ==
  {x \in {v.begin} : Speculative(t, x)}
    \cup {x \in {v.end} : BeginVisible(t, v) /\ Speculative(t, x)}

\* is_btree_invalidating_version: v hides the B-tree's copy from t.
Invalidates(t, v) ==
  \/ Visible(t, v)
  \/ v.end \in Nat /\ tx[t].begin > v.end
  \/ v.end = t
  \/ v.end \in Txs /\ LookupState(v.end) \in {"Preparing", "Committed"} /\ Precedes(v.end, t)

InvalidatesDeps(t, v) == VisibleDeps(t, v) \cup {x \in {v.end} : Speculative(t, x)}

WriteWriteConflict(t, v) ==
  \/ v.end \in Txs \ {t} /\ LookupState(v.end) \notin {"Aborted", "Terminated"}
  \/ v.end \in Nat /\ v.end > tx[t].begin

\* Chains are searched from the newest version; 0 when no version is a candidate.
Newest(candidates) == Max(candidates \cup {0})
Examined(c, hit) == {c[i] : i \in {j \in DOMAIN c : j >= hit}}

\* Others may hold a chain's read lock, or its write lock while deleting.
Holds(x, r) == want[x] # None /\ op[x].row = r
CanRead(r) == \A x \in Txs : Holds(x, r) => pc[x] # "erase"
CanWrite(t, r) == \A x \in Txs \ {t} : ~Holds(x, r)

(***************************************************************************)
(* Beginning, and becoming the exclusive transaction.                      *)
(***************************************************************************)
Begin(t) ==
  /\ pc[t] = "new" /\ clockLock = None
  /\ clock' = clock + 1
  /\ tx' = [tx EXCEPT ![t].state = "Active", ![t].begin = clock + 1]
  /\ live' = live \cup {t}
  /\ pc' = [pc EXCEPT ![t] = "open"]
  /\ UNCHANGED <<clockLock, finalized, chain, opVars, todo, tell, lockVars, lwm, dropped>>

Acquire(t) ==
  /\ pc[t] = "open" /\ left[t] # <<>> /\ Head(left[t])[1] # "read"
  /\ t \in Exclusive /\ exclusive # t
  /\ pc' = [pc EXCEPT ![t] = "check"]
  /\ UNCHANGED <<clockVars, txVars, chain, opVars, todo, tell, lockVars, lwm, dropped>>

OtherPreparing(t) == \E x \in live \ {t} : tx[x].state = "Preparing"
Superseded(t) == OtherPreparing(t) \/ tx[t].begin < lastCommitted

\* Busy: a fresh transaction is removed again, an older one stays open.
Busy(t) ==
  LET fresh == reads[t] = {}
  IN /\ live' = IF fresh THEN live \ {t} ELSE live
     /\ pc' = [pc EXCEPT ![t] = IF fresh THEN "closed" ELSE "open"]
     /\ UNCHANGED <<tx, finalized>>

AcquireCheck(t) ==
  /\ pc[t] = "check"
  /\ \/ Superseded(t) /\ Busy(t)
     \/ ~Superseded(t) /\ pc' = [pc EXCEPT ![t] = "cas"] /\ UNCHANGED txVars
  /\ UNCHANGED <<clockVars, chain, opVars, todo, tell, lockVars, lwm, dropped>>

AcquireCas(t) ==
  /\ pc[t] = "cas"
  /\ \/ exclusive # None /\ Busy(t) /\ UNCHANGED exclusive
     \/ /\ exclusive = None /\ exclusive' = t
        /\ pc' = [pc EXCEPT ![t] = "recheck_exclusive"] /\ UNCHANGED txVars
  /\ UNCHANGED <<clockVars, chain, opVars, todo, tell, commitLock, lastCommitted, lwm, dropped>>

AcquireRecheck(t) ==
  /\ pc[t] = "recheck_exclusive"
  /\ \/ Superseded(t) /\ exclusive' = None /\ Busy(t)
     \/ ~Superseded(t) /\ pc' = [pc EXCEPT ![t] = "lock"] /\ UNCHANGED <<txVars, exclusive>>
  /\ UNCHANGED <<clockVars, chain, opVars, todo, tell, commitLock, lastCommitted, lwm, dropped>>

\* The commit lock is the exclusive transaction's until it ends.
AcquireLock(t) ==
  /\ pc[t] = "lock"
  /\ \/ commitLock # None /\ exclusive' = None /\ Busy(t) /\ UNCHANGED commitLock
     \/ /\ commitLock = None /\ commitLock' = t
        /\ pc' = [pc EXCEPT ![t] = "open"] /\ UNCHANGED <<txVars, exclusive>>
  /\ UNCHANGED <<clockVars, chain, opVars, todo, tell, lastCommitted, lwm, dropped>>

(***************************************************************************)
(* Operations.  Each looks for the row as a cursor does: among the         *)
(* versions ("find"), then in the B-tree ("btree").  A put looks once more *)
(* ("reread"), ends the version it found ("erase") and adds its own        *)
(* ("append"); a delete ends the version or adds a tombstone ("erase").    *)
(***************************************************************************)
Start(t) ==
  /\ pc[t] = "open" /\ left[t] # <<>>
  /\ Head(left[t])[1] = "read" \/ t \notin Exclusive \/ exclusive = t
  /\ op' = [op EXCEPT ![t] = [Idle EXCEPT !.kind = Head(left[t])[1], !.row = Head(left[t])[2]]]
  /\ left' = [left EXCEPT ![t] = Tail(@)]
  /\ pc' = [pc EXCEPT ![t] = "find"]
  /\ UNCHANGED <<clockVars, txVars, chain, want, own, reads, todo, tell, lockVars, lwm, dropped>>

Looking == {"find", "btree", "reread", "erase"}

\* The version at which a search of the row's chain stops.
Hit(t) ==
  LET c == chain[op[t].row]
      Stops(v) == CASE pc[t] = "btree" -> Invalidates(t, v)
                    [] pc[t] = "erase" -> \/ Visible(t, v)
                                          \/ v.begin = None /\ WriteWriteConflict(t, v)
                    [] OTHER -> Visible(t, v)
  IN Newest({i \in DOMAIN c : Stops(c[i])})

HitDeps(t) ==
  UNION {IF pc[t] = "btree" THEN InvalidatesDeps(t, v) ELSE VisibleDeps(t, v) :
           v \in Examined(chain[op[t].row], Hit(t))}

Wrote(t, r, content) ==
  /\ own' = [own EXCEPT ![t][r] = content]
  /\ tx' = [tx EXCEPT ![t].writeSet = IF r \in Range(@) THEN @ ELSE Append(@, r)]

BeginTs(b) == IF b = None THEN 0 ELSE IF b \in Nat THEN b ELSE tx[b].begin

\* insert_version_raw keeps a chain ordered by the begin timestamps.
InsertVersion(c, v) ==
  InsertAt(c, 1 + Newest({i \in DOMAIN c : BeginTs(c[i].begin) <= BeginTs(v.begin)}), v)

Version(begin, end, content, resident) ==
  [begin |-> begin, end |-> end, content |-> content, resident |-> resident]

\* What the cursor does once it knows the row's content.
Found(t, content) ==
  LET kind == op[t].kind
  IN /\ reads' = [reads EXCEPT ![t] = @ \cup {<<op[t].row, own[t][op[t].row], content>>}]
     /\ pc' = [pc EXCEPT ![t] = IF kind = "put" THEN "reread"
                                ELSE IF kind = "delete" /\ content # Absent THEN "erase"
                                ELSE "open"]

\* The operation's record, forgotten when it returns.
Continue(t, inBtree) ==
  op' = [op EXCEPT ![t] = IF pc'[t] \in {"open", "abort"} THEN Idle
                          ELSE [@ EXCEPT !.inBtree = inBtree, !.hit = 0]]

FindDone(t, hit) ==
  /\ IF hit = 0 /\ op[t].row \in Resident
     THEN pc' = [pc EXCEPT ![t] = "btree"] /\ UNCHANGED reads
     ELSE Found(t, IF hit = 0 THEN Absent ELSE chain[op[t].row][hit].content)
  /\ Continue(t, FALSE)
  /\ UNCHANGED <<chain, tx, own>>

BtreeDone(t, hit) ==
  /\ Found(t, IF hit = 0 THEN "base" ELSE Absent)
  /\ Continue(t, hit = 0)
  /\ UNCHANGED <<chain, tx, own>>

RereadDone(t, hit) ==
  /\ pc' = [pc EXCEPT ![t] = IF hit = 0 THEN "append" ELSE "erase"]
  /\ Continue(t, op[t].inBtree)
  /\ UNCHANGED <<chain, tx, own, reads>>

EraseDone(t, hit) ==
  LET r == op[t].row
      put == op[t].kind = "put"
  IN /\ \/ /\ hit # 0 /\ WriteWriteConflict(t, chain[r][hit])
           /\ pc' = [pc EXCEPT ![t] = "abort"] /\ UNCHANGED <<chain, tx, own>>
        \/ /\ hit # 0 /\ ~WriteWriteConflict(t, chain[r][hit])
           /\ chain' = [chain EXCEPT ![r][hit].end = t]
           /\ Wrote(t, r, Absent)
           /\ pc' = [pc EXCEPT ![t] = IF put THEN "append" ELSE "open"]
        \/ /\ hit = 0 /\ ~put /\ op[t].inBtree
           /\ chain' = [chain EXCEPT ![r] = InsertVersion(@, Version(None, t, Absent, TRUE))]
           /\ Wrote(t, r, Absent)
           /\ pc' = [pc EXCEPT ![t] = "open"]
        \/ /\ hit = 0 /\ ~put /\ ~op[t].inBtree
           /\ pc' = [pc EXCEPT ![t] = "open"] /\ UNCHANGED <<chain, tx, own>>
        \/ /\ hit = 0 /\ put         \* the assertion that follows the update fails
           /\ pc' = [pc EXCEPT ![t] = "panicked"] /\ UNCHANGED <<chain, tx, own>>
     /\ Continue(t, op[t].inBtree)
     /\ UNCHANGED reads

Concluded(t, hit) ==
  \/ pc[t] = "find" /\ FindDone(t, hit)
  \/ pc[t] = "btree" /\ BtreeDone(t, hit)
  \/ pc[t] = "reread" /\ RereadDone(t, hit)
  \/ pc[t] = "erase" /\ EraseDone(t, hit)

\* Search the chain; with nothing to register the result is used at once.
Search(t) ==
  /\ pc[t] \in Looking /\ want[t] = None
  /\ IF pc[t] = "erase" THEN CanWrite(t, op[t].row) ELSE CanRead(op[t].row)
  /\ \/ HitDeps(t) = {} /\ Concluded(t, Hit(t)) /\ UNCHANGED want
     \/ /\ HitDeps(t) # {}
        /\ want' = [want EXCEPT ![t] = HitDeps(t)]
        /\ op' = [op EXCEPT ![t].hit = Hit(t)]
        /\ UNCHANGED <<chain, tx, pc, own, reads>>
  /\ UNCHANGED <<clockVars, live, finalized, left, todo, tell, lockVars, lwm, dropped>>

\* Fault: the counter is not raised for a dependency.
RegisterUncounted(t) ==
  /\ want[t] \notin {None, {}}
  /\ \E x \in want[t] :
       /\ tx' = [tx EXCEPT ![x].depSet = IF x \in live /\ tx[x].state = "Preparing"
                                         THEN @ \cup {t} ELSE @]
       /\ want' = [want EXCEPT ![t] = @ \ {x}]
  /\ UNCHANGED <<clockVars, live, finalized, chain, pc, op, left, own, reads, todo, tell,
                 lockVars, lwm, dropped>>

\* Fault: a transaction that has aborted since it was seen preparing is ignored.
RegisterLate(t) ==
  /\ want[t] \notin {None, {}}
  /\ \E x \in want[t] :
       /\ tx' = IF x \in live /\ tx[x].state = "Preparing" /\ t \notin tx[x].depSet
                THEN [tx EXCEPT ![x].depSet = @ \cup {t}, ![t].counter = @ + 1]
                ELSE tx
       /\ want' = [want EXCEPT ![t] = @ \ {x}]
  /\ UNCHANGED <<clockVars, live, finalized, chain, pc, op, left, own, reads, todo, tell,
                 lockVars, lwm, dropped>>

\* register_commit_dependency, under x's commit_dep_set lock.
Register(t) ==
  /\ want[t] \notin {None, {}}
  /\ \E x \in want[t] :
       LET state == IF x \in live THEN tx[x].state ELSE "Missing"
       IN /\ tx' = CASE state = "Preparing" /\ t \notin tx[x].depSet ->
                          [tx EXCEPT ![x].depSet = @ \cup {t}, ![t].counter = @ + 1]
                     [] state \in {"Aborted", "Terminated"} ->
                          [tx EXCEPT ![t].abortNow = TRUE]
                     [] OTHER -> tx
          /\ want' = [want EXCEPT ![t] = @ \ {x}]
  /\ UNCHANGED <<clockVars, live, finalized, chain, pc, op, left, own, reads, todo, tell,
                 lockVars, lwm, dropped>>

Conclude(t) ==
  /\ want[t] = {}
  /\ Concluded(t, op[t].hit)
  /\ want' = [want EXCEPT ![t] = None]
  /\ UNCHANGED <<clockVars, live, finalized, left, todo, tell, lockVars, lwm, dropped>>

\* insert, or insert_btree_resident when the cursor stood on a B-tree row.
AppendVersion(t) ==
  LET r == op[t].row
  IN /\ pc[t] = "append" /\ CanWrite(t, r)
     /\ chain' = [chain EXCEPT ![r] = InsertVersion(@, Version(t, None, t, op[t].inBtree))]
     /\ Wrote(t, r, t)
     /\ pc' = [pc EXCEPT ![t] = "open"]
     /\ op' = [op EXCEPT ![t] = Idle]
     /\ UNCHANGED <<clockVars, live, finalized, want, left, reads, todo, tell, lockVars, lwm,
                    dropped>>

(***************************************************************************)
(* Commit: CommitStateMachine::step.                                       *)
(***************************************************************************)
ReadOnly(t) == tx[t].writeSet = <<>>

\* Fault: an exclusive transaction does not keep others from committing.
PrepareAnyway(t) ==
  /\ pc[t] = "open" /\ left[t] = <<>> /\ clockLock = None
  /\ clock' = clock + 1
  /\ pc' = [pc EXCEPT ![t] = "publish"] /\ clockLock' = t
  /\ UNCHANGED <<txVars, chain, opVars, todo, tell, lockVars, lwm, dropped>>

\* The conflict check and the publication of Preparing share the clock's lock,
\* which does not stop another transaction from becoming exclusive in between.
Prepare(t) ==
  /\ pc[t] = "open" /\ left[t] = <<>> /\ clockLock = None
  /\ clock' = clock + 1
  /\ \/ /\ ~ReadOnly(t) /\ exclusive \notin {None, t}
        /\ pc' = [pc EXCEPT ![t] = "abort"] /\ UNCHANGED clockLock
     \/ /\ ReadOnly(t) \/ exclusive \in {None, t}
        /\ pc' = [pc EXCEPT ![t] = "publish"] /\ clockLock' = t
  /\ UNCHANGED <<txVars, chain, opVars, todo, tell, lockVars, lwm, dropped>>

Publish(t) ==
  /\ pc[t] = "publish"
  /\ tx' = [tx EXCEPT ![t].state = "Preparing", ![t].end = clock]
  /\ clockLock' = None
  /\ todo' = [todo EXCEPT ![t] = tx[t].writeSet]
  /\ pc' = [pc EXCEPT ![t] = IF ReadOnly(t) THEN "wait" ELSE "validate"]
  /\ UNCHANGED <<clock, live, finalized, chain, opVars, tell, lockVars, lwm, dropped>>

\* x's commit comes before t's.
Wins(x, t) ==
  \/ LookupState(x) = "Committed"
  \/ LookupState(x) = "Preparing" /\ tx[x].end < tx[t].end

\* Fault: the tombstones of B-tree rows are passed over.
ConflictButTombstones(t, v) ==
  \/ v.begin # None /\ v.end \in Nat /\ v.end > tx[t].begin
  \/ /\ v.begin # None /\ v.end \notin Nat \cup {t}
     /\ IF v.end \in Txs /\ LookupState(v.end) = "Committed"
        THEN tx[v.end].end > tx[t].begin
        ELSE \/ v.begin \in Nat
             \/ v.begin \in Txs \ {t}
                /\ (Wins(v.begin, t) \/ LookupState(v.begin) = "Missing")

\* check_version_conflicts, for one version.
VersionConflict(t, v) ==
  \/ v.end \in Nat /\ v.end > tx[t].begin
  \/ v.begin = None /\ v.end \in Txs \ {t} /\ Wins(v.end, t)
  \/ /\ v.begin # None /\ v.end \notin Nat \cup {t}
     /\ IF v.end \in Txs /\ LookupState(v.end) = "Committed"
        THEN tx[v.end].end > tx[t].begin
        ELSE \/ v.begin \in Nat
             \/ v.begin \in Txs \ {t}
                /\ (Wins(v.begin, t) \/ LookupState(v.begin) = "Missing")

Validate(t) ==
  /\ pc[t] = "validate" /\ CanRead(Head(todo[t]))
  /\ IF \E v \in Range(chain[Head(todo[t])]) : VersionConflict(t, v)
     THEN pc' = [pc EXCEPT ![t] = "abort"] /\ UNCHANGED todo
     ELSE /\ todo' = [todo EXCEPT ![t] = Tail(@)]
          /\ pc' = [pc EXCEPT ![t] = IF Len(todo[t]) = 1 THEN "wait" ELSE @]
  /\ UNCHANGED <<clockVars, txVars, chain, opVars, tell, lockVars, lwm, dropped>>

\* AbortNow is looked at before the counter, and again once it is zero; a
\* dependency may be resolved between any two of the three loads.
Wait(t) ==
  /\ pc[t] = "wait"
  /\ pc' = [pc EXCEPT ![t] = IF tx[t].abortNow THEN "abort" ELSE "count"]
  /\ UNCHANGED <<clockVars, txVars, chain, opVars, todo, tell, lockVars, lwm, dropped>>

Count(t) ==
  /\ pc[t] = "count"
  /\ pc' = [pc EXCEPT ![t] = IF tx[t].counter > 0 THEN "wait" ELSE "recheck"]
  /\ UNCHANGED <<clockVars, txVars, chain, opVars, todo, tell, lockVars, lwm, dropped>>

ReleaseExclusive(t) == exclusive' = IF exclusive = t THEN None ELSE exclusive
UnlockCommit(t) == commitLock' = IF commitLock = t THEN None ELSE commitLock

Recheck(t) ==
  /\ pc[t] = "recheck"
  /\ \/ /\ tx[t].abortNow
        /\ pc' = [pc EXCEPT ![t] = "abort"]
        /\ UNCHANGED <<tx, live, exclusive, commitLock>>
     \/ /\ ~tx[t].abortNow /\ ReadOnly(t)
        /\ tx' = [tx EXCEPT ![t].state = "Committed"]
        /\ live' = live \ {t}
        /\ ReleaseExclusive(t) /\ UnlockCommit(t)
        /\ pc' = [pc EXCEPT ![t] = "closed"]
     \/ /\ ~tx[t].abortNow /\ ~ReadOnly(t)
        /\ pc' = [pc EXCEPT ![t] = "log"]
        /\ UNCHANGED <<tx, live, exclusive, commitLock>>
  /\ UNCHANGED <<clockVars, finalized, chain, opVars, todo, tell, lastCommitted, lwm, dropped>>

\* A commit writes its record under the commit lock, or is a member of the batch
\* that the lock's holder writes; an exclusive transaction leads no batch.
BeginLog(t) ==
  /\ pc[t] = "log"
  /\ \/ commitLock \in {None, t} /\ commitLock' = t
     \/ /\ Grouped /\ commitLock \notin {None, t, exclusive} /\ pc[commitLock] = "writing"
        /\ UNCHANGED commitLock
  /\ pc' = [pc EXCEPT ![t] = "writing"]
  /\ UNCHANGED <<clockVars, txVars, chain, opVars, todo, tell, exclusive, lastCommitted, lwm,
                 dropped>>

\* A leader is busy with a record of its batch whose owner has left it to the
\* leader: "abandoned" while it is appended, "adopt" and "leave" afterwards.
Busied(t) == commitLock = t /\ \E x \in Txs : pc[x] \in {"abandoned", "adopt", "leave"}

WriteLog(t) ==
  /\ pc[t] = "writing" /\ ~Busied(t)
  /\ pc' \in {[pc EXCEPT ![t] = "appended"], [pc EXCEPT ![t] = "abort"]}
  /\ UNCHANGED <<clockVars, txVars, chain, opVars, todo, tell, lockVars, lwm, dropped>>

CommitEnd(t) ==
  /\ pc[t] = "appended" /\ ~Busied(t)
  /\ tx' = [tx EXCEPT ![t].state = "Committed"]
  /\ todo' = [todo EXCEPT ![t] = tx[t].writeSet]
  /\ pc' = [pc EXCEPT ![t] = "rewrite"]
  /\ UNCHANGED <<clockVars, live, finalized, chain, opVars, tell, lockVars, lwm, dropped>>

Rewritten(v, t) ==
  [v EXCEPT !.begin = IF @ = t THEN tx[t].end ELSE @, !.end = IF @ = t THEN tx[t].end ELSE @]

RewriteLiveVersions(t) ==
  /\ pc[t] \in {"rewrite", "adopt"} /\ CanWrite(t, Head(todo[t]))
  /\ chain' = [chain EXCEPT ![Head(todo[t])] = [i \in DOMAIN @ |-> Rewritten(@[i], t)]]
  /\ todo' = [todo EXCEPT ![t] = Tail(@)]
  /\ pc' = [pc EXCEPT ![t] = IF Len(todo[t]) > 1 THEN @
                             ELSE IF @ = "rewrite" THEN "notify" ELSE "leave"]
  /\ UNCHANGED <<clockVars, txVars, opVars, tell, lockVars, lwm, dropped>>

\* notify_committed_dependents, and the commit lock.
Notify(t) ==
  /\ pc[t] = "notify"
  /\ tx' = [x \in Txs |->
              IF x = t THEN [tx[x] EXCEPT !.depSet = {}]
              ELSE IF x \in tx[t].depSet \cap live THEN [tx[x] EXCEPT !.counter = @ - 1]
              ELSE tx[x]]
  /\ UnlockCommit(t)
  /\ pc' = [pc EXCEPT ![t] = "finish"]
  /\ UNCHANGED <<clockVars, live, finalized, chain, opVars, todo, tell, exclusive, lastCommitted,
                 lwm, dropped>>

\* A dropped commit is cleaned up without raising last_committed_tx_ts.
Finish(t) ==
  /\ pc[t] = "finish"
  /\ lastCommitted' = IF t \in dropped THEN lastCommitted ELSE Max({lastCommitted, tx[t].end})
  /\ ReleaseExclusive(t)
  /\ finalized' = finalized \cup {t}
  /\ live' = live \ {t}
  /\ \/ pc' = [pc EXCEPT ![t] = "closed"]
     \/ t \notin dropped /\ pc' = [pc EXCEPT ![t] = "gc"]
  /\ UNCHANGED <<clockVars, tx, chain, opVars, todo, tell, commitLock, lwm, dropped>>

(***************************************************************************)
(* Rollback (rollback_tx_inner): the state, then the dependents, then the  *)
(* versions, then the transaction itself.                                  *)
(***************************************************************************)
Rollback(t) ==
  /\ pc[t] = "open" /\ left[t] = <<>>
  /\ pc' = [pc EXCEPT ![t] = "abort"]
  /\ UNCHANGED <<clockVars, txVars, chain, opVars, todo, tell, lockVars, lwm, dropped>>

Abort(t) ==
  /\ pc[t] = "abort"
  /\ tx' = [tx EXCEPT ![t].state = "Aborted", ![t].depSet = {}]
  /\ tell' = [tell EXCEPT ![t] = SetToSeq(tx[t].depSet)]
  /\ todo' = [todo EXCEPT ![t] = tx[t].writeSet]
  /\ UnlockCommit(t)
  /\ pc' = [pc EXCEPT ![t] = IF tx[t].depSet = {} THEN "undo" ELSE "tell"]
  /\ UNCHANGED <<clockVars, live, finalized, chain, opVars, exclusive, lastCommitted, lwm, dropped>>

Tell(t) ==
  /\ pc[t] = "tell"
  /\ tx' = IF Head(tell[t]) \in live THEN [tx EXCEPT ![Head(tell[t])].abortNow = TRUE] ELSE tx
  /\ pc' = [pc EXCEPT ![t] = "release"]
  /\ UNCHANGED <<clockVars, live, finalized, chain, opVars, todo, tell, lockVars, lwm, dropped>>

Release(t) ==
  /\ pc[t] = "release"
  /\ tx' = IF Head(tell[t]) \in live THEN [tx EXCEPT ![Head(tell[t])].counter = @ - 1] ELSE tx
  /\ tell' = [tell EXCEPT ![t] = Tail(@)]
  /\ pc' = [pc EXCEPT ![t] = IF Len(tell[t]) = 1 THEN "undo" ELSE "tell"]
  /\ UNCHANGED <<clockVars, live, finalized, chain, opVars, todo, lockVars, lwm, dropped>>

\* rollback_row_version
RolledBack(v, t) ==
  IF v.begin = t THEN [v EXCEPT !.begin = None, !.end = None]
  ELSE IF v.end = t THEN [v EXCEPT !.end = None] ELSE v

Undo(t) ==
  /\ pc[t] = "undo"
  /\ ReleaseExclusive(t)
  /\ \/ /\ todo[t] # <<>> /\ CanWrite(t, Head(todo[t]))
        /\ chain' = [chain EXCEPT ![Head(todo[t])] = [i \in DOMAIN @ |-> RolledBack(@[i], t)]]
        /\ todo' = [todo EXCEPT ![t] = Tail(@)]
        /\ UNCHANGED <<tx, live, pc>>
     \/ /\ todo[t] = <<>>
        /\ tx' = [tx EXCEPT ![t].state = "Terminated"]
        /\ live' = live \ {t}
        /\ pc' = [pc EXCEPT ![t] = "closed"]
        /\ UNCHANGED <<chain, todo>>
  /\ UNCHANGED <<clockVars, finalized, opVars, tell, commitLock, lastCommitted, lwm, dropped>>

\* t's clean-up finds its record in the log (log_appended): it commits.
CommitDropped(t) ==
  /\ tx' = [tx EXCEPT ![t].state = "Committed"]
  /\ todo' = [todo EXCEPT ![t] = tx[t].writeSet]

\* A leader is appending the record of t (abandon_if_issued), one record at a time.
Issued(t) ==
  /\ pc[t] = "writing" /\ commitLock \notin {None, t, exclusive}
  /\ pc[commitLock] \in {"writing", "appended"} /\ ~Busied(commitLock)

\* cleanup_dropped_commit: the statement is dropped while it waits or yields.
Drop(t) ==
  /\ Cardinality(dropped) < MaxDrops /\ t \notin dropped /\ ~Busied(t)
  /\ \/ /\ pc[t] \in {"wait", "log", "writing"}
        /\ pc' = [pc EXCEPT ![t] = "abort"] /\ UNCHANGED <<tx, todo>>
     \/ /\ Issued(t)
        /\ pc' = [pc EXCEPT ![t] = "abandoned"] /\ UNCHANGED <<tx, todo>>
     \/ /\ pc[t] = "appended"
        /\ CommitDropped(t)
        /\ pc' = [pc EXCEPT ![t] = "rewrite"]
     \/ /\ pc[t] = "rewrite"
        /\ todo' = [todo EXCEPT ![t] = tx[t].writeSet] /\ UNCHANGED <<pc, tx>>
  /\ dropped' = dropped \cup {t}
  /\ UNCHANGED <<clockVars, live, finalized, chain, opVars, tell, lockVars, lwm>>

\* The leader commits the waiter that was dropped during its append
\* (finish_abandoned_group_waiter), or fails and rolls it back (release_group_claim).
Adopt(t) ==
  /\ pc[t] = "abandoned"
  /\ \/ CommitDropped(t) /\ pc' = [pc EXCEPT ![t] = "adopt"]
     \/ pc' = [pc EXCEPT ![t] = "abort"] /\ UNCHANGED <<tx, todo>>
  /\ UNCHANGED <<clockVars, live, finalized, chain, opVars, tell, lockVars, lwm, dropped>>

\* remove_tx by the leader, which has not told t's dependents: if there are any its
\* assertion fails, t stays in `txs`, and the leader's own commit is dropped as the
\* panic unwinds.  The set it had taken is kept here: nobody will tell its members.
Leave(t) ==
  LET leader == commitLock
  IN /\ pc[t] = "leave"
     /\ finalized' = finalized \cup {t}
     /\ \/ /\ tx[t].depSet = {}
           /\ live' = live \ {t} /\ pc' = [pc EXCEPT ![t] = "closed"]
           /\ UNCHANGED <<tx, todo, dropped>>
        \/ /\ tx[t].depSet # {} /\ pc[leader] = "writing"
           /\ pc' = [pc EXCEPT ![t] = "stranded", ![leader] = "abort"]
           /\ dropped' = dropped \cup {leader} /\ UNCHANGED <<live, tx, todo>>
        \/ /\ tx[t].depSet # {} /\ pc[leader] = "appended"
           /\ CommitDropped(leader)
           /\ pc' = [pc EXCEPT ![t] = "stranded", ![leader] = "rewrite"]
           /\ dropped' = dropped \cup {leader} /\ UNCHANGED live
     /\ UNCHANGED <<clockVars, chain, opVars, tell, lockVars, lwm>>

(***************************************************************************)
(* Inline garbage collection (gc_incremental), one pass at a time.  No     *)
(* checkpoint has run, so nothing is materialized in the B-tree.           *)
(***************************************************************************)
ComputeLwm ==
  Min({Infinity} \cup {tx[x].begin : x \in {y \in live : tx[y].state \in {"Active", "Preparing"}}})

GcStart(t) ==
  /\ pc[t] = "gc" /\ lwm = None /\ clockLock = None
  /\ lwm' = ComputeLwm
  /\ todo' = [todo EXCEPT ![t] = SetToSortSeq(Rows, <)]
  /\ pc' = [pc EXCEPT ![t] = "collect"]
  /\ UNCHANGED <<clockVars, txVars, chain, opVars, tell, lockVars, dropped>>

\* gc_version_chain: aborted versions go, and superseded ones nobody can see,
\* unless the B-tree's copy or a missing successor still needs the evidence.
Collected(c, mark) ==
  LET kept == SelectSeq(c, LAMBDA v : v.begin # None \/ v.end # None)
      hasCurrent == \E v \in Range(kept) : v.begin \in Nat /\ v.end = None
  IN SelectSeq(kept, LAMBDA v : ~(v.end \in Nat /\ v.end <= mark) \/ v.resident \/ ~hasCurrent)

Collect(t) ==
  LET r == Head(todo[t])
  IN /\ pc[t] = "collect" /\ CanWrite(t, r)
     /\ chain' = [chain EXCEPT ![r] = Collected(@, IF lwm = Infinity THEN ComputeLwm ELSE lwm)]
     /\ todo' = [todo EXCEPT ![t] = Tail(@)]
     /\ IF Len(todo[t]) = 1 THEN pc' = [pc EXCEPT ![t] = "closed"] /\ lwm' = None
        ELSE UNCHANGED <<pc, lwm>>
     /\ UNCHANGED <<clockVars, txVars, opVars, tell, lockVars, dropped>>

(***************************************************************************)
(* The system.                                                             *)
(***************************************************************************)
\* Where a connection lets the others of its thread run.
Yielded(x) ==
  \/ pc[x] \in {"new", "open", "closed", "panicked", "stranded", "wait", "log", "writing",
               "appended", "abandoned"}
  \/ pc[x] = "rewrite" /\ x \notin dropped

MayRun(t) == Threads \/ \A x \in Txs \ {t} : Yielded(x)

CommitStep(t) ==
  \/ Publish(t) \/ Validate(t) \/ Wait(t) \/ Count(t) \/ Recheck(t) \/ BeginLog(t)
  \/ WriteLog(t) \/ CommitEnd(t) \/ RewriteLiveVersions(t) \/ Notify(t) \/ Finish(t)
  \/ Adopt(t) \/ Leave(t)
  \/ Abort(t) \/ Tell(t) \/ Release(t) \/ Undo(t) \/ GcStart(t) \/ Collect(t)

OperationStep(t) ==
  Search(t) \/ Register(t) \/ Conclude(t) \/ AppendVersion(t)

AcquireStep(t) == AcquireCheck(t) \/ AcquireCas(t) \/ AcquireRecheck(t) \/ AcquireLock(t)

ConnectionStep(t) ==
  \/ Begin(t) \/ Acquire(t) \/ Start(t) \/ Prepare(t) \/ Rollback(t) \/ Drop(t)

Quiet == (\A t \in Txs : pc[t] \in {"closed", "panicked", "stranded"}) /\ UNCHANGED vars

Next ==
  \/ \E t \in Txs :
       /\ MayRun(t) /\ UNCHANGED setup
       /\ ConnectionStep(t) \/ AcquireStep(t) \/ OperationStep(t) \/ CommitStep(t)
  \/ Quiet

Spec == Init /\ [][Next]_vars

(***************************************************************************)
(* Properties.                                                             *)
(***************************************************************************)
Stamps == Nat \cup Txs \cup {None}

TypeOK ==
  /\ clock \in 0..2 * Cardinality(Txs) /\ clockLock \in Txs \cup {None}
  /\ live \subseteq Txs /\ finalized \subseteq Txs /\ dropped \subseteq Txs
  /\ \A t \in Txs :
       /\ tx[t].state \in {"None", "Active", "Preparing", "Committed", "Aborted", "Terminated"}
       /\ tx[t].counter \in Nat
       /\ tx[t].depSet \subseteq Txs \ {t}
       /\ Range(tx[t].writeSet) \subseteq Rows
       /\ want[t] = None \/ want[t] \subseteq Txs \ {t}
  /\ \A r \in Rows : \A v \in Range(chain[r]) : v.begin \in Stamps /\ v.end \in Stamps
  /\ {exclusive, commitLock} \subseteq Txs \cup {None}

Committed(t) == tx[t].state = "Committed"

\* What the committed transactions left in row r for a snapshot taken at ts.
SnapshotAt(ts, r) ==
  LET writers == {w \in Txs : Committed(w) /\ own[w][r] # None /\ tx[w].end < ts}
  IN IF writers = {} THEN Base(r)
     ELSE own[CHOOSE w \in writers : \A x \in writers : tx[x].end <= tx[w].end][r]

\* A transaction that commits has read, of every row, exactly its own last write
\* or what was committed when it began: is_begin_visible, is_end_visible,
\* is_btree_invalidating_version, the commit dependencies they register and the
\* garbage collection never let a committed transaction keep a wrong read.
SnapshotReads ==
  \A t \in Txs : Committed(t) =>
    \A read \in reads[t] :
      read[3] = IF read[2] # None THEN read[2] ELSE SnapshotAt(tx[t].begin, read[1])

\* First committer wins (check_version_conflicts): of two committed transactions
\* that wrote the same row, one began after the other had its commit timestamp.
FirstCommitterWins ==
  \A t, w \in Txs : t # w /\ Committed(t) /\ Committed(w) =>
    \A r \in Rows : own[t][r] # None /\ own[w][r] # None =>
      tx[t].end < tx[w].begin \/ tx[w].end < tx[t].begin

\* Every transaction id in a version chain belongs to a transaction that is still
\* in `txs`: remove_tx comes after the rewrite or the rollback of every chain, so
\* resolve_begin_timestamp's expect("transaction should exist in txs map") holds.
IdsResolve ==
  \A r \in Rows : \A v \in Range(chain[r]) : {v.begin, v.end} \cap Txs \subseteq live

\* The counter a transaction waits on is exactly the number of transactions that
\* have not answered it yet: register_commit_dependency, notify_committed_dependents
\* and rollback_tx_inner repeat no answer (the counter is unsigned and would wrap) and
\* drop none, because a transaction is in `txs` as long as it owes one.  That the
\* answer comes is not claimed: the dependents of a "stranded" group waiter wait for
\* it in vain (DependentsDrained of GroupCommit).
CounterExact ==
  /\ \A t \in live :
       tx[t].counter = Cardinality({x \in Txs : t \in tx[x].depSet \cup Range(tell[x])})
  /\ \A x \in Txs : tx[x].depSet # {} \/ tell[x] # <<>> => x \in live

\* Waiting cannot form a cycle: "edges always go from higher end_ts to lower
\* end_ts" because a dependency is only taken on a transaction whose commit
\* timestamp precedes the dependent's snapshot.
WaitsPointBack ==
  \A x \in Txs : \A t \in tx[x].depSet :
    tx[x].state \in {"Preparing", "Committed"} /\ Precedes(x, t)

\* A row has at most one committed version that no commit has ended: two current
\* versions would let gc_version_chain and every later reader pick the wrong one.
OneCurrentVersion ==
  \A r \in Rows :
    LET current == {i \in DOMAIN chain[r] :
          /\ \/ chain[r][i].begin \in Nat
             \/ chain[r][i].begin \in Txs /\ Committed(chain[r][i].begin)
          /\ \/ chain[r][i].end = None
             \/ chain[r][i].end \in Txs /\ ~Committed(chain[r][i].end)}
    IN Cardinality(current) <= 1

\* The store's bookkeeping is exact: dependency counters, the direction of waiting,
\* the ids in the chains and the current versions agree at every step.
Bookkeeping ==
  TypeOK /\ CounterExact /\ WaitsPointBack /\ IdsResolve /\ OneCurrentVersion

\* Without dropped statements and with commits logged one at a time, a
\* transaction begun without CONCURRENT has the isolation of an ordinary one: no
\* other writer's commit timestamp falls between its begin and its end
\* (acquire_exclusive_tx and the exclusive check of CommitState::Initial).  On
\* threads this is so among exclusive transactions, because the checks are
\* repeated after the CAS.
ExclusiveSerial ==
  MaxDrops = 0 /\ ~Grouped =>
    \A t \in Exclusive : \A w \in (IF Threads THEN Exclusive ELSE Txs) \ {t} :
      Committed(t) /\ Committed(w) /\ ~ReadOnly(t) /\ ~ReadOnly(w) =>
        tx[w].end < tx[t].begin \/ tx[t].end < tx[w].end

(***************************************************************************)
(* What comments and an assertion of the code claim, and other setups      *)
(* refute (see the README).                                                *)
(***************************************************************************)
Holding(t) == exclusive = t /\ pc[t] # "recheck_exclusive"

\* "once we get the exclusive txn status, no other txn can sneak in and commit"
\* (acquire_exclusive_tx): while a transaction is exclusive no other writer
\* becomes committed.
ExclusiveAlone ==
  [][\A t, w \in Txs :
       Holding(t) /\ w # t /\ ~ReadOnly(w) /\ Committed(w)' => Committed(w)]_vars

\* An exclusive transaction has seen every commit: "Another transaction committed
\* after this transaction's begin timestamp, do not allow exclusive lock"
\* (acquire_exclusive_tx).
ExclusiveIsCurrent ==
  \A t, w \in Txs : exclusive = t /\ commitLock = t /\ Committed(w) /\ ~ReadOnly(w) /\ w # t =>
    tx[w].end < tx[t].begin

\* "read found a visible version but update could not supersede it" never happens
\* (the assertion that ends MvccLazyCursor::insert).
UpdateSupersedes == \A t \in Txs : pc[t] # "panicked"
===============================================================================
