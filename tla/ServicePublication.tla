------------------------- MODULE ServicePublication -------------------------
(***************************************************************************)
(* The exactly-once publication protocol of the FastDB service             *)
(* (fastdb/service/src/lib.rs) over its receipt tables                     *)
(* (fastdb/frontend/src/service_catalog.rs).                               *)
(*                                                                         *)
(* A thread runs one call of query, read or info.  Threads interleave at   *)
(* the points where the code can be overtaken: between the fence check and *)
(* the try-lock of lock_before, between the snapshot of a transaction and  *)
(* its publication, and between a commit and the sequence update or fence  *)
(* that settles it.  What runs under the publication mutex up to the       *)
(* commit is one step: it reads only what that mutex protects.             *)
(***************************************************************************)
EXTENDS Integers, Sequences, FiniteSets

CONSTANTS
    Threads,    \* the calls that admission lets run at once
    Requests,   \* the request bodies clients send, see RequestType
    W,          \* receipts kept and retry window: 64 in the code
    Attempts,   \* transaction attempts of one query_locked: 16 in the code
    Limit,      \* catalog MAX_SEQUENCE; a request may name at most Limit - 1
    None        \* no request, no settlement, no condition

VARIABLES
    up,           \* the process runs and has opened the database
    fenced,       \* DatabaseService::fenced
    pubSeq,       \* Publication::sequence
    db,           \* the committed database, as connections of the process see it
    recoverable,  \* the databases that reopening the files now could find
    th,           \* the calls in progress, see IdleThread
    settle,       \* the commit whose outcome the mutex holder has yet to apply
    acked,        \* history: receipts returned to clients as write replies
    told,         \* history: highest sequence in a write or info reply
    readTold      \* history: highest sequence in a read reply

shared == <<up, fenced, pubSeq, db, recoverable, settle>>
history == <<acked, told, readTold>>
vars == <<shared, th, history>>

\* A thread: where it is, the request it serves, the schema lock it holds and
\* whether it wants it exclusive, its attempts, the sequence its transaction
\* read (-1: none open), the result of its statements, and whether lock_before
\* has passed the check that precedes its next try-lock.
IdleThread ==
    [pc |-> "idle", req |-> None, holds |-> "none", excl |-> FALSE, tries |-> 0,
     snap |-> -1, result |-> "ok", checked |-> FALSE]

WriteKinds == {"plain", "schema", "bad"}  \* "bad": prepare() returned an error
Kinds == WriteKinds \cup {"read", "info"}
RequestType(r) ==
    /\ r.kind \in Kinds
    /\ r.after \in 0..(Limit - 1)
    /\ r.ifs = None \/ r.ifs \in r.after..(Limit - 1)
Writes == {r \in Requests : r.kind \in WriteKinds}

(* SHA-256 of the body: equal digests are equal bodies.                     *)
ASSUME RequestAssumption ==
    /\ \A r \in Requests : RequestType(r)
    /\ \A r, s \in Requests : r.hash = s.hash => r = s
ASSUME ConstantAssumption ==
    /\ W \in Nat \ {0}
    /\ Attempts \in Nat \ {0}
    /\ Limit \in Nat \ {0}
    /\ None \notin Requests
    /\ None \notin Nat

LockWaits == {"schema", "first", "bad", "publish", "exhausted", "info"}

-----------------------------------------------------------------------------
(* The receipt tables.  `log` is the history of publications: entry n is    *)
(* what the transaction that set the sequence to n did.                     *)

Receipt(e, n) == [id |-> e.req.id, hash |-> e.req.hash, seq |-> n, ok |-> e.ok]

EmptyDb == [seq |-> 0, receipts |-> {}, log |-> <<>>]

\* Faults of the DELETE: it reaches one receipt too many; it is missing.
RetainedOneShort(d, e) ==
    {c \in d.receipts \cup {Receipt(e, d.seq + 1)} : c.seq > d.seq + 2 - W}
RetainedAll(d, e) == d.receipts \cup {Receipt(e, d.seq + 1)}

\* publish_service_receipt inside a transaction that then commits: the new
\* receipt, the receipts its DELETE leaves, and the next sequence
Retained(d, e) ==
    {c \in d.receipts \cup {Receipt(e, d.seq + 1)} : c.seq > d.seq + 1 - W}
Published(d, e) ==
    [seq |-> d.seq + 1, receipts |-> Retained(d, e), log |-> Append(d.log, e)]

\* validate_service_receipts
ValidReceipts(d) ==
    LET count == IF d.seq < W THEN d.seq ELSE W
    IN  /\ Cardinality(d.receipts) = count
        /\ {c.seq : c \in d.receipts} = (d.seq - count + 1)..d.seq

-----------------------------------------------------------------------------
(* What query_locked decides under the publication mutex.                   *)

PubFree == settle = None

ReceiptsOf(r) == {c \in db.receipts : c.id = r.id}
\* Fault: the receipt of a publication that was never settled is replayed.
ReplayableUnsettled(r) == {c \in ReceiptsOf(r) : c.hash = r.hash}
\* replay answers with a receipt of the same body that has been settled
Replayable(r) == {c \in ReceiptsOf(r) : c.hash = r.hash /\ c.seq <= pubSeq}

\* Faults of check_position: no window; a window one too wide.
InPositionNoWindow(r) == pubSeq <= Limit - 1 /\ r.after <= pubSeq
InPositionWide(r) ==
    pubSeq <= Limit - 1 /\ r.after <= pubSeq /\ pubSeq - r.after <= W
\* check_position
InPosition(r) ==
    /\ pubSeq <= Limit - 1
    /\ r.after <= pubSeq
    /\ pubSeq - r.after < W

Refused(r) ==
    \/ ReceiptsOf(r) # {} /\ Replayable(r) = {}
    \/ ReceiptsOf(r) = {} /\ ~InPosition(r)
Unrecorded(r) == ReceiptsOf(r) = {} /\ InPosition(r)
\* Fault: ifSequence is not compared.
SequenceChangedIgnored(r) == r.ifs = None /\ FALSE
\* the ifSequence condition fails
SequenceChanged(r) == r.ifs # None /\ r.ifs # pubSeq

Larger(a, b) == IF a >= b THEN a ELSE b
Told(n) == told' = Larger(told, n)

\* The call returns: its guards and its transaction are dropped.
Leave(t) == th' = [th EXCEPT ![t] = IdleThread]

\* COMMIT of a transaction holding entry e.  An error other than a conflict
\* leaves open whether the log record reached the disk ("landed"), and a record
\* appended before its sync failed is visible to the process ("appended").
Commit(t, e) ==
    LET new == Published(db, e)
        c == Receipt(e, new.seq)
    IN  /\ \/ /\ db' = new
              /\ recoverable' = {new}
              /\ settle' = [by |-> t, receipt |-> c, sure |-> TRUE]
           \/ /\ settle' = [by |-> t, receipt |-> c, sure |-> FALSE]
              /\ \/ UNCHANGED <<db, recoverable>>
                 \/ /\ recoverable' = recoverable \cup {new}
                    /\ db' \in {db, new}
        /\ th' = [th EXCEPT ![t].pc = "settle"]
        /\ UNCHANGED <<up, fenced, pubSeq, history>>

\* failure: the receipt of an error, in a transaction of its own
Failure(t) ==
    /\ pubSeq = db.seq
    /\ Commit(t, [req |-> th[t].req, ok |-> FALSE, base |-> pubSeq])

-----------------------------------------------------------------------------
(* The steps of a call.                                                     *)

\* query, read, info up to their first lock; a fenced service refuses at once.
Start(t, r) ==
    /\ up /\ ~fenced /\ th[t].pc = "idle"
    /\ th' = [th EXCEPT ![t].pc = IF r.kind = "info" THEN "info" ELSE "schema",
                         ![t].req = r,
                         ![t].excl = r.kind \in {"schema", "bad"}]
    /\ UNCHANGED <<shared, history>>

\* lock_before: the fence and deadline check of one turn of its loop
LockCheck(t) ==
    /\ th[t].pc \in LockWaits /\ ~th[t].checked /\ ~fenced
    /\ th' = [th EXCEPT ![t].checked = TRUE]
    /\ UNCHANGED <<shared, history>>

\* Fault: only the fence ends the wait.
LockRefusedByFence(t) ==
    /\ th[t].pc \in LockWaits /\ ~th[t].checked /\ fenced
    /\ Leave(t)
    /\ UNCHANGED <<shared, history>>

\* lock_before: the service is fenced or the deadline of the call has passed
LockRefused(t) ==
    /\ th[t].pc \in LockWaits /\ ~th[t].checked
    /\ Leave(t)
    /\ UNCHANGED <<shared, history>>

\* Fault: a schema change does not wait for the requests in progress.
SchemaFreeOfWriters(t) == \A u \in Threads : th[u].holds # "write"
\* schema.try_read and schema.try_write
SchemaFree(t) ==
    IF th[t].excl THEN \A u \in Threads : th[u].holds = "none"
               ELSE \A u \in Threads : th[u].holds # "write"

\* lock_before: the try-lock would block; sleep and look again
LockBusy(t) ==
    /\ th[t].pc \in LockWaits /\ th[t].checked
    /\ IF th[t].pc = "schema" THEN ~SchemaFree(t) ELSE ~PubFree
    /\ th' = [th EXCEPT ![t].checked = FALSE]
    /\ UNCHANGED <<shared, history>>

SchemaLock(t) ==
    /\ th[t].pc = "schema" /\ th[t].checked /\ SchemaFree(t)
    /\ th' = [th EXCEPT ![t].holds = IF th[t].excl THEN "write" ELSE "read",
                         ![t].pc = IF th[t].req.kind = "read" THEN "read" ELSE "first",
                         ![t].checked = FALSE]
    /\ UNCHANGED <<shared, history>>

Locked(t, label) == th[t].pc = label /\ th[t].checked /\ PubFree

\* replay found the receipt of this body
Replay(t) ==
    /\ \E c \in Replayable(th[t].req) :
          /\ acked' = acked \cup {c}
          /\ Told(c.seq)
    /\ Leave(t)
    /\ UNCHANGED <<shared, readTold>>

\* replay met another body, or check_position failed
Refuse(t) ==
    /\ Refused(th[t].req)
    /\ Leave(t)
    /\ UNCHANGED <<shared, history>>

\* query_locked: the look before any work
First(t) ==
    /\ Locked(t, "first")
    /\ \/ Replay(t)
       \/ Refuse(t)
       \/ Unrecorded(th[t].req) /\ SequenceChanged(th[t].req) /\ Failure(t)
       \/ /\ Unrecorded(th[t].req) /\ ~SequenceChanged(th[t].req)
          /\ th' = [th EXCEPT ![t].pc = IF th[t].req.kind = "bad" THEN "bad" ELSE "begin",
                               ![t].checked = FALSE]
          /\ UNCHANGED <<shared, history>>

\* query_locked: the statements did not prepare, or every attempt was overtaken
GiveUp(t) ==
    /\ Locked(t, "bad") \/ Locked(t, "exhausted")
    /\ \/ Replay(t)
       \/ Refuse(t)
       \/ Unrecorded(th[t].req) /\ Failure(t)

\* query_locked: an attempt opens its transaction and runs the statements
Begin(t) ==
    /\ th[t].pc = "begin" /\ ~fenced
    /\ \E x \in {"ok", "error"} :
          th' = [th EXCEPT ![t].pc = "publish", ![t].snap = db.seq,
                           ![t].result = x, ![t].tries = @ + 1]
    /\ UNCHANGED <<shared, history>>

\* query_locked returned None: query starts over with the schema lock exclusive
NeedExclusive(t) ==
    /\ th[t].pc = "begin" /\ ~fenced /\ ~th[t].excl
    /\ th' = [th EXCEPT ![t] = [IdleThread EXCEPT !.pc = "schema", !.req = th[t].req,
                                                    !.excl = TRUE]]
    /\ UNCHANGED <<shared, history>>

\* query_locked: the attempt was overtaken; its transaction is rolled back
Overtaken(t) ==
    /\ Unrecorded(th[t].req) /\ ~SequenceChanged(th[t].req)
    /\ th[t].result = "ok" /\ th[t].snap # pubSeq
    /\ th' = [th EXCEPT ![t].pc = IF th[t].tries = Attempts THEN "exhausted" ELSE "begin",
                         ![t].snap = -1, ![t].checked = FALSE]
    /\ UNCHANGED <<shared, history>>

\* query_locked: the attempt's transaction under the publication mutex.  The
\* state row must be as the snapshot saw it, or the UPDATE of it conflicts.
Publish(t) ==
    /\ Locked(t, "publish")
    /\ \/ Replay(t)
       \/ Refuse(t)
       \/ /\ Unrecorded(th[t].req)
          /\ SequenceChanged(th[t].req) \/ th[t].result = "error"
          /\ Failure(t)
       \/ Overtaken(t)
       \/ /\ Unrecorded(th[t].req) /\ ~SequenceChanged(th[t].req)
          /\ th[t].result = "ok" /\ th[t].snap = pubSeq
          /\ \/ /\ db.seq = th[t].snap
                /\ Commit(t, [req |-> th[t].req, ok |-> TRUE, base |-> th[t].snap])
             \/ Failure(t)  \* COMMIT reported a write conflict

\* Fault: a commit that failed is answered as if it had succeeded.
SettleRegardless(t) ==
    /\ settle # None /\ th[t].pc = "settle" /\ settle.by = t
    /\ acked' = acked \cup {settle.receipt}
    /\ Told(settle.receipt.seq)
    /\ pubSeq' = IF settle.sure THEN pubSeq + 1 ELSE pubSeq
    /\ fenced' = (fenced \/ ~settle.sure)
    /\ settle' = None
    /\ Leave(t)
    /\ UNCHANGED <<up, db, recoverable, readTold>>

\* The mutex holder applies the outcome of its commit and answers.
Settle(t) ==
    /\ settle # None /\ th[t].pc = "settle" /\ settle.by = t
    /\ \/ /\ settle.sure
          /\ pubSeq' = pubSeq + 1
          /\ acked' = acked \cup {settle.receipt}
          /\ Told(settle.receipt.seq)
          /\ UNCHANGED fenced
       \/ /\ ~settle.sure
          /\ fenced' = TRUE
          /\ UNCHANGED <<pubSeq, acked, told>>
    /\ settle' = None
    /\ Leave(t)
    /\ UNCHANGED <<up, db, recoverable, readTold>>

\* connect, BEGIN or the catalog read of an attempt failed, or the fence was up
BeginFails(t) ==
    /\ th[t].pc \in {"begin", "read"}
    /\ Leave(t)
    /\ UNCHANGED <<shared, history>>

\* read: one snapshot, one answer; a read ahead of the database is refused
Read(t) ==
    /\ th[t].pc = "read" /\ ~fenced
    /\ th[t].req.after <= db.seq
    /\ readTold' = Larger(readTold, db.seq)
    /\ Leave(t)
    /\ UNCHANGED <<shared, acked, told>>

Info(t) ==
    /\ Locked(t, "info")
    /\ Told(pubSeq)
    /\ Leave(t)
    /\ UNCHANGED <<shared, acked, readTold>>

\* A receipt that cannot be read, a rollback that cannot be confirmed, an
\* execution error of class FDB_STORAGE or FDB_ROLLBACK, or a publication that
\* does not find the state row it expects: the service is fenced.
StorageError(t) ==
    /\ \/ th[t].pc \in {"begin", "read"} /\ ~fenced
       \/ th[t].pc = "publish"
       \/ \E label \in {"first", "bad", "exhausted"} : Locked(t, label)
    /\ fenced' = TRUE
    /\ Leave(t)
    /\ UNCHANGED <<up, pubSeq, db, recoverable, settle, history>>

-----------------------------------------------------------------------------
(* The process stops at any point, and opens what its files hold.           *)

Idle == [t \in Threads |-> IdleThread]

Stop ==
    /\ up
    /\ up' = FALSE
    /\ db' \in recoverable
    /\ recoverable' = {db'}
    /\ fenced' = FALSE
    /\ pubSeq' = 0
    /\ settle' = None
    /\ th' = Idle
    /\ UNCHANGED history

\* DatabaseService::open: a history that does not validate is not served.
Open ==
    /\ ~up
    /\ ValidReceipts(db)
    /\ up' = TRUE
    /\ pubSeq' = db.seq
    /\ UNCHANGED <<fenced, db, recoverable, settle, th, history>>

\* DatabaseService::create: initialize_service_catalog inserts sequence 0
Init ==
    /\ up = TRUE /\ fenced = FALSE /\ pubSeq = 0
    /\ db = EmptyDb /\ recoverable = {EmptyDb}
    /\ settle = None
    /\ th = Idle
    /\ acked = {} /\ told = 0 /\ readTold = 0

Work(t) ==
    \/ LockCheck(t) \/ LockBusy(t) \/ SchemaLock(t)
    \/ First(t) \/ GiveUp(t) \/ Begin(t) \/ NeedExclusive(t) \/ Publish(t)
    \/ Settle(t) \/ BeginFails(t) \/ Read(t) \/ Info(t) \/ StorageError(t)

Next ==
    \/ \E t \in Threads : \/ \E r \in Requests : Start(t, r)
                         \/ LockRefused(t)
                         \/ Work(t)
    \/ Stop
    \/ Open

Spec == Init /\ [][Next]_vars

\* A running thread is scheduled, and the deadline of a call arrives: a call
\* that keeps looking for a lock is at some turn refused.
Fairness ==
    /\ \A t \in Threads : WF_vars(Work(t)) /\ SF_vars(LockRefused(t))
    /\ WF_vars(Open)

FairSpec == Spec /\ Fairness

-----------------------------------------------------------------------------
(* Properties.                                                              *)

Entries == [req : Writes, ok : BOOLEAN, base : 0..Limit]
Receipts == {Receipt(e, n) : e \in Entries, n \in 1..Limit}
\* No settlement is none of the settlements.
ASSUME SettlementAssumption == None \notin [by : Threads, receipt : Receipts, sure : BOOLEAN]
Databases ==
    {d \in [seq : 0..Limit, receipts : SUBSET Receipts, log : Seq(Entries)] :
        d.seq = Len(d.log)}

Calls ==
    [pc : LockWaits \cup {"idle", "read", "begin", "settle"},
     req : Requests \cup {None},
     holds : {"none", "read", "write"}, excl : BOOLEAN,
     tries : 0..Attempts, snap : -1..Limit,
     result : {"ok", "error"}, checked : BOOLEAN]

\* The types of the service's state and of the history.
TypeOK ==
    /\ up \in BOOLEAN /\ fenced \in BOOLEAN
    /\ pubSeq \in 0..Limit
    /\ db \in Databases
    /\ recoverable \subseteq Databases
    /\ settle = None \/ settle \in [by : Threads, receipt : Receipts, sure : BOOLEAN]
    /\ th \in [Threads -> Calls]
    /\ acked \subseteq Receipts
    /\ told \in 0..Limit /\ readTold \in 0..Limit

\* Every database the service works on or could recover.
Databanks == {db} \cup recoverable

\* A request body is published at most once, whatever is retried, evicted,
\* fenced or recovered (replay with check_position, lib.rs:388 and 571).
ExactlyOnce ==
    \A d \in Databanks : \A i, j \in 1..Len(d.log) :
        d.log[i].req.hash = d.log[j].req.hash => i = j

\* A request identity is reused for another body only after its receipt has left
\* the window: between two publications of one ID lie at least W others.
IdentityReuseIsFar ==
    \A d \in Databanks : \A i, j \in 1..Len(d.log) :
        (i < j /\ d.log[i].req.id = d.log[j].req.id) => j - i > W

\* The receipts of the last W of the first n publications.
WindowOf(log, n) == {Receipt(log[i], i) : i \in {j \in 1..n : j > n - W}}

\* The receipt table is exactly the last min(sequence, W) publications, which is
\* what validate_service_receipts demands when the files are opened again.
ReceiptsAreTheWindow ==
    \A d \in Databanks : d.receipts = WindowOf(d.log, d.seq)

\* Reopening never rejects a history the service itself wrote.
RecoveryValidates == \A d \in Databanks : ValidReceipts(d)

\* No lost update: a successful write ran on the publication just before it, and
\* one with ifSequence ran on exactly that sequence (lib.rs:316 and 340).
SerialWrites ==
    \A d \in Databanks : \A n \in 1..Len(d.log) :
        d.log[n].ok =>
            /\ d.log[n].base = n - 1
            /\ d.log[n].req.ifs \in {None, n - 1}

\* A confirmed reply names a publication that no crash, fence or later write
\* takes back: it stays in the history of every database a restart could find.
ConfirmedSurvives ==
    \A c \in acked : \A d \in Databanks :
        c.seq <= d.seq /\ Receipt(d.log[c.seq], c.seq) = c

\* All answers a body ever gets are one and the same answer.
OneAnswer == \A a, b \in acked : a.hash = b.hash => a = b

\* The reply of a write lies above its afterSequence and at most W above, the
\* check with which clients tell a reply from a stranger's (client.cjs:283).
ReplyInWindow ==
    \A c \in acked : \A r \in Requests :
        c.hash = r.hash => r.after < c.seq /\ c.seq <= r.after + W

\* The sequence in a write or info reply is never ahead of what a restart finds.
ToldSurvives == \A d \in Databanks : told <= d.seq

\* While a schema change holds its transaction no other transaction is open, and
\* unless a commit was uncertain it is not overtaken: the code retries it, but
\* has no need to.
SchemaChangeAlone ==
    \A t \in Threads : (th[t].holds = "write" /\ th[t].snap # -1) =>
        /\ \A u \in Threads \ {t} : th[u].snap = -1
        /\ th[t].snap = pubSeq \/ fenced

\* The protocol implements the ledger its documentation promises.
Ledger == INSTANCE PublicationLedger WITH
    Publications <- Entries, Window <- W,
    ledger <- db.log, confirmed <- {c.seq : c \in acked}
ImplementsLedger == Ledger!Spec

\* "Publication or rollback uncertainty stops further database operations until
\* the owner is stopped and recovered" (service/README.md).
FenceStopsPublication == [][(fenced /\ up') => db'.seq = db.seq]_vars

\* "Database ID, sequence and receipts survive a service restart"
\* (docs/service-protocol.md), for the sequence a read has answered with.
ReadSequenceSurvives == (~up) => readTold <= db.seq

\* Every call is answered: it is never stuck on a lock or in its retries.
Answered == \A t \in Threads : th[t].pc # "idle" ~> th[t].pc = "idle"
=============================================================================
