------------------------ MODULE ServiceRecoveryProofs ------------------------
(***************************************************************************)
(* Proofs that what the publication protocol leaves behind can be opened   *)
(* again, that the protocol implements PublicationLedger, and that a       *)
(* schema change is alone.  All rest on the inductive invariant Inv of     *)
(* ServicePublicationProofs.                                               *)
(***************************************************************************)
EXTENDS ServicePublicationProofs, FiniteSetTheorems, SequenceTheorems

\* The window passes the count and the contiguity check of
\* validate_service_receipts, so reopening never refuses what the service wrote.
THEOREM ReopenAccepts == Spec => []RecoveryValidates
<1>1. ASSUME Inv, NEW d \in Databanks PROVE ValidReceipts(d)
  <2> DEFINE count == IF d.seq < W THEN d.seq ELSE W
             low == d.seq - count + 1
             I == low..d.seq
             f == [i \in I |-> Receipt(d.log[i], i)]
  <2>1. d.seq \in Nat /\ W \in Nat /\ W > 0 /\ d.receipts = WindowOf(d.log, d.seq)
    BY <1>1, ConstantAssumption DEF Inv, TypeOK, Databanks, Databases, Sound
  <2>2. /\ count \in Nat /\ count <= d.seq /\ low \in Nat
        /\ \A i \in Int : i \in I <=> i \in 1..d.seq /\ i > d.seq - W
    BY <2>1
  <2> HIDE DEF count, low
  <2>3. \A i \in I : Receipt(d.log[i], i).seq = i
    BY DEF Receipt
  <2>4. \A c : c \in d.receipts <=> \E i \in I : c = Receipt(d.log[i], i)
    BY <2>1, <2>2 DEF WindowOf
  <2>5. f \in Bijection(I, d.receipts)
    <3>1. f \in [I -> d.receipts]
      BY <2>4
    <3>2. ASSUME NEW a \in I, NEW b \in I, f[a] = f[b] PROVE a = b
      <4>1. f[a].seq = a /\ f[b].seq = b
        BY <2>3
      <4> QED BY <3>2, <4>1
    <3>3. \A c \in d.receipts : \E i \in I : f[i] = c
      BY <2>4
    <3> QED BY <3>1, <3>2, <3>3 DEF Bijection, Injection, Surjection, IsInjective
  <2>6. IsFiniteSet(I) /\ Cardinality(I) = count
    <3>1. low \in Int /\ d.seq \in Int
      BY <2>1, <2>2
    <3>2. /\ IsFiniteSet(low..d.seq)
          /\ Cardinality(low..d.seq) = IF low > d.seq THEN 0 ELSE d.seq - low + 1
      BY <3>1, FS_Interval, Zenon
    <3> QED BY <2>1, <2>2, <3>2 DEF low
  <2>7. Cardinality(d.receipts) = count
    BY <2>5, <2>6, FS_Bijection DEF ExistsBijection
  <2>8. {c.seq : c \in d.receipts} = I
    BY <2>3, <2>4
  <2> QED BY <2>7, <2>8 DEF ValidReceipts, count, low
<1>2. Inv => RecoveryValidates
  BY <1>1 DEF RecoveryValidates
<1> QED BY <1>2, Invariance, PTL

-----------------------------------------------------------------------------
\* In a sound database each entry may follow the ones before it.
LEMMA SoundFollows ==
    ASSUME NEW d \in Databases, Sound(d), NEW k \in 0..d.seq, k = d.seq - 1,
           NEW log \in Seq(Entries), Len(log) = k,
           \A n \in 1..k : log[n] = d.log[n]
    PROVE  /\ d.log = Append(log, d.log[d.seq]) /\ d.log[d.seq] \in Entries
           /\ Ledger!MayFollow(d.log[d.seq], log)
<1>1. d.seq \in Nat \ {0} /\ d.seq = Len(d.log) /\ d.log \in Seq(Entries)
  BY DEF Databases
<1>2. d.log[d.seq] \in Entries
  BY <1>1
<1>3. d.log = Append(log, d.log[d.seq])
  BY <1>1
<1>4. \A n \in 1..k : log[n].req.hash # d.log[d.seq].req.hash
  <2> SUFFICES ASSUME NEW n \in 1..k, d.log[n].req.hash = d.log[d.seq].req.hash
               PROVE  FALSE
    OBVIOUS
  <2>1. n \in 1..d.seq /\ d.seq \in 1..d.seq /\ n # d.seq
    BY <1>1
  <2> QED BY <2>1, SoundIsOnce
<1>5. d.log[d.seq].req.after \in Nat
  BY <1>2, RequestAssumption, ConstantAssumption DEF Entries, Writes, RequestType
<1>6. /\ d.log[d.seq].req.after < d.seq /\ d.seq <= d.log[d.seq].req.after + W
      /\ d.log[d.seq].ok => d.log[d.seq].base = d.seq - 1
  BY <1>1 DEF Sound
<1>7. Ledger!MayFollow(d.log[d.seq], log)
  BY <1>1, <1>4, <1>5, <1>6, ConstantAssumption DEF Ledger!MayFollow
<1> QED BY <1>2, <1>3, <1>7

\* A commit adds one publication to the ledger or, while uncertain, none.
LEMMA CommitPublishes ==
    ASSUME Inv, Inv', NEW t, NEW e, Commit(t, e)
    PROVE  Ledger!Publish \/ UNCHANGED <<db, acked>>
<1>1. db \in Databases /\ db' \in Databases /\ Sound(db')
  BY DEF Inv, TypeOK, Databanks
<1>2. acked' = acked /\ (db' = db \/ db' = Published(db, e))
  BY DEF Commit, history
<1>3. CASE db' = Published(db, e)
  <2>1. /\ db'.seq = db.seq + 1 /\ db'.log = Append(db.log, e)
        /\ db.log \in Seq(Entries) /\ db.seq = Len(db.log) /\ db.seq \in Nat
    BY <1>1, <1>3 DEF Published, Databases
  <2>2. db.seq \in 0..db'.seq /\ db.seq = db'.seq - 1
    BY <2>1
  <2>3. \A n \in 1..db.seq : db.log[n] = db'.log[n]
    BY <2>1
  <2>4. /\ db'.log = Append(db.log, db'.log[db'.seq]) /\ db'.log[db'.seq] \in Entries
        /\ Ledger!MayFollow(db'.log[db'.seq], db.log)
    BY <1>1, <2>1, <2>2, <2>3, SoundFollows
  <2> QED BY <1>2, <2>4 DEF Ledger!Publish
<1> QED BY <1>2, <1>3

\* Answering with the receipt of a publication confirms it.
LEMMA AnswerConfirms ==
    ASSUME Inv, Inv', db' = db, NEW c \in Receipts, acked' = acked \cup {c}
    PROVE  Ledger!Confirm
<1>1. c.seq <= db.seq /\ db.seq = Len(db.log) /\ db.seq \in Nat
  BY DEF Inv, Durable, Databanks, TypeOK, Databases
<1>2. c.seq \in 1..Len(db.log)
  BY <1>1 DEF Receipts, Receipt
<1>3. {x.seq : x \in acked'} = {x.seq : x \in acked} \cup {c.seq}
  OBVIOUS
<1> QED BY <1>2, <1>3 DEF Ledger!Confirm

\* A stop leaves the ledger as it was, or without its unconfirmed last entry, or
\* with one that was pending.
LEMMA StopRecovers ==
    ASSUME Inv, Inv', Stop
    PROVE  Ledger!Recover
<1> DEFINE keep == pubSeq
           kept == SubSeq(db.log, 1, keep)
<1>1. /\ db' \in recoverable /\ acked' = acked /\ up
      /\ db \in Databases /\ db' \in Databases /\ Sound(db')
      /\ pubSeq \in Nat
  BY DEF Stop, history, Inv, TypeOK, Databanks
<1>2. /\ pubSeq <= db.seq /\ db.seq <= pubSeq + 1
      /\ pubSeq <= db'.seq /\ db'.seq <= pubSeq + 1
      /\ \A n \in 1..pubSeq : db'.log[n] = db.log[n]
      /\ \A c \in acked : c.seq <= pubSeq
  BY <1>1 DEF Inv, Durable, Ahead, Databanks
<1>3. /\ db.seq = Len(db.log) /\ db.log \in Seq(Entries) /\ db.seq \in Nat
      /\ db'.seq = Len(db'.log) /\ db'.log \in Seq(Entries) /\ db'.seq \in Nat
  BY <1>1 DEF Databases
<1>4. keep \in {Len(db.log) - 1, Len(db.log)} /\ keep >= 0
  BY <1>1, <1>2, <1>3
<1>5. \A n \in {c.seq : c \in acked} : n <= keep
  BY <1>2
<1>6. kept \in Seq(Entries) /\ Len(kept) = keep /\ \A n \in 1..keep : kept[n] = db'.log[n]
  BY <1>1, <1>2, <1>3
<1>7. CASE db'.seq = pubSeq
  <2> HIDE DEF kept
  <2>1. db'.log = kept
    <3>1. Len(db'.log) = Len(kept) /\ \A n \in 1..Len(db'.log) : db'.log[n] = kept[n]
      BY <1>3, <1>6, <1>7
    <3> QED BY <1>3, <1>6, <3>1, SeqEqual
  <2> QED BY <1>1, <1>4, <1>5, <2>1 DEF Ledger!Recover, kept
<1>8. CASE db'.seq = pubSeq + 1
  <2>1. keep \in 0..db'.seq /\ keep = db'.seq - 1
    BY <1>1, <1>8
  <2> HIDE DEF keep, kept
  <2>2. /\ db'.log = Append(kept, db'.log[db'.seq]) /\ db'.log[db'.seq] \in Entries
        /\ Ledger!MayFollow(db'.log[db'.seq], kept)
    BY <1>1, <1>6, <2>1, SoundFollows
  <2> QED BY <1>1, <1>4, <1>5, <2>2 DEF Ledger!Recover, kept
<1> QED BY <1>1, <1>2, <1>3, <1>7, <1>8

\* The service implements the ledger: every step of its threads, of a fence and of
\* a restart is a publication, a confirmation, a recovery or invisible.
THEOREM Refinement == Spec => ImplementsLedger
<1>1. Init => Ledger!Init
  BY DEF Init, Ledger!Init, EmptyDb
<1>2. ASSUME Inv, Inv', [Next]_vars
      PROVE  [Ledger!Next]_(Ledger!vars)
  <2>1. ASSUME UNCHANGED <<db, acked>> PROVE [Ledger!Next]_(Ledger!vars)
    BY <2>1 DEF Ledger!vars
  <2>2. ASSUME NEW t, NEW e, Commit(t, e) PROVE [Ledger!Next]_(Ledger!vars)
    BY <1>2, <2>1, <2>2, CommitPublishes DEF Ledger!Next
  <2>3. ASSUME NEW t, Failure(t) PROVE [Ledger!Next]_(Ledger!vars)
    BY <2>2, <2>3 DEF Failure
  <2>4. ASSUME NEW t, Replay(t) PROVE [Ledger!Next]_(Ledger!vars)
    <3>1. PICK c \in Replayable(th[t].req) : acked' = acked \cup {c}
      BY <2>4 DEF Replay
    <3>2. c \in Receipts /\ db' = db
      BY <1>2, <2>4 DEF Replay, shared, Replayable, ReceiptsOf, Inv, TypeOK, Databases
    <3> QED BY <1>2, <3>1, <3>2, AnswerConfirms DEF Ledger!Next
  <2>5. ASSUME NEW t, Settle(t) PROVE [Ledger!Next]_(Ledger!vars)
    <3>1. db' = db /\ settle.receipt \in Receipts
      BY <1>2, <2>5 DEF Settle, Inv, TypeOK
    <3>2. acked' = acked \/ acked' = acked \cup {settle.receipt}
      BY <2>5 DEF Settle
    <3> QED BY <1>2, <2>1, <3>1, <3>2, AnswerConfirms DEF Ledger!Next
  <2>6. CASE Stop
    BY <1>2, <2>6, StopRecovers DEF Ledger!Next
  <2>7. ASSUME NEW t, \/ \E r \in Requests : Start(t, r)
                      \/ LockRefused(t) \/ LockCheck(t) \/ LockBusy(t) \/ SchemaLock(t)
                      \/ Begin(t) \/ NeedExclusive(t) \/ BeginFails(t) \/ Read(t)
                      \/ Info(t) \/ StorageError(t)
        PROVE  UNCHANGED <<db, acked>>
    BY <2>7 DEF Start, LockRefused, LockCheck, LockBusy, SchemaLock, Begin, NeedExclusive,
                BeginFails, Read, Info, StorageError, shared, history
  <2>8. ASSUME NEW t, First(t) \/ GiveUp(t) \/ Publish(t)
        PROVE  [Ledger!Next]_(Ledger!vars)
    <3>1. ASSUME Refuse(t) \/ Overtaken(t) \/ UNCHANGED <<shared, history>>
          PROVE  UNCHANGED <<db, acked>>
      BY <3>1 DEF Refuse, Overtaken, shared, history
    <3>2. \/ Replay(t) \/ Failure(t) \/ \E e : Commit(t, e)
          \/ Refuse(t) \/ Overtaken(t) \/ UNCHANGED <<shared, history>>
      BY <2>8 DEF First, GiveUp, Publish
    <3> QED BY <2>1, <2>2, <2>3, <2>4, <3>1, <3>2
  <2>9. Open \/ UNCHANGED vars => UNCHANGED <<db, acked>>
    BY DEF Open, vars, shared, history
  <2> QED BY <1>2, <2>1, <2>5, <2>6, <2>7, <2>8, <2>9 DEF Next, Work
<1> QED BY <1>1, <1>2, Invariance, PTL DEF Spec, ImplementsLedger, Ledger!Spec

-----------------------------------------------------------------------------
(* The schema lock.                                                         *)

\* A thread without the lock has no transaction, and who holds it exclusively holds
\* it alone.
Locking ==
    \A t \in Threads :
        /\ th[t].holds = "none" <=> th[t].pc \in {"idle", "schema", "info"}
        /\ th[t].holds = "none" => th[t].snap = -1
        /\ th[t].holds = "write" => \A u \in Threads \ {t} : th[u].holds = "none"

\* Between two commits the sequence is that of the database, unless a commit was
\* uncertain; so it is for an exclusive transaction for as long as it is open.
Current ==
    /\ up /\ ~fenced /\ settle = None => db.seq = pubSeq
    /\ \A t \in Threads :
          th[t].holds = "write" /\ th[t].snap # -1 => th[t].snap = pubSeq \/ fenced

\* A step of t keeps both if t takes no lock, and moves the sequence only while it
\* holds one.
LEMMA ThreadStep ==
    ASSUME Inv, Locking, Current, NEW t \in Threads,
           \A u \in Threads \ {t} : th'[u] = th[u],
           th'[t].holds = "none" <=> th'[t].pc \in {"idle", "schema", "info"},
           th'[t].holds = "none" => th'[t].snap = -1,
           th'[t].holds \in {"none", th[t].holds},
           th'[t].holds = "write" /\ th'[t].snap # -1 => th'[t].snap = pubSeq' \/ fenced',
           pubSeq' # pubSeq => th[t].holds # "none",
           fenced => fenced',
           up' /\ ~fenced' /\ settle' = None => db'.seq = pubSeq'
    PROVE  Locking' /\ Current'
<1>1. ASSUME NEW v \in Threads
      PROVE  /\ th'[v].holds = "none" <=> th'[v].pc \in {"idle", "schema", "info"}
             /\ th'[v].holds = "none" => th'[v].snap = -1
             /\ th'[v].holds \in {"none", th[v].holds}
  BY DEF Locking
<1>2. ASSUME NEW v \in Threads, th'[v].holds = "write", NEW u \in Threads \ {v}
      PROVE  th'[u].holds = "none"
  <2>1. th[v].holds = "write"
    BY <1>1, <1>2
  <2>2. th[u].holds = "none"
    BY <2>1 DEF Locking
  <2> QED BY <1>1, <2>2
<1>3. ASSUME NEW v \in Threads, th'[v].holds = "write", th'[v].snap # -1
      PROVE  th'[v].snap = pubSeq' \/ fenced'
  <2>1. CASE v = t
    BY <1>3, <2>1
  <2>2. CASE v # t
    <3>1. th'[v] = th[v] /\ th[t].holds = "none"
      BY <1>3, <2>2 DEF Locking
    <3> QED BY <1>3, <3>1 DEF Current
  <2> QED BY <2>1, <2>2
<1> QED BY <1>1, <1>2, <1>3 DEF Locking, Current

\* A call that returns gives everything back.
LEMMA LeavesAlone ==
    ASSUME Inv, Locking, Current, NEW t \in Threads, Leave(t),
           pubSeq' # pubSeq => th[t].holds # "none", fenced => fenced',
           up' /\ ~fenced' /\ settle' = None => db'.seq = pubSeq'
    PROVE  Locking' /\ Current'
<1>1. th'[t] = IdleThread /\ \A u \in Threads \ {t} : th'[u] = th[u]
  BY DEF Leave, Inv, TypeOK
<1>2. IdleThread.holds = "none" /\ IdleThread.pc = "idle" /\ IdleThread.snap = -1
  BY DEF IdleThread
<1> QED BY <1>1, <1>2, ThreadStep

LEMMA ReturnsAlone ==
    ASSUME Inv, Locking, Current, NEW t \in Threads, Leave(t),
           UNCHANGED <<up, pubSeq, db, settle>>, fenced => fenced'
    PROVE  Locking' /\ Current'
BY LeavesAlone DEF Current

\* A call that goes on with the locks and the transaction it has.
LEMMA MovesAlone ==
    ASSUME Inv, Locking, Current, NEW t \in Threads,
           \A u \in Threads \ {t} : th'[u] = th[u],
           th'[t].holds = th[t].holds, th'[t].snap \in {th[t].snap, -1},
           th'[t].pc \in {"idle", "schema", "info"} <=> th[t].pc \in {"idle", "schema", "info"},
           pubSeq' = pubSeq, fenced' = fenced,
           up' /\ ~fenced' /\ settle' = None => db'.seq = pubSeq'
    PROVE  Locking' /\ Current'
<1>1. /\ th'[t].holds = "none" <=> th'[t].pc \in {"idle", "schema", "info"}
      /\ th'[t].holds = "none" => th'[t].snap = -1
      /\ th'[t].holds = "write" /\ th'[t].snap # -1 => th'[t].snap = pubSeq' \/ fenced'
  BY DEF Locking, Current
<1> QED BY <1>1, ThreadStep

\* A commit is pending until it is settled.
LEMMA CommitsAlone ==
    ASSUME Inv, Locking, Current, NEW t \in Threads, NEW e \in Entries, Commit(t, e),
           db.seq < Limit, th[t].pc \in {"first", "bad", "exhausted", "publish"}
    PROVE  Locking' /\ Current'
<1>1. /\ \A u \in Threads \ {t} : th'[u] = th[u]
      /\ th'[t].holds = th[t].holds /\ th'[t].snap = th[t].snap /\ th'[t].pc = "settle"
      /\ pubSeq' = pubSeq /\ fenced' = fenced
  BY DEF Commit, Inv, TypeOK, Calls
<1>2. PICK s \in BOOLEAN :
        settle' = [by |-> t, receipt |-> Receipt(e, Published(db, e).seq), sure |-> s]
  BY DEF Commit
<1>3. Receipt(e, Published(db, e).seq) \in Receipts
  <2>1. Published(db, e).seq \in 1..Limit
    BY ConstantAssumption DEF Published, Inv, TypeOK, Databases
  <2> QED BY <2>1 DEF Receipts
<1>4. settle' # None
  BY <1>2, <1>3, SettlementAssumption
<1> QED BY <1>1, <1>4, MovesAlone

LEMMA FailsAlone ==
    ASSUME Inv, Locking, Current, NEW t \in Threads, Failure(t), Unrecorded(th[t].req),
           th[t].pc \in {"first", "bad", "exhausted", "publish"}
    PROVE  Locking' /\ Current'
<1>1. [req |-> th[t].req, ok |-> FALSE, base |-> pubSeq] \in Entries
  BY DEF Inv, TypeOK, Control, Entries
<1>2. db.seq < Limit
  BY ConstantAssumption DEF Failure, Unrecorded, InPosition, Inv, TypeOK
<1> QED BY <1>1, <1>2, CommitsAlone DEF Failure

LEMMA RepliesAlone ==
    ASSUME Inv, Locking, Current, NEW t \in Threads, Replay(t) \/ Refuse(t)
    PROVE  Locking' /\ Current'
BY ReturnsAlone DEF Replay, Refuse, shared

LEMMA AloneStep ==
    ASSUME Inv, Locking, Current, [Next]_vars
    PROVE  Locking' /\ Current'
<1> DEFINE Off == {"idle", "schema", "info"}
<1>t. th \in [Threads -> Calls] /\ \A t \in Threads : th[t] \in Calls
  BY DEF Inv, TypeOK
<1>1. ASSUME NEW t \in Threads, NEW r \in Requests, Start(t, r) PROVE Locking' /\ Current'
  <2>1. /\ th[t].pc = "idle" /\ UNCHANGED <<up, fenced, pubSeq, db, settle>>
        /\ \A u \in Threads \ {t} : th'[u] = th[u]
        /\ th'[t].holds = th[t].holds /\ th'[t].snap = th[t].snap
        /\ th'[t].pc \in {"info", "schema"}
    BY <1>t, <1>1 DEF Start, shared, Calls
  <2> QED BY <2>1, MovesAlone DEF Current
<1>2. ASSUME NEW t \in Threads, LockCheck(t) \/ LockBusy(t) PROVE Locking' /\ Current'
  <2>1. /\ UNCHANGED <<up, fenced, pubSeq, db, settle>>
        /\ \A u \in Threads \ {t} : th'[u] = th[u]
        /\ th'[t].holds = th[t].holds /\ th'[t].snap = th[t].snap /\ th'[t].pc = th[t].pc
    BY <1>t, <1>2 DEF LockCheck, LockBusy, shared, Calls
  <2> QED BY <2>1, MovesAlone DEF Current
<1>3. ASSUME NEW t \in Threads, LockRefused(t) \/ BeginFails(t) \/ Read(t) \/ Info(t)
      PROVE Locking' /\ Current'
  BY <1>3, ReturnsAlone DEF LockRefused, BeginFails, Read, Info, shared
<1>4. ASSUME NEW t \in Threads, StorageError(t) PROVE Locking' /\ Current'
  BY <1>4, ReturnsAlone DEF StorageError
<1>5. ASSUME NEW t \in Threads, SchemaLock(t) PROVE Locking' /\ Current'
  <2>1. /\ UNCHANGED <<up, fenced, pubSeq, db, settle>> /\ th[t].pc = "schema" /\ SchemaFree(t)
        /\ \A u \in Threads \ {t} : th'[u] = th[u]
        /\ th'[t].holds = (IF th[t].excl THEN "write" ELSE "read")
        /\ th'[t].snap = th[t].snap /\ th'[t].pc \in {"read", "first"}
    BY <1>t, <1>5 DEF SchemaLock, shared, Calls
  <2>2. th[t].snap = -1
    BY <2>1 DEF Locking
  <2>3. ASSUME NEW v \in Threads
        PROVE  /\ th'[v].holds = "none" <=> th'[v].pc \in Off
               /\ th'[v].holds = "none" => th'[v].snap = -1
    BY <2>1 DEF Locking
  <2>4. ASSUME NEW v \in Threads, th'[v].holds = "write", NEW u \in Threads \ {v}
        PROVE  th'[u].holds = "none"
    <3>1. CASE v = t
      BY <2>1, <2>4, <3>1 DEF SchemaFree
    <3>2. CASE v # t
      <4>1. th[v].holds = "write"
        BY <2>1, <2>4, <3>2
      <4> QED BY <2>1, <4>1 DEF SchemaFree
    <3> QED BY <3>1, <3>2
  <2>5. ASSUME NEW v \in Threads, th'[v].holds = "write", th'[v].snap # -1
        PROVE  th'[v].snap = pubSeq' \/ fenced'
    BY <2>1, <2>2, <2>5 DEF Current
  <2> QED BY <2>1, <2>3, <2>4, <2>5 DEF Locking, Current
<1>6. ASSUME NEW t \in Threads, First(t) PROVE Locking' /\ Current'
  <2>1. CASE Replay(t) \/ Refuse(t)
    BY <2>1, RepliesAlone
  <2>2. CASE Unrecorded(th[t].req) /\ Failure(t)
    BY <1>6, <2>2, FailsAlone DEF First, Locked
  <2>3. CASE /\ th' = [th EXCEPT ![t].pc = IF th[t].req.kind = "bad" THEN "bad" ELSE "begin",
                                 ![t].checked = FALSE]
             /\ UNCHANGED <<shared, history>>
    <3>1. /\ UNCHANGED <<up, fenced, pubSeq, db, settle>> /\ th[t].pc = "first"
          /\ \A u \in Threads \ {t} : th'[u] = th[u]
          /\ th'[t].holds = th[t].holds /\ th'[t].snap = th[t].snap
          /\ th'[t].pc \in {"bad", "begin"}
      BY <1>t, <1>6, <2>3 DEF First, Locked, shared, Calls
    <3> QED BY <3>1, MovesAlone DEF Current
  <2> QED BY <1>6, <2>1, <2>2, <2>3 DEF First
<1>7. ASSUME NEW t \in Threads, GiveUp(t) PROVE Locking' /\ Current'
  <2>1. CASE Replay(t) \/ Refuse(t)
    BY <2>1, RepliesAlone
  <2>2. CASE Unrecorded(th[t].req) /\ Failure(t)
    BY <1>7, <2>2, FailsAlone DEF GiveUp, Locked
  <2> QED BY <1>7, <2>1, <2>2 DEF GiveUp
<1>8. ASSUME NEW t \in Threads, Begin(t) PROVE Locking' /\ Current'
  <2>1. /\ UNCHANGED <<up, fenced, pubSeq, db, settle>> /\ th[t].pc = "begin" /\ ~fenced
        /\ \A u \in Threads \ {t} : th'[u] = th[u]
        /\ th'[t].holds = th[t].holds /\ th'[t].snap = db.seq /\ th'[t].pc = "publish"
    BY <1>t, <1>8 DEF Begin, shared, Calls
  <2>2. th[t].holds = "write" => db.seq = pubSeq
    <3>1. ASSUME th[t].holds = "write", settle # None PROVE FALSE
      <4>1. settle.by \in Threads /\ th[settle.by].pc = "settle"
        BY <3>1 DEF Inv, Settlement, TypeOK
      <4> QED BY <2>1, <3>1, <4>1 DEF Locking
    <3>2. up
      BY <2>1 DEF Inv, Control
    <3> QED BY <2>1, <3>1, <3>2 DEF Current
  <2>3. /\ th'[t].holds = "none" <=> th'[t].pc \in Off
        /\ th'[t].holds # "none"
    BY <2>1 DEF Locking
  <2> QED BY <2>1, <2>2, <2>3, ThreadStep DEF Current
<1>9. ASSUME NEW t \in Threads, NeedExclusive(t) PROVE Locking' /\ Current'
  <2>1. /\ UNCHANGED <<up, fenced, pubSeq, db, settle>>
        /\ \A u \in Threads \ {t} : th'[u] = th[u]
        /\ th'[t].holds = "none" /\ th'[t].snap = -1 /\ th'[t].pc = "schema"
    BY <1>t, <1>9 DEF NeedExclusive, shared, IdleThread
  <2> QED BY <2>1, ThreadStep DEF Current
<1>10. ASSUME NEW t \in Threads, Publish(t) PROVE Locking' /\ Current'
  <2>1. CASE Replay(t) \/ Refuse(t)
    BY <2>1, RepliesAlone
  <2>2. CASE Unrecorded(th[t].req) /\ Failure(t)
    BY <1>10, <2>2, FailsAlone DEF Publish, Locked
  <2>3. CASE Overtaken(t)
    <3>1. /\ UNCHANGED <<up, fenced, pubSeq, db, settle>> /\ th[t].pc = "publish"
          /\ \A u \in Threads \ {t} : th'[u] = th[u]
          /\ th'[t].holds = th[t].holds /\ th'[t].snap = -1
          /\ th'[t].pc \in {"exhausted", "begin"}
      BY <1>t, <1>10, <2>3 DEF Publish, Locked, Overtaken, shared, Calls
    <3> QED BY <3>1, MovesAlone DEF Current
  <2>4. CASE /\ Unrecorded(th[t].req) /\ th[t].snap = pubSeq /\ db.seq = th[t].snap
             /\ Commit(t, [req |-> th[t].req, ok |-> TRUE, base |-> th[t].snap])
    <3>1. th[t].pc = "publish" /\ db.seq < Limit
      BY <1>10, <2>4, ConstantAssumption DEF Publish, Locked, Unrecorded, InPosition, Inv, TypeOK
    <3>2. [req |-> th[t].req, ok |-> TRUE, base |-> th[t].snap] \in Entries
      BY <2>4, <3>1 DEF Inv, TypeOK, Control, Entries
    <3> QED BY <2>4, <3>1, <3>2, CommitsAlone
  <2> QED BY <1>10, <2>1, <2>2, <2>3, <2>4 DEF Publish
<1>11. ASSUME NEW t \in Threads, Settle(t) PROVE Locking' /\ Current'
  <2>1. /\ Leave(t) /\ th[t].pc = "settle" /\ UNCHANGED <<up, db>> /\ settle # None
        /\ \/ settle.sure /\ pubSeq' = pubSeq + 1 /\ fenced' = fenced
           \/ fenced' /\ pubSeq' = pubSeq
    BY <1>11 DEF Settle
  <2>2. th[t].holds # "none"
    BY <2>1 DEF Locking
  <2>3. settle.sure => db.seq = pubSeq + 1
    BY <2>1 DEF Inv, Settlement
  <2> QED BY <2>1, <2>2, <2>3, LeavesAlone
<1>12. CASE Stop
  <2>1. ~up' /\ \A t \in Threads : th'[t] = IdleThread
    BY <1>12 DEF Stop, Idle
  <2>2. IdleThread.holds = "none" /\ IdleThread.pc = "idle" /\ IdleThread.snap = -1
    BY DEF IdleThread
  <2> QED BY <2>1, <2>2 DEF Locking, Current
<1>13. CASE Open
  <2>1. /\ pubSeq' = db.seq /\ db' = db /\ th' = th /\ ~up
    BY <1>13 DEF Open
  <2>2. \A t \in Threads : th[t].holds = "none"
    BY <2>1 DEF Locking, Inv, Control
  <2> QED BY <2>1, <2>2 DEF Locking, Current
<1>14. CASE UNCHANGED vars
  BY <1>14 DEF vars, shared, Locking, Current
<1> QED
  BY <1>1, <1>2, <1>3, <1>4, <1>5, <1>6, <1>7, <1>8, <1>9, <1>10, <1>11, <1>12, <1>13, <1>14
  DEF Next, Work

\* While a schema change holds its transaction no other transaction is open, and it
\* is not overtaken unless a commit was uncertain: query takes the schema lock
\* exclusively (lib.rs:240) and no publication is settled while it holds it.
THEOREM SchemaChangeIsAlone == Spec => []SchemaChangeAlone
<1>1. Init => Locking /\ Current
  <2> SUFFICES ASSUME Init PROVE Locking /\ Current
    OBVIOUS
  <2>1. db.seq = pubSeq /\ \A t \in Threads : th[t] = IdleThread
    BY DEF Init, Idle, EmptyDb
  <2>2. IdleThread.holds = "none" /\ IdleThread.pc = "idle" /\ IdleThread.snap = -1
    BY DEF IdleThread
  <2> QED BY <2>1, <2>2 DEF Locking, Current
<1>2. Locking /\ Current => SchemaChangeAlone
  BY DEF Locking, Current, SchemaChangeAlone
<1> QED BY <1>1, <1>2, AloneStep, Invariance, PTL DEF Spec
=============================================================================
