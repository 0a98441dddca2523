---------------------- MODULE ServicePublicationProofs ----------------------
(***************************************************************************)
(* Proofs, for every number of threads, set of requests, window, attempt   *)
(* bound and sequence limit, of the safety properties of                   *)
(* ServicePublication.                                                     *)
(***************************************************************************)
EXTENDS ServicePublication, TLAPS

\* A database whose receipts are its window, whose publications lie in their
\* requests' windows, never reuse an identity within W, and are serial.
Sound(d) ==
    /\ d.receipts = WindowOf(d.log, d.seq)
    /\ \A n \in 1..d.seq :
          d.log[n].req.after < n /\ n <= d.log[n].req.after + W
    /\ \A i, j \in 1..d.seq :
          (i < j /\ d.log[i].req.id = d.log[j].req.id) => j - i > W
    /\ \A n \in 1..d.seq : d.log[n].ok =>
          d.log[n].base = n - 1 /\ d.log[n].req.ifs \in {None, n - 1}

\* What a thread at a label knows of its request and its attempts.
Control ==
    \A t \in Threads :
        /\ th[t].pc # "idle" => up /\ th[t].req \in Requests
        /\ th[t].pc \in {"first", "bad", "begin", "publish", "exhausted", "settle"}
              => th[t].req \in Writes
        /\ th[t].pc = "schema" => th[t].req.kind # "info"
        /\ th[t].pc \in {"idle", "schema", "first"} => th[t].tries = 0
        /\ th[t].pc = "begin" => th[t].tries < Attempts

\* The mutex protocol: the holder of an uncertain or unapplied commit is the one
\* thread that settles it, and a sure commit is the one recoverable database.
Settlement ==
    settle # None =>
        /\ up
        /\ th[settle.by].pc = "settle"
        /\ settle.sure =>
              /\ recoverable = {db}
              /\ db.seq = pubSeq + 1
              /\ settle.receipt = Receipt(db.log[db.seq], db.seq)

\* Every database in question holds what has been published and confirmed.
Durable ==
    \A d \in Databanks :
        /\ pubSeq <= d.seq
        /\ told <= d.seq
        /\ \A n \in 1..pubSeq : d.log[n] = db.log[n]
        /\ \A c \in acked : c.seq <= d.seq /\ Receipt(d.log[c.seq], c.seq) = c

\* A running service is at most one publication behind any of them, and has
\* confirmed nothing beyond its own sequence.
Ahead ==
    up => /\ \A d \in Databanks : d.seq <= pubSeq + 1
          /\ \A c \in acked : c.seq <= pubSeq

Inv ==
    /\ TypeOK
    /\ Control
    /\ \A d \in Databanks : Sound(d)
    /\ Settlement
    /\ Durable
    /\ Ahead
    /\ recoverable # {}
    /\ ~up => recoverable = {db}

-----------------------------------------------------------------------------
\* A publication that follows the checks of query_locked keeps a database sound.
LEMMA PublishedIsSound ==
    ASSUME NEW d \in Databases, Sound(d), NEW e \in Entries,
           d.seq < Limit,
           \A c \in d.receipts : c.id # e.req.id,
           e.req.after <= d.seq, d.seq - e.req.after < W,
           e.ok => e.base = d.seq /\ e.req.ifs \in {None, d.seq}
    PROVE  /\ Published(d, e) \in Databases
           /\ Sound(Published(d, e))
           /\ Published(d, e).seq = d.seq + 1
           /\ \A n \in 1..d.seq : Published(d, e).log[n] = d.log[n]
           /\ Published(d, e).log[d.seq + 1] = e
<1> DEFINE new == Published(d, e)
<1>1. d.seq \in 0..Limit /\ d.log \in Seq(Entries) /\ d.seq = Len(d.log)
      /\ d.receipts \in SUBSET Receipts
  BY DEF Databases
<1>2. /\ new = [seq |-> new.seq, receipts |-> new.receipts, log |-> new.log]
      /\ new.seq = d.seq + 1
      /\ new.log = Append(d.log, e)
  BY DEF Published
<1>r. new.receipts = Retained(d, e)
  BY DEF Published
<1> HIDE DEF new
<1>3. /\ new.log \in Seq(Entries) /\ Len(new.log) = d.seq + 1
      /\ \A n \in 1..d.seq : new.log[n] = d.log[n]
      /\ new.log[d.seq + 1] = e
  BY <1>1, <1>2
<1>4. Receipt(e, d.seq + 1) \in Receipts
  BY <1>1, ConstantAssumption DEF Receipts
<1>5. new \in Databases
  <2>1. new.receipts \in SUBSET Receipts
    BY <1>1, <1>r, <1>4 DEF Retained
  <2>2. new.seq \in 0..Limit
    BY <1>1, <1>2, ConstantAssumption
  <2> QED BY <2>1, <2>2, <1>2, <1>3 DEF Databases
<1>6. \A n \in 1..(d.seq + 1) :
          new.log[n].req.after < n /\ n <= new.log[n].req.after + W
  <2>1. e.req.after \in Nat
    BY RequestAssumption, ConstantAssumption DEF Entries, Writes, RequestType
  <2>2. SUFFICES ASSUME NEW n \in 1..(d.seq + 1)
                 PROVE  new.log[n].req.after < n /\ n <= new.log[n].req.after + W
    OBVIOUS
  <2>3. CASE n = d.seq + 1
    BY <2>1, <2>3, <1>1, <1>3, ConstantAssumption
  <2>4. CASE n \in 1..d.seq
    BY <2>4, <1>3 DEF Sound
  <2> QED BY <2>3, <2>4, <1>1
<1>7. \A i, j \in 1..(d.seq + 1) :
          (i < j /\ new.log[i].req.id = new.log[j].req.id) => j - i > W
  <2>1. SUFFICES ASSUME NEW i \in 1..(d.seq + 1), NEW j \in 1..(d.seq + 1), i < j,
                        new.log[i].req.id = new.log[j].req.id
                 PROVE  j - i > W
    OBVIOUS
  <2>2. CASE j = d.seq + 1
    <3>1. i \in 1..d.seq /\ d.log[i].req.id = e.req.id
      BY <2>1, <2>2, <1>1, <1>3
    <3>2. SUFFICES ASSUME i > d.seq - W PROVE FALSE
      BY <2>2, <3>1, <1>1, ConstantAssumption
    <3>3. Receipt(d.log[i], i) \in d.receipts
      BY <3>1, <3>2 DEF Sound, WindowOf
    <3>4. Receipt(d.log[i], i).id = e.req.id
      BY <3>1 DEF Receipt
    <3> QED BY <3>3, <3>4
  <2>3. CASE j \in 1..d.seq
    <3>1. i \in 1..d.seq
      BY <2>1, <2>3, <1>1
    <3>2. d.log[i].req.id = d.log[j].req.id
      BY <2>1, <2>3, <3>1, <1>3
    <3> QED BY <2>1, <2>3, <3>1, <3>2 DEF Sound
  <2> QED BY <2>2, <2>3, <1>1
<1>8. \A n \in 1..(d.seq + 1) : new.log[n].ok =>
          new.log[n].base = n - 1 /\ new.log[n].req.ifs \in {None, n - 1}
  <2>1. SUFFICES ASSUME NEW n \in 1..(d.seq + 1), new.log[n].ok
                 PROVE  new.log[n].base = n - 1 /\ new.log[n].req.ifs \in {None, n - 1}
    OBVIOUS
  <2>2. CASE n = d.seq + 1
    BY <2>1, <2>2, <1>1, <1>3
  <2>3. CASE n \in 1..d.seq
    BY <2>1, <2>3, <1>3 DEF Sound
  <2> QED BY <2>2, <2>3, <1>1
<1>9. new.receipts = WindowOf(new.log, d.seq + 1)
  <2>1. ASSUME NEW c \in new.receipts
        PROVE  \E n \in {i \in 1..(d.seq + 1) : i > d.seq + 1 - W} :
                   c = Receipt(new.log[n], n)
    <3>1. CASE c = Receipt(e, d.seq + 1)
      <4>1. d.seq + 1 \in {i \in 1..(d.seq + 1) : i > d.seq + 1 - W}
        BY <1>1, ConstantAssumption
      <4>2. new.log[d.seq + 1] = e
        BY <1>1, <1>3
      <4> QED BY <3>1, <4>1, <4>2
    <3>2. CASE c \in d.receipts
      <4>1. PICK n \in 1..d.seq : c = Receipt(d.log[n], n)
        BY <3>2 DEF Sound, WindowOf
      <4>2. c.seq = n /\ c.seq > d.seq + 1 - W
        BY <4>1, <1>r DEF Receipt, Retained
      <4> QED BY <4>1, <4>2, <1>1, <1>3
    <3> QED BY <3>1, <3>2, <1>r DEF Retained
  <2>2. ASSUME NEW n \in 1..(d.seq + 1), n > d.seq + 1 - W
        PROVE  Receipt(new.log[n], n) \in new.receipts
    <3>1. Receipt(new.log[n], n).seq = n
      BY DEF Receipt
    <3>2. CASE n = d.seq + 1
      BY <2>2, <3>1, <3>2, <1>3, <1>r DEF Retained
    <3>3. CASE n \in 1..d.seq
      <4>1. Receipt(d.log[n], n) \in d.receipts
        BY <2>2, <3>3, <1>1, ConstantAssumption DEF Sound, WindowOf
      <4> QED BY <2>2, <3>1, <3>3, <4>1, <1>3, <1>r DEF Retained
    <3> QED BY <3>2, <3>3, <1>1
  <2>3. ASSUME NEW c \in new.receipts PROVE c \in WindowOf(new.log, d.seq + 1)
    <3>1. PICK n \in {i \in 1..(d.seq + 1) : i > d.seq + 1 - W} :
              c = Receipt(new.log[n], n)
      BY <2>1, <2>3
    <3> QED BY <3>1, <1>1, ConstantAssumption DEF WindowOf
  <2>4. ASSUME NEW c \in WindowOf(new.log, d.seq + 1) PROVE c \in new.receipts
    <3>1. PICK n \in {i \in 1..(d.seq + 1) : i > d.seq + 1 - W} :
              c = Receipt(new.log[n], n)
      BY <2>4, <1>1, ConstantAssumption DEF WindowOf
    <3> QED BY <3>1, <2>2
  <2> QED BY <2>3, <2>4
<1>10. Sound(new)
  BY <1>2, <1>6, <1>7, <1>8, <1>9 DEF Sound
<1> QED BY <1>2, <1>3, <1>5, <1>10 DEF new

-----------------------------------------------------------------------------
\* A call that is not settling moves on without touching the shared state.
LEMMA LocalStep ==
    ASSUME Inv, UNCHANGED <<shared, history>>, NEW t \in Threads,
           th[t].pc # "settle", NEW new \in Calls,
           th' = [th EXCEPT ![t] = new],
           Control'
    PROVE  Inv'
<1>1. th' \in [Threads -> Calls]
  BY DEF Inv, TypeOK
<1>2. TypeOK'
  BY <1>1 DEF Inv, TypeOK, shared, history
<1>3. Databanks' = Databanks
  BY DEF Databanks, shared
<1>4. Settlement'
  BY DEF Inv, Settlement, TypeOK, shared
<1>5. Durable' /\ Ahead'
  BY <1>3 DEF Inv, Durable, Ahead, shared, history
<1> QED BY <1>2, <1>3, <1>4, <1>5 DEF Inv, shared

\* A call returns: what it held is dropped.  It may have raised the fence, or told
\* a sequence that every database in question has reached.
LEMMA ReturnStep ==
    ASSUME Inv, NEW t \in Threads, th[t].pc # "settle", Leave(t),
           UNCHANGED <<up, pubSeq, db, recoverable, settle, acked>>,
           fenced' \in BOOLEAN, told' \in 0..Limit, readTold' \in 0..Limit,
           \A d \in Databanks : told' <= d.seq
    PROVE  Inv'
<1>1. IdleThread \in Calls
  BY ConstantAssumption DEF IdleThread, Calls, LockWaits
<1>2. TypeOK'
  BY <1>1 DEF Inv, TypeOK, Leave
<1>3. Control'
  BY DEF Inv, Control, Leave, TypeOK, IdleThread
<1>4. Databanks' = Databanks
  BY DEF Databanks
<1>5. Settlement'
  BY DEF Inv, Settlement, TypeOK, Leave
<1>6. Durable' /\ Ahead'
  BY <1>4 DEF Inv, Durable, Ahead
<1> QED BY <1>2, <1>3, <1>4, <1>5, <1>6 DEF Inv

LEMMA LeaveStep ==
    ASSUME Inv, UNCHANGED <<shared, history>>, NEW t \in Threads,
           th[t].pc # "settle", Leave(t)
    PROVE  Inv'
<1>1. UNCHANGED <<up, fenced, pubSeq, db, recoverable, settle, acked, told, readTold>>
  BY DEF shared, history
<1>2. fenced' \in BOOLEAN /\ told' \in 0..Limit /\ readTold' \in 0..Limit
  BY <1>1 DEF Inv, TypeOK
<1>3. \A d \in Databanks : told' <= d.seq
  BY <1>1 DEF Inv, Durable
<1> QED BY <1>1, <1>2, <1>3, ReturnStep

LEMMA InitInv == Init => Inv
<1> SUFFICES ASSUME Init PROVE Inv
  OBVIOUS
<1>1. EmptyDb \in Databases
  <2>1. <<>> \in Seq(Entries) /\ Len(<<>>) = 0
    OBVIOUS
  <2> QED BY <2>1, ConstantAssumption DEF EmptyDb, Databases
<1>2. IdleThread \in Calls
  BY ConstantAssumption DEF IdleThread, Calls, LockWaits
<1>3. TypeOK
  <2>1. th \in [Threads -> Calls]
    BY <1>2 DEF Init, Idle
  <2>2. 0 \in 0..Limit
    BY ConstantAssumption
  <2> QED BY <1>1, <2>1, <2>2 DEF Init, TypeOK
<1>4. Sound(EmptyDb)
  <2>1. EmptyDb.seq = 0 /\ EmptyDb.receipts = {} /\ EmptyDb.log = <<>>
    BY DEF EmptyDb
  <2>2. 1..0 = {}
    OBVIOUS
  <2>3. \A c : c \notin WindowOf(<<>>, 0)
    BY <2>2 DEF WindowOf
  <2> QED BY <2>1, <2>2, <2>3 DEF Sound
<1>5. Databanks = {EmptyDb}
  BY DEF Databanks, Init
<1>6. Control
  BY DEF Init, Control, Idle, IdleThread
<1>7. Durable /\ Ahead
  BY <1>5 DEF Init, Durable, Ahead, EmptyDb
<1> QED BY <1>3, <1>4, <1>5, <1>6, <1>7 DEF Init, Inv, Settlement

-----------------------------------------------------------------------------
\* Committing an entry that query_locked let through.
LEMMA CommitStep ==
    ASSUME Inv, up, PubFree, NEW t \in Threads, th[t].req \in Writes,
           NEW e \in Entries, e.req = th[t].req,
           Unrecorded(th[t].req), pubSeq = db.seq,
           e.ok => e.base = db.seq /\ ~SequenceChanged(th[t].req),
           Commit(t, e)
    PROVE  Inv'
<1> DEFINE new == Published(db, e)
           rc == Receipt(e, new.seq)
<1>1. db \in Databases /\ Sound(db) /\ pubSeq \in 0..Limit
  BY DEF Inv, TypeOK, Databanks
<1>2. /\ db.seq < Limit
      /\ \A c \in db.receipts : c.id # e.req.id
      /\ e.req.after <= db.seq /\ db.seq - e.req.after < W
  BY <1>1, ConstantAssumption DEF Unrecorded, InPosition, ReceiptsOf
<1>3. e.ok => e.base = db.seq /\ e.req.ifs \in {None, db.seq}
  BY DEF SequenceChanged
<1>4. /\ new \in Databases
      /\ Sound(new)
      /\ new.seq = db.seq + 1
      /\ \A n \in 1..db.seq : new.log[n] = db.log[n]
      /\ new.log[db.seq + 1] = e
  BY <1>1, <1>2, <1>3, PublishedIsSound
<1>5. rc \in Receipts /\ rc = Receipt(new.log[new.seq], new.seq)
  <2>1. new.seq \in 1..Limit
    BY <1>1, <1>2, <1>4, ConstantAssumption
  <2> QED BY <2>1, <1>4 DEF Receipts
<1>6. /\ db' \in {db, new}
      /\ recoverable' \subseteq recoverable \cup {new}
      /\ recoverable' # {}
      /\ settle' \in [by : {t}, receipt : {rc}, sure : BOOLEAN]
      /\ settle'.sure => db' = new /\ recoverable' = {new}
      /\ th' = [th EXCEPT ![t].pc = "settle"]
      /\ UNCHANGED <<up, fenced, pubSeq, history>>
  <2>1. /\ th' = [th EXCEPT ![t].pc = "settle"]
        /\ UNCHANGED <<up, fenced, pubSeq, history>>
    BY DEF Commit
  <2>2. \/ /\ db' = new /\ recoverable' = {new}
           /\ settle' = [by |-> t, receipt |-> rc, sure |-> TRUE]
        \/ /\ settle' = [by |-> t, receipt |-> rc, sure |-> FALSE]
           /\ db' \in {db, new}
           /\ recoverable' = recoverable \/ recoverable' = recoverable \cup {new}
    BY DEF Commit
  <2> HIDE DEF new, rc
  <2>3. settle' \in [by : {t}, receipt : {rc}, sure : BOOLEAN]
    <3>1. CASE settle' = [by |-> t, receipt |-> rc, sure |-> TRUE]
      BY <3>1
    <3>2. CASE settle' = [by |-> t, receipt |-> rc, sure |-> FALSE]
      BY <3>2
    <3> QED BY <2>2, <3>1, <3>2
  <2>4. settle'.sure => db' = new /\ recoverable' = {new}
    BY <2>2
  <2>5. db' \in {db, new} /\ recoverable' \subseteq recoverable \cup {new}
    BY <2>2
  <2>6. recoverable' # {}
    BY <2>2 DEF Inv
  <2> QED BY <2>1, <2>3, <2>4, <2>5, <2>6
<1> HIDE DEF new, rc
<1>7. Databanks' \subseteq Databanks \cup {new}
  BY <1>6 DEF Databanks
<1>8. th' \in [Threads -> Calls] /\ th'[t].pc = "settle"
  BY <1>6 DEF Inv, TypeOK, Calls
<1>9. TypeOK'
  <2>1. db' \in Databases /\ recoverable' \subseteq Databases
    BY <1>1, <1>4, <1>6 DEF Inv, TypeOK
  <2>2. settle' \in [by : Threads, receipt : Receipts, sure : BOOLEAN]
    BY <1>5, <1>6
  <2> QED BY <2>1, <2>2, <1>6, <1>8 DEF Inv, TypeOK, history
<1>10. Control'
  <2>1. \A u \in Threads : u # t => th'[u] = th[u]
    BY <1>6 DEF Inv, TypeOK
  <2>2. th'[t].pc = "settle" /\ th'[t].req = th[t].req
    BY <1>6 DEF Inv, TypeOK, Calls
  <2> QED BY <1>6, <2>1, <2>2 DEF Inv, Control, Writes
<1>11. \A d \in Databanks' : Sound(d)
  BY <1>4, <1>7 DEF Inv
<1>12. Settlement'
  BY <1>4, <1>5, <1>6, <1>8 DEF Settlement
<1>13. Durable'
  <2>1. SUFFICES ASSUME NEW d \in Databanks \cup {new}
                 PROVE  /\ pubSeq <= d.seq /\ told <= d.seq
                        /\ \A n \in 1..pubSeq : d.log[n] = db'.log[n]
                        /\ \A c \in acked :
                              c.seq <= d.seq /\ Receipt(d.log[c.seq], c.seq) = c
    BY <1>6, <1>7 DEF Durable, history
  <2>2. \A n \in 1..pubSeq : db'.log[n] = db.log[n]
    BY <1>4, <1>6
  <2>3. CASE d \in Databanks
    BY <2>2, <2>3 DEF Inv, Durable
  <2>4. CASE d = new
    <3>1. /\ told <= db.seq
          /\ \A c \in acked : c.seq <= db.seq /\ Receipt(db.log[c.seq], c.seq) = c
      BY DEF Inv, Durable, Databanks
    <3>2. told \in 0..Limit /\ \A c \in acked : c.seq \in 1..Limit
      BY DEF Inv, TypeOK, Receipts, Receipt
    <3>3. \A c \in acked : Receipt(new.log[c.seq], c.seq) = c
      BY <1>1, <1>4, <3>1, <3>2 DEF Databases
    <3> QED BY <1>1, <1>4, <2>2, <2>4, <3>1, <3>2, <3>3 DEF Databases
  <2> QED BY <2>3, <2>4
<1>14. Ahead'
  <2>1. \A d \in Databanks \cup {new} : d.seq <= pubSeq + 1
    BY <1>1, <1>4 DEF Inv, Ahead
  <2> QED BY <2>1, <1>6, <1>7 DEF Inv, Ahead, history
<1> QED BY <1>6, <1>9, <1>10, <1>11, <1>12, <1>13, <1>14 DEF Inv

\* The receipt of an error is such an entry.
LEMMA FailureStep ==
    ASSUME Inv, PubFree, NEW t \in Threads, th[t].pc # "idle", th[t].req \in Writes,
           Unrecorded(th[t].req), Failure(t)
    PROVE  Inv'
<1> DEFINE e == [req |-> th[t].req, ok |-> FALSE, base |-> pubSeq]
<1>1. e \in Entries /\ e.req = th[t].req /\ ~e.ok
  BY DEF Inv, TypeOK, Entries
<1>2. pubSeq = db.seq /\ Commit(t, e)
  BY DEF Failure
<1>3. up
  BY DEF Inv, Control
<1> HIDE DEF e
<1> QED BY <1>1, <1>2, <1>3, CommitStep

\* A replayed receipt is a publication every database in question holds.
LEMMA ReplayStep ==
    ASSUME Inv, NEW t \in Threads, th[t].pc # "settle", Replay(t)
    PROVE  Inv'
<1>1. PICK c \in Replayable(th[t].req) :
          acked' = acked \cup {c} /\ told' = Larger(told, c.seq)
  BY DEF Replay, Told
<1>2. db \in Databases /\ Sound(db) /\ pubSeq \in 0..Limit
  BY DEF Inv, TypeOK, Databanks
<1>3. c \in db.receipts /\ c.seq <= pubSeq
  BY DEF Replayable, ReceiptsOf
<1>4. c.seq \in 1..Limit /\ c \in Receipts
  BY <1>2, <1>3 DEF Databases, Receipts, Receipt
<1>5. Receipt(db.log[c.seq], c.seq) = c
  BY <1>2, <1>3 DEF Sound, WindowOf, Receipt
<1>6. UNCHANGED <<shared, readTold>> /\ Databanks' = Databanks
  BY DEF Replay, Databanks, shared
<1>7. IdleThread \in Calls
  BY ConstantAssumption DEF IdleThread, Calls, LockWaits
<1>8. TypeOK'
  BY <1>1, <1>4, <1>6, <1>7 DEF Inv, TypeOK, Replay, Leave, shared, Larger
<1>9. Control'
  BY <1>6 DEF Inv, Control, Replay, Leave, TypeOK, IdleThread, shared
<1>10. Settlement'
  BY <1>6 DEF Inv, Settlement, Replay, Leave, TypeOK, shared
<1>11. Durable'
  <2>1. SUFFICES ASSUME NEW d \in Databanks
                 PROVE  /\ pubSeq <= d.seq /\ told' <= d.seq
                        /\ \A n \in 1..pubSeq : d.log[n] = db.log[n]
                        /\ \A x \in acked' :
                              x.seq <= d.seq /\ Receipt(d.log[x.seq], x.seq) = x
    BY <1>6 DEF Durable, shared
  <2>2. /\ pubSeq <= d.seq /\ told <= d.seq
        /\ \A n \in 1..pubSeq : d.log[n] = db.log[n]
        /\ \A x \in acked : x.seq <= d.seq /\ Receipt(d.log[x.seq], x.seq) = x
    BY DEF Inv, Durable
  <2>3. d.seq \in 0..Limit /\ c.seq <= d.seq
    BY <1>2, <1>3, <1>4, <2>2 DEF Inv, TypeOK, Databanks, Databases
  <2>4. d.log[c.seq] = db.log[c.seq]
    BY <1>2, <1>3, <1>4, <2>2
  <2>5. Receipt(d.log[c.seq], c.seq) = c
    BY <1>5, <2>4
  <2> QED BY <1>1, <2>2, <2>3, <2>5 DEF Larger
<1>12. Ahead'
  BY <1>1, <1>3, <1>6 DEF Inv, Ahead, shared
<1> QED BY <1>6, <1>8, <1>9, <1>10, <1>11, <1>12 DEF Inv, shared

-----------------------------------------------------------------------------
LEMMA StepInv == Inv /\ [Next]_vars => Inv'
<1> SUFFICES ASSUME Inv, [Next]_vars PROVE Inv'
  OBVIOUS
<1>t. th \in [Threads -> Calls] /\ db.seq \in 0..Limit /\ pubSeq \in 0..Limit
  BY DEF Inv, TypeOK, Databases
<1>i. IdleThread \in Calls
  BY ConstantAssumption DEF IdleThread, Calls, LockWaits
<1>1. ASSUME NEW t \in Threads, NEW r \in Requests, Start(t, r) PROVE Inv'
  <2>1. PICK x \in {"info", "schema"}, y \in BOOLEAN :
            /\ x = IF r.kind = "info" THEN "info" ELSE "schema"
            /\ th' = [th EXCEPT ![t].pc = x, ![t].req = r, ![t].excl = y]
    <3>1. (r.kind \in {"schema", "bad"}) \in BOOLEAN
      OBVIOUS
    <3>2. (IF r.kind = "info" THEN "info" ELSE "schema") \in {"info", "schema"}
      OBVIOUS
    <3> QED BY <1>1, <3>1, <3>2, Zenon DEF Start
  <2> DEFINE new == [th[t] EXCEPT !.pc = x, !.req = r, !.excl = y]
  <2>2. new \in Calls /\ th' = [th EXCEPT ![t] = new]
    BY <2>1, <1>t, ZenonT(60) DEF Calls, LockWaits
  <2>3. \A u \in Threads : u # t => th'[u] = th[u]
    BY <2>1, <1>t
  <2>4. th'[t] = new /\ up' /\ new.pc = x /\ new.req = r /\ new.tries = 0
    BY <1>1, <2>2, <1>t DEF Start, Inv, Control, Calls, shared
  <2>5. Control'
    BY <2>1, <2>3, <2>4, ZenonT(60) DEF Inv, Control
  <2> QED BY <1>1, <2>2, <2>5, LocalStep DEF Start
<1>2. ASSUME NEW t \in Threads, LockCheck(t) PROVE Inv'
  <2>1. [th[t] EXCEPT !.checked = TRUE] \in Calls
    BY <1>t DEF Calls
  <2>2. Control'
    BY <1>2, <1>t DEF LockCheck, Inv, Control, Calls, shared
  <2> QED BY <1>2, <1>t, <2>1, <2>2, LocalStep DEF LockCheck, LockWaits
<1>3. ASSUME NEW t \in Threads, LockRefused(t) PROVE Inv'
  BY <1>3, LeaveStep DEF LockRefused, LockWaits
<1>4. ASSUME NEW t \in Threads, LockBusy(t) PROVE Inv'
  <2>1. [th[t] EXCEPT !.checked = FALSE] \in Calls
    BY <1>t DEF Calls
  <2>2. Control'
    BY <1>4, <1>t DEF LockBusy, Inv, Control, Calls, shared
  <2> QED BY <1>4, <1>t, <2>1, <2>2, LocalStep DEF LockBusy, LockWaits
<1>5. ASSUME NEW t \in Threads, SchemaLock(t) PROVE Inv'
  <2> DEFINE new == [th[t] EXCEPT !.holds = IF th[t].excl THEN "write" ELSE "read",
                                  !.pc = IF th[t].req.kind = "read" THEN "read" ELSE "first",
                                  !.checked = FALSE]
  <2>1. new \in Calls /\ th' = [th EXCEPT ![t] = new]
    BY <1>5, <1>t DEF SchemaLock, Calls, LockWaits
  <2>2. th[t].req.kind # "read" => th[t].req \in Writes
    BY <1>5, RequestAssumption DEF SchemaLock, Inv, Control, Writes, RequestType, Kinds
  <2>3. up' /\ th[t].tries = 0 /\ th[t].req \in Requests /\ th[t].pc = "schema"
        /\ UNCHANGED <<shared, history>>
    BY <1>5 DEF SchemaLock, Inv, Control, shared
  <2>4. Control'
    <3>1. \A u \in Threads : u # t => th'[u] = th[u]
      BY <2>1, <1>t
    <3>2. /\ th'[t].pc = IF th[t].req.kind = "read" THEN "read" ELSE "first"
          /\ th'[t].req = th[t].req /\ th'[t].tries = th[t].tries
      BY <2>1, <1>t DEF Calls
    <3>3. th'[t].pc \in {"read", "first"} /\ (th'[t].pc = "first" => th'[t].req \in Writes)
      BY <2>2, <3>2
    <3> HIDE DEF new
    <3> QED BY <2>3, <3>1, <3>2, <3>3 DEF Inv, Control
  <2> HIDE DEF new
  <2> QED BY <2>1, <2>3, <2>4, LocalStep
<1>6. ASSUME NEW t \in Threads, First(t) PROVE Inv'
  <2>1. th[t].pc = "first" /\ PubFree /\ th[t].req \in Writes /\ th[t].tries = 0
    BY <1>6 DEF First, Locked, Inv, Control
  <2>2. CASE Replay(t)
    BY <2>1, <2>2, ReplayStep
  <2>3. CASE Refuse(t)
    BY <2>1, <2>3, LeaveStep DEF Refuse
  <2>4. CASE Unrecorded(th[t].req) /\ Failure(t)
    BY <2>1, <2>4, FailureStep
  <2>5. CASE /\ th' = [th EXCEPT ![t].pc = IF th[t].req.kind = "bad" THEN "bad" ELSE "begin",
                                 ![t].checked = FALSE]
             /\ UNCHANGED <<shared, history>>
    <3> DEFINE new == [th[t] EXCEPT !.pc = IF th[t].req.kind = "bad" THEN "bad" ELSE "begin",
                                    !.checked = FALSE]
    <3>1. new \in Calls /\ th' = [th EXCEPT ![t] = new]
      BY <2>5, <1>t, ZenonT(60) DEF Calls, LockWaits
    <3>2. Control'
      <4>1. \A u \in Threads : u # t => th'[u] = th[u]
        BY <3>1, <1>t
      <4>2. /\ th'[t].pc \in {"bad", "begin"} /\ th'[t].req = th[t].req
            /\ th'[t].tries = th[t].tries
        BY <3>1, <1>t DEF Calls
      <4>3. up' /\ th[t].req \in Requests
        BY <2>1, <2>5 DEF Inv, Control, shared
      <4> HIDE DEF new
      <4> QED BY <2>1, <4>1, <4>2, <4>3, ConstantAssumption DEF Inv, Control
    <3> HIDE DEF new
    <3> QED BY <2>1, <2>5, <3>1, <3>2, LocalStep
  <2> QED BY <1>6, <2>2, <2>3, <2>4, <2>5 DEF First
<1>7. ASSUME NEW t \in Threads, GiveUp(t) PROVE Inv'
  <2>1. th[t].pc \in {"bad", "exhausted"} /\ PubFree /\ th[t].req \in Writes
    BY <1>7 DEF GiveUp, Locked, Inv, Control
  <2>2. CASE Replay(t)
    BY <2>1, <2>2, ReplayStep
  <2>3. CASE Refuse(t)
    BY <2>1, <2>3, LeaveStep DEF Refuse
  <2>4. CASE Unrecorded(th[t].req) /\ Failure(t)
    BY <2>1, <2>4, FailureStep
  <2> QED BY <1>7, <2>2, <2>3, <2>4 DEF GiveUp
<1>8. ASSUME NEW t \in Threads, Begin(t) PROVE Inv'
  <2>1. PICK x \in {"ok", "error"} :
            th' = [th EXCEPT ![t].pc = "publish", ![t].snap = db.seq,
                             ![t].result = x, ![t].tries = @ + 1]
    BY <1>8 DEF Begin
  <2> DEFINE new == [th[t] EXCEPT !.pc = "publish", !.snap = db.seq, !.result = x,
                                  !.tries = @ + 1]
  <2>2. th[t].tries < Attempts /\ th[t].tries \in 0..Attempts
    BY <1>8, <1>t DEF Begin, Inv, Control, Calls
  <2>3. new \in Calls /\ th' = [th EXCEPT ![t] = new]
    BY <2>1, <2>2, <1>t, ConstantAssumption DEF Calls, LockWaits
  <2>4. Control'
    BY <1>8, <2>1, <1>t DEF Begin, Inv, Control, Calls, shared
  <2> QED BY <1>8, <2>3, <2>4, LocalStep DEF Begin
<1>9. ASSUME NEW t \in Threads, NeedExclusive(t) PROVE Inv'
  <2> DEFINE new == [IdleThread EXCEPT !.pc = "schema", !.req = th[t].req, !.excl = TRUE]
  <2>1. new \in Calls /\ th' = [th EXCEPT ![t] = new]
    <3>1. new \in Calls
      BY <1>i, <1>t DEF Calls, LockWaits
    <3>2. th' = [th EXCEPT ![t] = new]
      BY <1>9 DEF NeedExclusive
    <3> QED BY <3>1, <3>2
  <2>2. th[t].req \in Writes
    BY <1>9 DEF NeedExclusive, Inv, Control
  <2>3. Control'
    <3>1. \A u \in Threads : u # t => th'[u] = th[u]
      BY <2>1, <1>t
    <3>2. /\ th'[t].pc = "schema" /\ th'[t].req = th[t].req /\ th'[t].tries = 0
          /\ up' = up /\ up
      BY <1>9, <2>1, <1>t DEF NeedExclusive, IdleThread, shared, Inv, Control
    <3>3. th[t].req \in Requests /\ th[t].req.kind # "info"
      BY <2>2 DEF Writes, WriteKinds
    <3> QED BY <3>1, <3>2, <3>3 DEF Inv, Control
  <2> QED BY <1>9, <2>1, <2>3, LocalStep DEF NeedExclusive
<1>10. ASSUME NEW t \in Threads, Publish(t) PROVE Inv'
  <2>1. th[t].pc = "publish" /\ PubFree /\ th[t].req \in Writes /\ up
    BY <1>10 DEF Publish, Locked, Inv, Control
  <2>2. CASE Replay(t)
    BY <2>1, <2>2, ReplayStep
  <2>3. CASE Refuse(t)
    BY <2>1, <2>3, LeaveStep DEF Refuse
  <2>4. CASE Unrecorded(th[t].req) /\ Failure(t)
    BY <2>1, <2>4, FailureStep
  <2>5. CASE Overtaken(t)
    <3> DEFINE new == [th[t] EXCEPT
            !.pc = IF th[t].tries = Attempts THEN "exhausted" ELSE "begin",
            !.snap = -1, !.checked = FALSE]
    <3>1. new \in Calls /\ th' = [th EXCEPT ![t] = new]
      <4>1. -1 \in -1..Limit
        BY ConstantAssumption
      <4>2. new \in Calls
        BY <1>t, <4>1, ZenonT(60) DEF Calls, LockWaits
      <4>3. th' = [th EXCEPT ![t] = new]
        BY <2>5, <1>t DEF Overtaken
      <4> QED BY <4>2, <4>3
    <3>2. th[t].tries \in 0..Attempts
      BY <1>t DEF Calls
    <3>3. Control'
      <4>1. \A u \in Threads : u # t => th'[u] = th[u]
        BY <3>1, <1>t
      <4>2. /\ th'[t].pc = IF th[t].tries = Attempts THEN "exhausted" ELSE "begin"
            /\ th'[t].req = th[t].req /\ th'[t].tries = th[t].tries /\ up'
        BY <2>1, <2>5, <3>1, <1>t DEF Overtaken, shared, Calls
      <4>3. th'[t].pc = "begin" => th'[t].tries < Attempts
        BY <3>2, <4>2, ConstantAssumption
      <4>4. th'[t].pc \in {"exhausted", "begin"} /\ th'[t].req \in Writes /\ th'[t].req \in Requests
        BY <2>1, <4>2 DEF Writes
      <4> QED BY <4>1, <4>2, <4>3, <4>4 DEF Inv, Control
    <3>4. UNCHANGED <<shared, history>>
      BY <2>5 DEF Overtaken
    <3> HIDE DEF new
    <3> QED BY <2>1, <3>1, <3>3, <3>4, LocalStep
  <2>6. CASE /\ Unrecorded(th[t].req) /\ ~SequenceChanged(th[t].req)
             /\ th[t].snap = pubSeq /\ db.seq = th[t].snap
             /\ Commit(t, [req |-> th[t].req, ok |-> TRUE, base |-> th[t].snap])
    <3> DEFINE e == [req |-> th[t].req, ok |-> TRUE, base |-> th[t].snap]
    <3>1. e \in Entries /\ e.req = th[t].req /\ e.base = db.seq
      BY <2>1, <2>6, <1>t DEF Entries
    <3>2. Commit(t, e) /\ pubSeq = db.seq
      BY <2>6
    <3> HIDE DEF e
    <3> QED BY <2>1, <2>6, <3>1, <3>2, CommitStep
  <2> QED BY <1>10, <2>2, <2>3, <2>4, <2>5, <2>6 DEF Publish
<1>11. ASSUME NEW t \in Threads, BeginFails(t) PROVE Inv'
  BY <1>11, LeaveStep DEF BeginFails
<1>12. ASSUME NEW t \in Threads, Read(t) PROVE Inv'
  <2>1. readTold' \in 0..Limit
    BY <1>12, <1>t DEF Read, Larger, Inv, TypeOK
  <2>2. UNCHANGED <<shared, acked, told>> /\ th[t].pc # "settle" /\ Leave(t)
    BY <1>12 DEF Read
  <2>3. fenced' \in BOOLEAN /\ told' \in 0..Limit /\ \A d \in Databanks : told' <= d.seq
    BY <2>2 DEF shared, Inv, TypeOK, Durable
  <2> QED BY <2>1, <2>2, <2>3, ReturnStep DEF shared
<1>13. ASSUME NEW t \in Threads, Info(t) PROVE Inv'
  <2>1. UNCHANGED <<shared, acked, readTold>> /\ th[t].pc # "settle" /\ Leave(t)
    BY <1>13 DEF Info, Locked
  <2>2. told' = Larger(told, pubSeq)
    BY <1>13 DEF Info, Told
  <2>3. fenced' \in BOOLEAN /\ told' \in 0..Limit /\ readTold' \in 0..Limit
    BY <2>1, <2>2, <1>t DEF shared, Inv, TypeOK, Larger
  <2>4. \A d \in Databanks : told' <= d.seq
    BY <2>2 DEF Inv, Durable, Larger
  <2> QED BY <2>1, <2>3, <2>4, ReturnStep DEF shared
<1>14. ASSUME NEW t \in Threads, StorageError(t) PROVE Inv'
  <2>1. /\ UNCHANGED <<up, pubSeq, db, recoverable, settle, acked, told, readTold>>
        /\ fenced' = TRUE /\ Leave(t) /\ th[t].pc # "settle"
    BY <1>14 DEF StorageError, Locked, history
  <2>2. told' \in 0..Limit /\ readTold' \in 0..Limit /\ \A d \in Databanks : told' <= d.seq
    BY <2>1 DEF Inv, TypeOK, Durable
  <2> QED BY <2>1, <2>2, ReturnStep
<1>15. ASSUME NEW t \in Threads, Settle(t) PROVE Inv'
  <2>1. /\ settle # None /\ settle \in [by : Threads, receipt : Receipts, sure : BOOLEAN]
        /\ settle.by = t /\ settle' = None
        /\ th' = [th EXCEPT ![t] = IdleThread]
        /\ UNCHANGED <<up, db, recoverable, readTold>> /\ up
    BY <1>15 DEF Settle, Leave, Inv, TypeOK, Settlement
  <2>2. Databanks' = Databanks /\ Settlement'
    BY <2>1 DEF Databanks, Settlement
  <2>3. Control'
    BY <2>1, <1>t DEF Inv, Control, IdleThread
  <2>4. CASE settle.sure
    <3>1. /\ pubSeq' = pubSeq + 1 /\ acked' = acked \cup {settle.receipt} /\ fenced' = fenced
          /\ told' = Larger(told, settle.receipt.seq)
      BY <1>15, <2>4 DEF Settle, Told
    <3>2. /\ recoverable = {db} /\ db.seq = pubSeq + 1
          /\ settle.receipt = Receipt(db.log[db.seq], db.seq)
      BY <2>1, <2>4 DEF Inv, Settlement
    <3>3. settle.receipt \in Receipts /\ settle.receipt.seq = db.seq
      BY <2>1, <3>2 DEF Receipt
    <3>4. told \in 0..Limit /\ told <= db.seq
      BY DEF Inv, TypeOK, Durable, Databanks
    <3>5. TypeOK'
      BY <1>t, <1>i, <2>1, <3>1, <3>2, <3>3, <3>4 DEF Inv, TypeOK, Larger
    <3>6. Durable'
      <4>1. Databanks' = {db} /\ db' = db /\ pubSeq' = db.seq /\ Databanks = {db}
        BY <2>1, <2>2, <3>1, <3>2 DEF Databanks
      <4>2. told' <= db.seq /\ pubSeq' <= db.seq
        BY <1>t, <3>1, <3>3, <3>4, <4>1 DEF Larger
      <4>3. \A c \in acked : c.seq <= db.seq /\ Receipt(db.log[c.seq], c.seq) = c
        BY <4>1 DEF Inv, Durable
      <4>4. \A c \in acked' : c.seq <= db.seq /\ Receipt(db.log[c.seq], c.seq) = c
        BY <1>t, <3>1, <3>2, <3>3, <4>3
      <4> QED BY <4>1, <4>2, <4>4 DEF Durable
    <3>7. Ahead'
      <4>1. pubSeq \in Int
        BY DEF Inv, TypeOK
      <4>2. \A d \in Databanks : d.seq = pubSeq'
        BY <3>1, <3>2 DEF Databanks
      <4>3. \A c \in acked : c.seq <= pubSeq /\ c.seq \in Int
        <5>1. \A c \in Receipts : c.seq \in Int
          BY DEF Receipts, Receipt
        <5> QED BY <2>1, <5>1 DEF Inv, TypeOK, Ahead
      <4>4. \A c \in acked' : c.seq <= pubSeq'
        BY <3>1, <3>2, <3>3, <4>1, <4>3
      <4>5. \A d \in Databanks' : d.seq <= pubSeq' + 1
        BY <2>2, <3>1, <4>1, <4>2
      <4> QED BY <4>4, <4>5 DEF Ahead
    <3> QED BY <2>1, <2>2, <2>3, <3>5, <3>6, <3>7 DEF Inv
  <2>5. CASE ~settle.sure
    <3>1. fenced' = TRUE /\ UNCHANGED <<pubSeq, acked, told>>
      BY <1>15, <2>5 DEF Settle
    <3>2. TypeOK'
      BY <1>t, <1>i, <2>1, <3>1 DEF Inv, TypeOK
    <3>3. Durable' /\ Ahead'
      BY <2>1, <2>2, <3>1 DEF Inv, Durable, Ahead
    <3> QED BY <2>1, <2>2, <2>3, <3>2, <3>3 DEF Inv
  <2> QED BY <2>4, <2>5
<1>16. CASE Stop
  <2>1. /\ db' \in recoverable /\ recoverable' = {db'} /\ settle' = None /\ pubSeq' = 0
        /\ fenced' = FALSE /\ up' = FALSE /\ UNCHANGED <<acked, told, readTold>>
        /\ th' = [t \in Threads |-> IdleThread]
    BY <1>16 DEF Stop, Idle, history
  <2>2. Databanks' = {db'} /\ db' \in Databanks
    BY <2>1 DEF Databanks
  <2>3. TypeOK'
    <3>1. th' \in [Threads -> Calls]
      BY <2>1, <1>i
    <3>2. 0 \in 0..Limit
      BY ConstantAssumption
    <3> QED BY <2>1, <3>1, <3>2 DEF Inv, TypeOK
  <2>4. Control' /\ Settlement'
    BY <2>1 DEF Control, Settlement, IdleThread
  <2>5. Durable'
    <3>1. pubSeq' <= db'.seq
      <4>1. db'.seq \in 0..Limit
        BY <2>3 DEF TypeOK, Databases
      <4> QED BY <2>1, <4>1
    <3>2. 1..0 = {}
      OBVIOUS
    <3> QED BY <2>1, <2>2, <3>1, <3>2 DEF Inv, Durable
  <2>6. Ahead'
    BY <2>1 DEF Ahead
  <2> QED BY <2>1, <2>2, <2>3, <2>4, <2>5, <2>6 DEF Inv
<1>17. CASE Open
  <2>1. /\ up' = TRUE /\ pubSeq' = db.seq
        /\ UNCHANGED <<fenced, db, recoverable, settle, th, acked, told, readTold>>
        /\ recoverable = {db}
    BY <1>17 DEF Open, history, Inv
  <2>2. Databanks' = {db} /\ Databanks = {db}
    BY <2>1 DEF Databanks
  <2>3. TypeOK'
    BY <2>1, <1>t DEF Inv, TypeOK
  <2>4. Control' /\ Settlement'
    BY <1>17, <2>1 DEF Open, Inv, Control, Settlement
  <2>5. Durable'
    <3>1. told <= db.seq /\ \A c \in acked : c.seq <= db.seq /\ Receipt(db.log[c.seq], c.seq) = c
      BY <2>2 DEF Inv, Durable
    <3>2. db.seq <= db.seq
      BY <1>t
    <3> QED BY <2>1, <2>2, <3>1, <3>2 DEF Durable
  <2>6. Ahead'
    BY <2>1, <2>2, <1>t DEF Inv, Durable, Ahead
  <2> QED BY <2>1, <2>2, <2>3, <2>4, <2>5, <2>6 DEF Inv
<1>18. CASE UNCHANGED vars
  BY <1>18 DEF vars, shared, history, Inv, TypeOK, Control, Settlement, Durable, Ahead, Databanks
<1> QED
  BY <1>1, <1>2, <1>3, <1>4, <1>5, <1>6, <1>7, <1>8, <1>9, <1>10, <1>11, <1>12, <1>13,
     <1>14, <1>15, <1>16, <1>17, <1>18 DEF Next, Work

\* The inductive invariant holds throughout.
LEMMA Invariance == Spec => []Inv
<1> QED BY InitInv, StepInv, PTL DEF Spec

-----------------------------------------------------------------------------
\* Every variable of the service keeps its type; in particular the sequence never
\* passes Limit (check_position refuses the request that would make it).
THEOREM TypeCorrect == Spec => []TypeOK
<1>1. Inv => TypeOK
  BY DEF Inv
<1> QED BY <1>1, Invariance, PTL

\* Publications in their windows with far identities are publications made once.
LEMMA SoundIsOnce ==
    ASSUME NEW d \in Databases, Sound(d), NEW i \in 1..d.seq, NEW j \in 1..d.seq,
           d.log[i].req.hash = d.log[j].req.hash
    PROVE  i = j
<1>1. d.log[i] \in Entries /\ d.log[j] \in Entries /\ d.seq \in Nat
  BY DEF Databases
<1>2. d.log[i].req = d.log[j].req /\ d.log[i].req.after \in Nat
  BY <1>1, RequestAssumption, ConstantAssumption DEF Entries, Writes, RequestType
<1>3. /\ d.log[i].req.after < i /\ i <= d.log[i].req.after + W
      /\ d.log[i].req.after < j /\ j <= d.log[i].req.after + W
  BY <1>2 DEF Sound
<1>4. ~(i < j) /\ ~(j < i)
  BY <1>1, <1>2, <1>3, ConstantAssumption DEF Sound
<1> QED BY <1>1, <1>4

\* No request body is ever published twice, for any number of threads, retries,
\* fences and restarts.
THEOREM PublishedOnce == Spec => []ExactlyOnce
<1>1. Inv => ExactlyOnce
  <2> SUFFICES ASSUME Inv, NEW d \in Databanks,
                      NEW i \in 1..Len(d.log), NEW j \in 1..Len(d.log),
                      d.log[i].req.hash = d.log[j].req.hash
               PROVE  i = j
    BY DEF ExactlyOnce
  <2>1. d \in Databases /\ d.seq = Len(d.log) /\ Sound(d)
    BY DEF Inv, TypeOK, Databanks, Databases
  <2> QED BY <2>1, SoundIsOnce
<1> QED BY <1>1, Invariance, PTL

\* The receipt table is always the window that validate_service_receipts expects.
THEOREM WindowKept == Spec => []ReceiptsAreTheWindow
<1>1. Inv => ReceiptsAreTheWindow
  BY DEF Inv, Sound, ReceiptsAreTheWindow
<1> QED BY <1>1, Invariance, PTL

\* No identity is reused within W publications of its last use.
THEOREM IdentityKept == Spec => []IdentityReuseIsFar
<1>1. Inv => IdentityReuseIsFar
  BY DEF Inv, Sound, IdentityReuseIsFar, TypeOK, Databanks, Databases
<1> QED BY <1>1, Invariance, PTL

\* Successful writes are serial and honour ifSequence: no update is lost.
THEOREM NoLostUpdate == Spec => []SerialWrites
<1>1. Inv => SerialWrites
  BY DEF Inv, Sound, SerialWrites, TypeOK, Databanks, Databases
<1> QED BY <1>1, Invariance, PTL

\* The receipt a client was given stays that of a publication across every restart:
\* no crash, fence or later write takes the publication back.
THEOREM ConfirmedIsDurable == Spec => []ConfirmedSurvives
<1>1. Inv => ConfirmedSurvives
  BY DEF Inv, Durable, ConfirmedSurvives
<1> QED BY <1>1, Invariance, PTL

\* No restart finds a database that is behind a sequence that a write or an info
\* reply has named.
THEOREM ToldIsDurable == Spec => []ToldSurvives
<1>1. Inv => ToldSurvives
  BY DEF Inv, Durable, ToldSurvives
<1> QED BY <1>1, Invariance, PTL

\* An answered receipt is that of a publication of the database.
LEMMA AnsweredIsPublished ==
    ASSUME Inv
    PROVE  /\ db \in Databases /\ Sound(db) /\ db.seq = Len(db.log) /\ db.seq \in 0..Limit
           /\ \A c \in acked : /\ c.seq \in 1..db.seq /\ Receipt(db.log[c.seq], c.seq) = c
                               /\ c.hash = db.log[c.seq].req.hash
<1>1. db \in Databases /\ Sound(db) /\ db.seq = Len(db.log) /\ db.seq \in 0..Limit
  BY DEF Inv, TypeOK, Databanks, Databases
<1>2. \A c \in acked : c.seq \in 1..Limit
  BY DEF Inv, TypeOK, Receipts, Receipt
<1>3. \A c \in acked : c.seq <= db.seq /\ Receipt(db.log[c.seq], c.seq) = c
  BY DEF Inv, Durable, Databanks
<1>4. \A c \in acked : c.hash = db.log[c.seq].req.hash
  BY <1>3 DEF Receipt
<1> QED BY <1>1, <1>2, <1>3, <1>4

\* A retried request is answered with the reply of its one publication, whether it
\* is replayed before or after a restart (replay, lib.rs:388).
THEOREM RetryIsIdempotent == Spec => []OneAnswer
<1>1. ASSUME Inv, NEW a \in acked, NEW b \in acked, a.hash = b.hash PROVE a = b
  <2>1. a.seq = b.seq
    BY <1>1, AnsweredIsPublished, SoundIsOnce
  <2> QED BY <1>1, <2>1, AnsweredIsPublished
<1>2. Inv => OneAnswer
  BY <1>1 DEF OneAnswer
<1> QED BY <1>2, Invariance, PTL

\* That reply lies in the window clients check it against (check_position when it
\* was published, confirmReply when it arrives).
THEOREM ReplyIsInWindow == Spec => []ReplyInWindow
<1>1. ASSUME Inv, NEW c \in acked, NEW r \in Requests, c.hash = r.hash
      PROVE  r.after < c.seq /\ c.seq <= r.after + W
  <2>1. db.log[c.seq] \in Entries
    BY <1>1, AnsweredIsPublished DEF Databases
  <2>2. db.log[c.seq].req = r
    BY <1>1, <2>1, AnsweredIsPublished, RequestAssumption DEF Entries, Writes
  <2> QED BY <1>1, <2>2, AnsweredIsPublished DEF Sound
<1>2. Inv => ReplyInWindow
  BY <1>1 DEF ReplyInWindow
<1> QED BY <1>2, Invariance, PTL
=============================================================================
