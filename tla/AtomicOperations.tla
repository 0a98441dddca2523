-------------------------- MODULE AtomicOperations --------------------------
(***************************************************************************)
(* Atomic operations on one connection of the frontend                     *)
(* (src/fastdb/frontend/src/lib.rs, interrupt.rs), nested in each other    *)
(* and in the caller's transaction, while other threads cancel the tokens  *)
(* of the call or interrupt the connection through its handle.  Each       *)
(* operation is a named savepoint of the engine (src/core/vdbe); every     *)
(* SAVEPOINT, write, RELEASE and ROLLBACK TO is a statement that may be    *)
(* interrupted before it takes effect, halfway, or after it took effect    *)
(* and before it ended.                                                    *)
(*                                                                         *)
(* A write w of the callback stores the two rows <<w, 1>> and <<w, 2>>;    *)
(* <<w, 3>> is the row a statement with ON CONFLICT FAIL keeps.            *)
(***************************************************************************)
EXTENDS Naturals, Sequences

CONSTANTS
    Tokens,         \* cancellation tokens and statement deadlines
    NoToken,        \* the token of a call that has none
    MaxDepth,       \* operations nested in each other
    MaxIds,         \* values of the counter of savepoint names
    MaxWrites,      \* writes of a behaviour
    MaxCalls,       \* operations the caller starts
    MaxInterrupts   \* calls of InterruptHandle::interrupt

ASSUME BoundAssumption ==
    {MaxDepth, MaxIds, MaxWrites, MaxCalls, MaxInterrupts} \subseteq Nat

VARIABLES
    db,         \* the connection's engine state, see NewDb
    stmt,       \* how far the running statement is, or "none"
    before,     \* the rows when the running write began
    flag,       \* interrupt_requested of the engine's connection
    signal,     \* an interrupt() between its test and its store
    interrupts, \* calls of interrupt() so far
    frames,     \* the operations in progress, the innermost last
    ret,        \* what the innermost callback returned, or "none"
    last,       \* the result of the operation that returned last
    active,     \* the tokens of the installed ActiveCancellation
    delivered,  \* its request was reported once
    suspended,  \* cleanups in progress
    cancelled,  \* tokens cancelled or past their deadline
    nextId,     \* next_atomic_id
    written,    \* writes so far
    calls       \* operations the caller started

engine  == <<db, stmt, before>>
handle  == <<flag, signal, interrupts>>
guards  == <<active, delivered, suspended>>
counts  == <<nextId, written, calls>>
vars    == <<engine, handle, frames, ret, last, guards, cancelled, counts>>

Results == {"ok", "cancelled", "rollback", "other"}
Rows    == (1..MaxWrites) \X (1..3)

-----------------------------------------------------------------------------
(* The engine's side: rows, autocommit, named savepoints, the poison mark. *)

NewDb == [disk |-> {}, pages |-> {}, auto |-> TRUE, saves |-> <<>>,
          poisoned |-> FALSE]

Ended(d) == [d EXCEPT !.auto = TRUE, !.saves = <<>>, !.poisoned = FALSE]

\* rollback_current_txn: the transaction is gone, autocommit is back.
RolledBack(d) == [Ended(d) EXCEPT !.pages = d.disk]

Committed(d) == [Ended(d) EXCEPT !.disk = d.pages]

\* A commit that did not report success: undone, unless its record was already
\* logged and only its sync failed.
UncertainCommits(d) == {RolledBack(d), Committed(d)}

\* Fault: COMMIT does not look at the mark of an abandoned write.
CommitsPoisoned(d) == Committed(d)

\* COMMIT rolls a transaction with an abandoned write back instead.
EndTransaction(d) == IF d.poisoned THEN RolledBack(d) ELSE Committed(d)

\* The innermost savepoint named n, 0 if there is none.
Index(d, n) ==
    LET named == {i \in 1..Len(d.saves) : d.saves[i].name = n} IN
    IF named = {} THEN 0 ELSE CHOOSE i \in named : \A j \in named : j <= i

Savepoint(d, n) ==
    [d EXCEPT !.saves = Append(@, [name |-> n, starts |-> d.auto,
                                   pages |-> d.pages, poisoned |-> d.poisoned]),
              !.auto = FALSE]

\* RELEASE of the savepoint that began the transaction commits it.
Commits(d, n) == Index(d, n) = 1 /\ d.saves[1].starts

Release(d, n) == [d EXCEPT !.saves = SubSeq(@, 1, Index(d, n) - 1)]

RollbackTo(d, n) ==
    LET i == Index(d, n) IN
    [d EXCEPT !.pages = d.saves[i].pages, !.poisoned = d.saves[i].poisoned,
              !.saves = SubSeq(@, 1, i)]

\* What the transaction looks like after abort() of an interrupted write:
\* autocommit rolls back, a statement journal is undone, and a write
\* without one stays and poisons the transaction.
AbortedWrites(d, was) ==
    IF d.auto THEN {RolledBack(d)}
    ELSE {[d EXCEPT !.pages = was], [d EXCEPT !.poisoned = TRUE]}

\* The same after a failed write: ABORT, FAIL, and the errors that roll
\* the whole transaction back.
FailedWrites(d, was, w) ==
    IF d.auto
    THEN {RolledBack(d), Committed([d EXCEPT !.pages = was \union {<<w, 3>>}])}
    ELSE {[d EXCEPT !.pages = was], [d EXCEPT !.pages = was \union {<<w, 3>>}],
          RolledBack(d)}

-----------------------------------------------------------------------------
(* The frontend's side. *)

Top  == frames[Len(frames)]
At(pc) == frames # <<>> /\ Top.pc = pc
Goto(pc) == frames' = [frames EXCEPT ![Len(frames)].pc = pc]

Cleanup == {"undoOpen", "dropOpen", "release", "undo", "drop"}

\* ActiveCancellation::interrupt_requested, before its swap.
Requested == suspended = 0 /\ active \cap cancelled # {} /\ ~delivered

\* The operation returns r: its ProgressGuard is dropped, and an error
\* ends the callback of the operation around it.
Return(r) ==
    LET rest == SubSeq(frames, 1, Len(frames) - 1)
        deep == rest # <<>>
    IN  /\ frames' = IF deep /\ r = "ok"
                     THEN [rest EXCEPT ![Len(rest)].writes = @ \union Top.writes]
                     ELSE rest
        /\ ret' = IF deep /\ r # "ok" THEN r ELSE "none"
        /\ last' = r
        /\ active' = Top.outer

\* cancellation_cleanup around one or two statements, by its first and
\* last step.
Suspend == suspended' = suspended + IF active = {} THEN 0 ELSE 1
Resume  == suspended' = suspended - IF active = {} THEN 0 ELSE 1

Runs == stmt' = "start" /\ before' = db.pages
Idle == stmt' = "none" /\ flag' = FALSE /\ before' = {}

-----------------------------------------------------------------------------
(* What savepoint_on_stack does when its current statement has ended; the *)
(* engine's new state d is part of its decision.                          *)

Unwind(e, pc) ==
    /\ frames' = [frames EXCEPT ![Len(frames)].pc = pc,
                                ![Len(frames)].cause = e]
    /\ ret' = "none"
    /\ UNCHANGED <<last, active>>

StartCleanup(e, pc) == Unwind(e, pc) /\ Suspend

Succeeded ==
    LET pc == Top.pc IN
    \/ /\ pc \in {"open", "undoOpen", "undo"}
       /\ Goto(CASE pc = "open" -> "body" [] pc = "undoOpen" -> "dropOpen"
                 [] OTHER -> "drop")
       /\ UNCHANGED <<ret, last, active, suspended>>
    \/ /\ pc = "body"
       /\ frames' = [frames EXCEPT ![Len(frames)].writes = @ \union {written}]
       /\ ret' = IF Top.kind = "write" THEN "ok" ELSE "none"
       /\ UNCHANGED <<last, active, suspended>>
    \/ pc = "release" /\ Resume /\ Return("ok")
    \/ pc \in {"dropOpen", "drop"} /\ Resume /\ Return(Top.cause)

Failed(e, missing, d) ==
    LET pc == Top.pc IN
    \/ pc = "open" /\ d.auto /\ Return(e) /\ UNCHANGED suspended
    \/ pc = "open" /\ ~d.auto /\ StartCleanup(e, "undoOpen")
    \/ /\ pc = "body" /\ ret' = e
       /\ UNCHANGED <<frames, last, active, suspended>>
    \/ pc = "release" /\ d.auto /\ Resume /\ Return(e)
    \/ pc = "release" /\ ~d.auto /\ Unwind(e, "undo") /\ UNCHANGED suspended
    \/ /\ pc \in {"undoOpen", "dropOpen"} /\ Resume
       /\ Return(IF missing THEN Top.cause ELSE "rollback")
    \/ pc \in {"undo", "drop"} /\ Resume /\ Return("rollback")

-----------------------------------------------------------------------------
(* Statements. *)

Begin ==
    /\ stmt = "none" /\ frames # <<>> /\ Top.pc # "body"
    /\ Runs
    /\ UNCHANGED <<db, handle, frames, ret, last, guards, cancelled, counts>>

BeginWrite ==
    /\ stmt = "none" /\ At("body") /\ ret = "none"
    /\ written < MaxWrites /\ written' = written + 1
    /\ Runs
    /\ UNCHANGED <<db, handle, frames, ret, last, guards, cancelled, nextId, calls>>

Takes(d, phase) ==
    /\ db' = d /\ stmt' = phase
    /\ UNCHANGED <<before, handle, frames, ret, last, guards, cancelled, counts>>

Fails(e, missing, d) ==
    /\ db' = d /\ Idle
    /\ Failed(e, missing, d)
    /\ UNCHANGED <<signal, interrupts, delivered, cancelled, counts>>

\* The statement takes effect; the progress handler was consulted and did
\* not ask for an interrupt.
Effect ==
    LET n  == Top.name
        pc == Top.pc
        gone == Index(db, n) = 0
    IN
    /\ stmt \in {"start", "half"} /\ ~Requested
    /\ \/ pc = "open" /\ Takes(Savepoint(db, n), "end")
       \/ /\ pc = "body"
          /\ LET half == stmt = "half"
             IN  Takes([db EXCEPT !.pages = @ \union {<<written, IF half THEN 2 ELSE 1>>}],
                       IF half THEN "end" ELSE "half")
       \/ pc \in {"undoOpen", "undo"} /\ ~gone /\ Takes(RollbackTo(db, n), "end")
       \/ /\ pc \in {"dropOpen", "drop", "release"} /\ ~gone /\ ~Commits(db, n)
          /\ Takes(Release(db, n), "end")
       \/ /\ pc \in {"dropOpen", "drop", "release"} /\ ~gone /\ Commits(db, n)
          /\ IF db.poisoned THEN Fails("other", FALSE, RolledBack(db))
             ELSE Takes([db EXCEPT !.auto = TRUE], "commit")
       \/ pc \in Cleanup /\ gone /\ Fails("other", TRUE, db)

Finish ==
    /\ \/ /\ stmt = "end" /\ ~Requested
          /\ db' = IF db.auto /\ Top.pc = "body" THEN Committed(db) ELSE db
       \/ stmt = "commit" /\ db' = Committed(db)
    /\ Idle
    /\ Succeeded
    /\ UNCHANGED <<signal, interrupts, delivered, cancelled, counts>>

Interrupted ==
    /\ stmt # "none" /\ (Requested \/ flag)
    /\ delivered' = (delivered \/ Requested)
    /\ Idle
    /\ \E d \in CASE stmt = "commit" -> UncertainCommits(db)
               [] Top.pc = "body" -> AbortedWrites(db, before)
               [] OTHER -> {db} :
          db' = d /\ Failed("cancelled", FALSE, d)
    /\ UNCHANGED <<signal, interrupts, cancelled, counts>>

\* Any other error of the engine: SAVEPOINT, or RELEASE and ROLLBACK TO of a
\* cleanup, did nothing; the write was undone or not; or the whole transaction
\* was rolled back.  The commit of a RELEASE, or of a write in autocommit, may
\* fail although it was made.
EngineError ==
    \/ /\ stmt = "start" /\ Top.pc \in Cleanup \union {"open"} /\ ~Requested
       /\ \E d \in {db, RolledBack(db)} : Fails("other", FALSE, d)
    \/ /\ stmt \in {"start", "half", "end"} /\ At("body") /\ ~Requested
       /\ \E d \in FailedWrites(db, before, written) : Fails("other", FALSE, d)
    \/ /\ stmt = "commit" \/ (stmt = "end" /\ At("body") /\ db.auto)
       /\ \E d \in UncertainCommits(db) : Fails("other", FALSE, d)

-----------------------------------------------------------------------------
(* Operations. *)

\* Fault: every operation takes the same name.
SameName(id) == id

NextName(id) == id + 1

\* with_cancellation, then atomic or interruptible_write: by the caller, or
\* by the callback of an atomic operation.
Enter(kind, token) ==
    LET bare == kind = "write" /\ db.auto IN
    /\ stmt = "none" /\ token \notin active
    /\ kind = "write" => written < MaxWrites
    /\ \/ frames = <<>> /\ calls < MaxCalls /\ calls' = calls + 1
       \/ /\ At("body") /\ ret = "none" /\ Top.kind = "atomic"
          /\ Len(frames) < MaxDepth /\ UNCHANGED calls
    /\ \/ /\ token \in cancelled
          /\ delivered' = (delivered \/ active # {})
          /\ ret' = (IF frames = <<>> THEN "none" ELSE "cancelled") /\ last' = "cancelled"
          /\ UNCHANGED <<frames, active, suspended, nextId>>
       \/ /\ token \notin cancelled /\ ~bare /\ nextId = MaxIds
          /\ ret' = (IF frames = <<>> THEN "none" ELSE "other") /\ last' = "other"
          /\ UNCHANGED <<frames, guards, nextId>>
       \/ /\ token \notin cancelled /\ (bare \/ nextId < MaxIds)
          /\ frames' = Append(frames,
                [kind |-> kind, outer |-> active, entry |-> db,
                 bare |-> bare, name |-> nextId,
                 pc |-> IF bare THEN "body" ELSE "open",
                 writes |-> {}, cause |-> "none"])
          /\ nextId' = IF bare THEN nextId ELSE NextName(nextId)
          /\ active' = active \union ({token} \ {NoToken})
          /\ delivered' = (active # {} /\ delivered)
          /\ UNCHANGED <<suspended, ret>> /\ last' = "none"
    /\ UNCHANGED <<engine, handle, cancelled, written>>

\* The callback of an atomic operation returns, with its value or with an
\* error of its own.
CallbackReturns ==
    /\ stmt = "none" /\ At("body") /\ ret = "none" /\ Top.kind = "atomic"
    /\ ret' \in {"ok", "other"}
    /\ UNCHANGED <<engine, handle, frames, last, guards, cancelled, counts>>

\* Fault: an interrupted native write keeps its rows like any other error.
AfterCallbackKeeps ==
    LET late  == ret = "ok" /\ Requested
        error == IF late THEN "cancelled" ELSE ret
        undo  == Top.kind = "atomic" \/ late
    IN
    /\ stmt = "none" /\ At("body") /\ ret # "none"
    /\ delivered' = (delivered \/ (late /\ ~Top.bare))
    /\ \/ (Top.bare \/ (error # "ok" /\ db.auto)) /\ Return(error) /\ UNCHANGED suspended
       \/ ~Top.bare /\ error = "ok" /\ StartCleanup("none", "release")
       \/ /\ ~Top.bare /\ error # "ok" /\ ~db.auto
          /\ StartCleanup(error, IF undo THEN "undo" ELSE "drop")
    /\ UNCHANGED <<engine, handle, cancelled, counts>>

\* After the callback: check_cancellation and RELEASE, or the rollback the
\* operation asks for; in autocommit there is nothing left to undo.
AfterCallback ==
    LET late  == ret = "ok" /\ Requested /\ ~Top.bare
        error == IF late THEN "cancelled" ELSE ret
        undo  == Top.kind = "atomic" \/ error \in {"cancelled", "rollback"}
    IN
    /\ stmt = "none" /\ At("body") /\ ret # "none"
    /\ delivered' = (delivered \/ late)
    /\ \/ (Top.bare \/ (error # "ok" /\ db.auto)) /\ Return(error) /\ UNCHANGED suspended
       \/ ~Top.bare /\ error = "ok" /\ StartCleanup("none", "release")
       \/ /\ ~Top.bare /\ error # "ok" /\ ~db.auto
          /\ StartCleanup(error, IF undo THEN "undo" ELSE "drop")
    /\ UNCHANGED <<engine, handle, cancelled, counts>>

-----------------------------------------------------------------------------
(* The caller's own BEGIN, COMMIT and ROLLBACK, and the other threads. *)

Transaction ==
    /\ frames = <<>>
    /\ \/ db.auto /\ db' = [db EXCEPT !.auto = FALSE]
       \/ ~db.auto /\ db' \in {EndTransaction(db), RolledBack(db)}
    /\ UNCHANGED <<stmt, before, handle, frames, ret, last, guards, cancelled, counts>>

\* CancellationToken::cancel, or a deadline passes.
Cancel(token) ==
    /\ token \notin cancelled
    /\ cancelled' = cancelled \union {token}
    /\ UNCHANGED <<engine, handle, frames, ret, last, guards, counts>>

\* Connection::interrupt tests that a statement is active, and then stores.
InterruptTest ==
    /\ stmt # "none" /\ ~signal /\ interrupts < MaxInterrupts
    /\ signal' = TRUE /\ interrupts' = interrupts + 1
    /\ UNCHANGED <<engine, flag, frames, ret, last, guards, cancelled, counts>>

InterruptStore ==
    /\ signal /\ signal' = FALSE /\ flag' = TRUE
    /\ UNCHANGED <<engine, interrupts, frames, ret, last, guards, cancelled, counts>>

Init ==
    /\ db = NewDb /\ stmt = "none" /\ before = {}
    /\ flag = FALSE /\ signal = FALSE /\ interrupts = 0
    /\ frames = <<>> /\ ret = "none" /\ last = "none"
    /\ active = {} /\ delivered = FALSE /\ suspended = 0 /\ cancelled = {}
    /\ nextId = 0 /\ written = 0 /\ calls = 0

Next ==
    \/ Begin \/ BeginWrite \/ Effect \/ Finish \/ Interrupted \/ EngineError
    \/ \E kind \in {"atomic", "write"}, token \in Tokens \union {NoToken} :
            Enter(kind, token)
    \/ CallbackReturns \/ AfterCallback
    \/ Transaction \/ InterruptTest \/ InterruptStore
    \/ \E token \in Tokens : Cancel(token)

Spec == Init /\ [][Next]_vars

-----------------------------------------------------------------------------
(* Properties. *)

\* Types; a cleanup is in progress exactly while the innermost operation
\* with a token runs one of its cleanup statements (interrupt.rs,
\* cancellation_cleanup), and a running statement belongs to an operation.
TypeOK ==
    /\ db.disk \subseteq Rows /\ db.pages \subseteq Rows
    /\ db.auto \in BOOLEAN /\ db.poisoned \in BOOLEAN
    /\ stmt \in {"none", "start", "half", "end", "commit"} /\ before \subseteq Rows
    /\ stmt # "none" => frames # <<>>
    /\ ret \in Results \union {"none"} /\ last \in Results \union {"none"}
    /\ active \subseteq Tokens /\ cancelled \subseteq Tokens
    /\ suspended = IF active # {} /\ Top.pc \in Cleanup THEN 1 ELSE 0
    /\ nextId \in 0..MaxIds /\ written \in 0..MaxWrites

Returned == Len(frames') < Len(frames)

RowsOf(f) == f.writes \X {1, 2}

Restored(f) == db' = f.entry

Complete(f) ==
    db' = [f.entry EXCEPT !.pages = @ \union RowsOf(f),
                          !.disk = IF f.entry.auto THEN @ \union RowsOf(f) ELSE @]

\* The commit of f failed or was interrupted, and was made all the same.
Published(f) == f.pc = "release" /\ f.entry.auto /\ Complete(f)

\* The savepoints of s are the lowest of d.
Above(s, d) == Len(s) <= Len(d.saves) /\ \A i \in 1..Len(s) : d.saves[i] = s[i]

\* An operation cancelled through its tokens (lib.rs, savepoint_on_stack)
\* leaves rows, savepoints, transaction state and the poison mark as it
\* found them.  Its cleanup is out of the tokens' reach and never misses its
\* savepoint: as long as nobody uses the interrupt handle, FDB_ROLLBACK comes
\* from an operation inside or from the engine failing a cleanup statement.
CancelRestores ==
    [][(Returned /\ interrupts = 0) =>
           /\ last' = "cancelled" => Restored(Top)
           /\ last' = "rollback" =>
                  "rollback" \in {ret, Top.cause} \/ EngineError]_vars

\* Whatever threads cancel and interrupt, and whatever statement fails, an
\* operation tells the truth.  On success all of its writes and only they were
\* added.  On a cancellation none was, on another error of an atomic operation
\* none was or the whole transaction was rolled back; only the error of the
\* commit itself, after the callback had completed, leaves it open whether all
\* were committed (request.rs, results_ready).  Even FDB_ROLLBACK has committed
\* nothing, and the caller's savepoints are there unless the transaction is not.
OutcomeTold ==
    [][Returned =>
         /\ last' = "ok" => Complete(Top)
         /\ last' = "cancelled" => Restored(Top) \/ Published(Top)
         /\ (last' = "other" /\ Top.kind = "atomic") =>
                Restored(Top) \/ db' = RolledBack(Top.entry) \/ Published(Top)
         /\ last' = "rollback" =>
                /\ db'.disk = Top.entry.disk
                /\ db'.auto \/ Above(Top.entry.saves, db')]_vars

\* No write is ever committed in half, even after an operation whose cleanup
\* was itself interrupted and reported FDB_ROLLBACK: the poison mark that
\* the abandoned write left survives later operations and turns the
\* caller's COMMIT into a rollback (execute.rs, op_savepoint, op_auto_commit).
\* The cleanup count of TypeOK is exact all along.
CommittedWhole ==
    /\ TypeOK
    /\ \A w \in 1..MaxWrites : <<w, 1>> \in db.disk <=> <<w, 2>> \in db.disk

-----------------------------------------------------------------------------
(* What a comment says, and the interrupt handle refutes (see the README). *)

\* An interrupt asked for while one statement ran never reaches a later one:
\* "Idle requests do not poison subsequent statements" (interrupt.rs:78),
\* that is, no statement begins with a request already stored.
IdleRequestsIgnored == [][(stmt = "none" /\ stmt' = "start") => ~flag]_vars

=============================================================================
