-------------------------- MODULE EmbeddedSession ---------------------------
(***************************************************************************)
(* Sessions of the embedded adapter (fastdb/bindings/node): the main       *)
(* thread in embedded-client.cjs and one embedded-worker.cjs thread for    *)
(* each database file.                                                     *)
(*                                                                         *)
(* Clients of one file share a Session by reference count.  A Session owns *)
(* the worker, and the worker owns the native handle with the file's lock. *)
(* Requests travel to the worker in order and the replies travel back; the *)
(* last event of a worker is its exit.  Opening can expire, a call can be  *)
(* aborted while the worker still runs it, a worker can die, and another   *)
(* process can hold the file.                                              *)
(*                                                                         *)
(* A slot is one use of the API: one openEmbedded call and the client it   *)
(* returns, with at most one call that has not settled; calls that were    *)
(* aborted may still be with the worker.                                   *)
(***************************************************************************)
EXTENDS Integers, Sequences, FiniteSets, SequencesExt

CONSTANTS
    Slots,        \* concurrent uses of openEmbedded
    Files,        \* canonical paths
    MaxSessions,  \* file adapters in one process: 16
    MaxPending,   \* requests outstanding at one adapter: 32
    Budgets,      \* bounds: the files that are opened, and how often
    MaxCalls,     \* bound: requests to one adapter
    Other,        \* another process
    None

VARIABLES
    exists,     \* the database files there are
    sessions,   \* the map from canonical paths to sessions
    ses,        \* every Session constructed so far, with its worker
    lock,       \* who holds the native lock of each file
    slot,       \* the callers
    tokens,     \* cancellation tokens in the native registry
    budget      \* the files of this behaviour, and the calls of openEmbedded left

disk == <<exists, lock>>
vars == <<disk, sessions, ses, slot, tokens, budget>>

ASSUME BoundsAssumption ==
    /\ MaxSessions \in Nat /\ MaxPending \in Nat /\ MaxCalls \in Nat
    /\ \A b \in Budgets : b.files \subseteq Files /\ b.opens \in Nat
    /\ Other # None

MaxOpens == Max({b.opens : b \in Budgets})
Ids == 1..Len(ses)
Opening == {"looking", "waitClosed", "waitReady", "waitInfo"}
Idle == [phase |-> "out", file |-> None, id |-> 0, abandoned |-> FALSE, call |-> 0, reply |-> None]

\* Session.constructor: the worker starts at once
NewSession(f) ==
    [file |-> f, references |-> 1, closing |-> FALSE, failed |-> FALSE, ready |-> "pending",
     closed |-> FALSE, next |-> 0, pending |-> {}, inbox |-> <<>>, outbox |-> <<>>,
     worker |-> "starting"]

Users(i) == {a \in Slots : slot[a].id = i /\ slot[a].phase \in {"waitReady", "waitInfo", "open"}}
Registered == {f \in Files : sessions[f] # None}

-----------------------------------------------------------------------------
(* Session.request and releaseSession.                                      *)

\* request rejects without sending anything
Refused(s) == s.failed \/ s.closing \/ Cardinality(s.pending) >= MaxPending

Sent(s, op) ==
    [s EXCEPT !.next = @ + 1, !.pending = @ \union {s.next + 1},
              !.inbox = Append(@, [n |-> s.next + 1, op |-> op])]

\* releaseSession up to its first await: the last user starts Session.close
AfterRelease(s) ==
    LET left == [s EXCEPT !.references = @ - 1, !.closing = (s.references = 1)] IN
    IF s.references = 1 /\ ~s.failed THEN Sent(left, "close") ELSE left

\* Slot a gives up its session and, if it was the last user, waits for the end.
Leave(a) ==
    LET i == slot[a].id
        s == ses[i]
        t == AfterRelease(s) IN
    /\ ses' = [ses EXCEPT ![i] = t]
    /\ tokens' = tokens \union {<<i, n>> : n \in (s.next + 1)..t.next}
    /\ slot' = [slot EXCEPT ![a] = IF s.references > 1 THEN Idle
                                   ELSE [Idle EXCEPT !.phase = "releasing", !.file = s.file, !.id = i]]

\* The call is sent under a token of its own.
Post(a, op) ==
    LET i == slot[a].id
        n == ses[i].next + 1 IN
    /\ ses' = [ses EXCEPT ![i] = Sent(@, op)]
    /\ tokens' = tokens \union {<<i, n>>}
    /\ slot' = [slot EXCEPT ![a].call = n, ![a].phase = IF op = "info" THEN "waitInfo" ELSE @]

\* Fault: the entry is removed before the worker has gone.
ReleasedEarly(a) ==
    /\ slot[a].phase = "releasing"
    /\ sessions' = [sessions EXCEPT ![slot[a].file] = IF @ = slot[a].id THEN None ELSE @]
    /\ slot' = [slot EXCEPT ![a] = Idle]
    /\ UNCHANGED <<disk, ses, tokens, budget>>

\* The rest of releaseSession: the worker has exited, the entry is removed
Released(a) ==
    /\ slot[a].phase = "releasing" /\ ses[slot[a].id].closed
    /\ sessions' = [sessions EXCEPT ![slot[a].file] = IF @ = slot[a].id THEN None ELSE @]
    /\ slot' = [slot EXCEPT ![a] = Idle]
    /\ UNCHANGED <<disk, ses, tokens, budget>>

-----------------------------------------------------------------------------
(* openEmbedded.                                                            *)

\* The options are checked; create makes the file, which must not exist, and
\* without create it must exist.
Open(a, f, create) ==
    /\ slot[a].phase = "out" /\ f \in budget.files /\ budget.opens > 0
    /\ budget' = [budget EXCEPT !.opens = @ - 1]
    /\ IF create = (f \in exists)
       THEN UNCHANGED <<exists, slot>>
       ELSE /\ exists' = exists \union {f}
            /\ slot' = [slot EXCEPT ![a] = [Idle EXCEPT !.phase = "looking", !.file = f]]
    /\ UNCHANGED <<lock, sessions, ses, tokens>>

\* The file's canonical path is known: wait for a session that is closing, or
\* join the one there is, or make one, or fail at the limit
Lookup(a) ==
    LET f == slot[a].file
        i == sessions[f] IN
    /\ slot[a].phase = "looking"
    /\ \/ /\ i # None /\ ses[i].closing
          /\ slot' = [slot EXCEPT ![a].phase = "waitClosed", ![a].id = i]
          /\ UNCHANGED <<sessions, ses>>
       \/ /\ i # None /\ ~ses[i].closing
          /\ ses' = [ses EXCEPT ![i].references = @ + 1]
          /\ slot' = [slot EXCEPT ![a].phase = "waitReady", ![a].id = i]
          /\ UNCHANGED sessions
       \/ /\ i = None /\ Cardinality(Registered) < MaxSessions
          /\ ses' = Append(ses, NewSession(f))
          /\ sessions' = [sessions EXCEPT ![f] = Len(ses) + 1]
          /\ slot' = [slot EXCEPT ![a].phase = "waitReady", ![a].id = Len(ses) + 1]
       \/ /\ i = None /\ Cardinality(Registered) >= MaxSessions
          /\ slot' = [slot EXCEPT ![a] = Idle]
          /\ UNCHANGED <<sessions, ses>>
    /\ UNCHANGED <<disk, tokens, budget>>

\* session.closed resolved: start over, without create
LookAgain(a) ==
    /\ slot[a].phase = "waitClosed" /\ ses[slot[a].id].closed
    /\ slot' = [slot EXCEPT ![a].phase = "looking", ![a].id = 0]
    /\ UNCHANGED <<disk, sessions, ses, tokens, budget>>

\* session.ready settled: createEmbeddedClient asks for the details, or gives up
ReadySettled(a) ==
    LET s == ses[slot[a].id] IN
    /\ slot[a].phase = "waitReady" /\ s.ready # "pending"
    /\ IF s.ready = "rejected" \/ Refused(s) THEN Leave(a) ELSE Post(a, "info")
    /\ UNCHANGED <<disk, sessions, budget>>

\* The deadline of openEmbedded: the caller is told, the opening goes on
Abandon(a) ==
    /\ slot[a].phase \in Opening /\ ~slot[a].abandoned
    /\ slot' = [slot EXCEPT ![a].abandoned = TRUE]
    /\ UNCHANGED <<disk, sessions, ses, tokens, budget>>

\* info answered: the client is handed out, or, if it failed or the opening was
\* abandoned, the session is released
InfoSettled(a) ==
    /\ slot[a].phase = "waitInfo" /\ slot[a].reply # None
    /\ IF slot[a].reply = "ok" /\ ~slot[a].abandoned
       THEN /\ slot' = [slot EXCEPT ![a].phase = "open", ![a].call = 0, ![a].reply = None]
            /\ UNCHANGED <<ses, tokens>>
       ELSE Leave(a)
    /\ UNCHANGED <<disk, sessions, budget>>

-----------------------------------------------------------------------------
(* The client's calls.                                                      *)

\* read, submit, recover or info, when it is not refused
Call(a) ==
    /\ slot[a].phase = "open" /\ slot[a].call = 0
    /\ ~Refused(ses[slot[a].id]) /\ ses[slot[a].id].next < MaxCalls
    /\ Post(a, "call")
    /\ UNCHANGED <<disk, sessions, budget>>

\* The promise of a call was settled by a reply or by the worker's exit.
CallSettled(a) ==
    /\ slot[a].phase = "open" /\ slot[a].reply # None
    /\ slot' = [slot EXCEPT ![a].call = 0, ![a].reply = None]
    /\ UNCHANGED <<disk, sessions, ses, tokens, budget>>

\* The caller's signal or deadline: the token is cancelled and the promise
\* rejected, and the call stays with the worker
Abort(a) ==
    /\ slot[a].phase \in {"open", "waitInfo"} /\ slot[a].call # 0 /\ slot[a].reply = None
    /\ IF slot[a].phase = "open"
       THEN slot' = [slot EXCEPT ![a].call = 0] /\ UNCHANGED <<ses, tokens>>
       ELSE Leave(a)
    /\ UNCHANGED <<disk, sessions, budget>>

\* EmbeddedDatabase.close up to its first await; the client aborts its calls
Close(a) ==
    /\ slot[a].phase = "open" /\ slot[a].reply = None
    /\ Leave(a)
    /\ UNCHANGED <<disk, sessions, budget>>

-----------------------------------------------------------------------------
(* The worker thread, and another process.                                  *)

Event(kind) == [kind |-> kind, n |-> 0, ok |-> FALSE]
Reply(c, ok) == [kind |-> "reply", n |-> c.n, ok |-> ok]

\* The locks once worker i is gone
Unlocked(i) == [f \in Files |-> IF lock[f] = i THEN None ELSE lock[f]]

\* The worker opens the native database, or fails to and ends.
Start(i) ==
    LET f == ses[i].file IN
    /\ ses[i].worker = "starting"
    /\ \/ /\ lock[f] = None
          /\ lock' = [lock EXCEPT ![f] = i]
          /\ ses' = [ses EXCEPT ![i].worker = "serving", ![i].outbox = Append(@, Event("ready"))]
       \/ /\ ses' = [ses EXCEPT ![i].worker = "ended",
                                ![i].outbox = @ \o <<Event("readyError"), Event("exit")>>]
          /\ UNCHANGED lock
    /\ UNCHANGED <<exists, sessions, slot, tokens, budget>>

\* Fault: "close" leaves the port open.
ServeStays(i) ==
    /\ ses[i].worker = "serving" /\ ses[i].inbox # <<>>
    /\ ses' = [ses EXCEPT ![i].inbox = Tail(@), ![i].outbox = Append(@, Reply(Head(ses[i].inbox), TRUE))]
    /\ lock' = IF Head(ses[i].inbox).op = "close" THEN Unlocked(i) ELSE lock
    /\ UNCHANGED <<exists, sessions, slot, tokens, budget>>

\* The handler of one message; "close" drops the native handle and the port.
Serve(i) ==
    LET c == Head(ses[i].inbox) IN
    /\ ses[i].worker = "serving" /\ ses[i].inbox # <<>>
    /\ \/ /\ c.op = "close"
          /\ ses' = [ses EXCEPT ![i].worker = "ended", ![i].inbox = Tail(@),
                                ![i].outbox = @ \o <<Reply(c, TRUE), Event("exit")>>]
          /\ lock' = Unlocked(i)
       \/ /\ c.op # "close"
          /\ \E ok \in BOOLEAN :
                ses' = [ses EXCEPT ![i].inbox = Tail(@), ![i].outbox = Append(@, Reply(c, ok))]
          /\ UNCHANGED lock
    /\ UNCHANGED <<exists, sessions, slot, tokens, budget>>

\* The thread dies; an exception raises "error" first.
Die(i) ==
    /\ ses[i].worker \in {"starting", "serving"}
    /\ \E events \in {<<Event("exit")>>, <<Event("error"), Event("exit")>>} :
          ses' = [ses EXCEPT ![i].worker = "ended", ![i].inbox = <<>>, ![i].outbox = @ \o events]
    /\ lock' = Unlocked(i)
    /\ UNCHANGED <<exists, sessions, slot, tokens, budget>>

\* Another process opens the file or closes it.
Elsewhere(f) ==
    /\ f \in exists
    /\ \/ lock[f] = None /\ lock' = [lock EXCEPT ![f] = Other]
       \/ lock[f] = Other /\ lock' = [lock EXCEPT ![f] = None]
    /\ UNCHANGED <<exists, sessions, ses, slot, tokens, budget>>

-----------------------------------------------------------------------------
(* The events of the worker on the main thread.                             *)

\* #failure is set and ready rejected, without effect if it has resolved.
Failed(s) == [s EXCEPT !.failed = TRUE, !.ready = IF @ = "pending" THEN "rejected" ELSE @]

\* "exit": every call that is left is rejected
Exited(s) == [Failed(s) EXCEPT !.pending = {}, !.inbox = <<>>, !.closed = TRUE]

Receive(i) ==
    LET m == Head(ses[i].outbox)
        s == [ses[i] EXCEPT !.outbox = Tail(@)]
        t == CASE m.kind = "ready" -> [s EXCEPT !.ready = "resolved"]
               [] m.kind \in {"readyError", "error"} -> Failed(s)
               [] m.kind = "reply" -> [s EXCEPT !.pending = @ \ {m.n}]
               [] m.kind = "exit" -> Exited(s)
        settled == s.pending \ t.pending IN
    /\ ses[i].outbox # <<>>
    /\ ses' = [ses EXCEPT ![i] = t]
    /\ tokens' = tokens \ {<<i, n>> : n \in settled}
    /\ slot' = [a \in Slots |->
                  IF slot[a].id = i /\ slot[a].call \in settled
                  THEN [slot[a] EXCEPT !.reply = IF m.ok THEN "ok" ELSE "failed"]
                  ELSE slot[a]]
    /\ UNCHANGED <<disk, sessions, budget>>

-----------------------------------------------------------------------------

Init ==
    /\ budget \in Budgets
    /\ exists \in SUBSET budget.files
    /\ sessions = [f \in Files |-> None]
    /\ ses = <<>>
    /\ lock = [f \in Files |-> None]
    /\ slot = [a \in Slots |-> Idle]
    /\ tokens = {}

Continue(a) ==
    Lookup(a) \/ LookAgain(a) \/ ReadySettled(a) \/ InfoSettled(a) \/ CallSettled(a) \/ Released(a)

Use(a) ==
    \/ \E f \in Files, create \in BOOLEAN : Open(a, f, create)
    \/ Abandon(a) \/ Call(a) \/ Abort(a) \/ Close(a)

Next ==
    \/ \E a \in Slots : Continue(a) \/ Use(a)
    \/ \E i \in Ids : Start(i) \/ Serve(i) \/ Die(i) \/ Receive(i)
    \/ \E f \in Files : Elsewhere(f)

Spec == Init /\ [][Next]_vars

\* The event loop runs every continuation and delivers every event; a worker
\* takes up its next message, and the native call it makes returns.
Fairness ==
    /\ \A a \in Slots : WF_vars(Continue(a))
    /\ \A i \in 1..MaxOpens :
          /\ WF_vars(i \in Ids /\ (Start(i) \/ Serve(i)))
          /\ WF_vars(i \in Ids /\ Receive(i))

LiveSpec == Spec /\ Fairness

-----------------------------------------------------------------------------
(* Properties.                                                              *)

TypeOK ==
    /\ exists \subseteq Files
    /\ \A f \in Files : sessions[f] \in Ids \union {None} /\ lock[f] \in Ids \union {None, Other}
    /\ \A i \in Ids :
          /\ ses[i].file \in Files /\ ses[i].references \in 0..Cardinality(Slots)
          /\ ses[i].ready \in {"pending", "resolved", "rejected"}
          /\ ses[i].worker \in {"starting", "serving", "ended"}
    /\ \A a \in Slots :
          /\ slot[a].phase \in Opening \union {"out", "open", "releasing"}
          /\ slot[a].id \in 0..Len(ses)

\* A file has one adapter: until the exit of its worker has been handled, the
\* session stays in the map under its file, so that no other open starts a
\* second worker, whatever openings, failures and closes overlap; an entry always
\* has a user, or a caller of close that will remove it (openEmbeddedFile and
\* releaseSession).
OneAdapter ==
    /\ \A i \in Ids : IF ses[i].closed THEN \A f \in Files : lock[f] # i
                      ELSE sessions[ses[i].file] = i
    /\ \A f \in Registered :
          Users(sessions[f]) # {} \/
          \E a \in Slots : slot[a].phase = "releasing" /\ slot[a].id = sessions[f]

\* references counts the openings and clients that hold the session, and the
\* session closes exactly when the last of them has gone: no client is ever
\* handed a session that was told to close, and no session outlives its users.
ReferencesExact ==
    \A i \in Ids :
        /\ ses[i].references = Cardinality(Users(i))
        /\ ses[i].closing <=> Users(i) = {}

\* A request keeps its place in the queue and its cancellation token exactly
\* until its reply or the worker's exit is handled: what the worker still has to
\* run is never without a token (the native call fails on an unknown token), and
\* a session that is gone leaves none behind.
PlacesExact ==
    /\ tokens = UNION {{<<i, n>> : n \in ses[i].pending} : i \in Ids}
    /\ \A i \in Ids :
          LET s == ses[i]
              queued == {c.n : c \in ToSet(s.inbox)}
              replied == {m.n : m \in ToSet(s.outbox)} \ {0} IN
          /\ queued \union replied \subseteq s.pending
          /\ s.worker # "ended" => s.pending = queued \union replied
          /\ Cardinality(s.pending) <= MaxPending + 1
          /\ s.closed => s.pending = {}

\* The three together, with the types: whatever openings, expiries, aborts, deaths
\* and closes overlap, a file's adapter, its users and its requests stay accounted.
AdapterExact == TypeOK /\ OneAdapter /\ ReferencesExact /\ PlacesExact

\* Every opening ends, expired or not, in a client or with its session released,
\* and every close returns: with OneAdapter, the last one of a session with the
\* worker gone, the file unlocked and the path free for another adapter.
EveryWaitEnds ==
    \A a \in Slots :
        slot[a].phase \in Opening \union {"releasing"} ~> slot[a].phase \in {"open", "out"}
=============================================================================
