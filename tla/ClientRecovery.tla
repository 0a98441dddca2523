--------------------------- MODULE ClientRecovery ---------------------------
(***************************************************************************)
(* What an application can conclude about its writes: the Node client      *)
(* (fastdb/bindings/node/client.cjs) and its request journal               *)
(* (request-journal.cjs) against a service behind an unreliable transport. *)
(*                                                                         *)
(* An application has one thing to do (its intent).  It prepares a request *)
(* for it, saves the request, submits it, and recovers the saved request   *)
(* for as long as the outcome is unknown, also after it has itself been    *)
(* restarted.  Only a confirmed rollback lets it prepare another request   *)
(* for the same intent (docs/service-protocol.md).  Calls time out, are    *)
(* aborted or lose their connection while their message is under way; the  *)
(* owner of the URL stops, recovers, or is replaced by one that serves     *)
(* another database.                                                       *)
(*                                                                         *)
(* The service appears by what ServicePublication shows of it: a ledger    *)
(* for each database and the publications in limbo, whose commit was       *)
(* uncertain and one of which a restart may turn out to hold.              *)
(***************************************************************************)
EXTENDS Integers, Sequences

CONSTANTS
    Clients,      \* applications, each with one client and one intent
    Databases,    \* database IDs
    W,            \* the replay window: 64 in the code
    MaxSeq,       \* bound: publications of a database
    MaxDrafts,    \* bound: requests prepared for one intent
    MaxCalls,     \* bound: submissions of one application
    Torn,         \* a journal file that is not complete
    None          \* no request, no database, no file

VARIABLES
    owner,     \* the database served at the URL, or None
    ledger,    \* the publications of each database
    limbo,     \* the publications whose commit the owner could not confirm
    net,       \* the requests under way
    app,       \* the applications, see Off
    disk,      \* the journal file of each application
    drafts,    \* how many requests each application has prepared
    calls,     \* how many submissions each application has made
    claims     \* history: what calls told the applications

service == <<owner, ledger, limbo>>
counters == <<drafts, calls>>
vars == <<service, net, app, disk, counters, claims>>

Requests ==
    [intent : Clients, n : 1..MaxDrafts, db : Databases, after : 0..MaxSeq]
Entries ==
    [req : Requests \cup [intent : {None}, n : {0}, db : Databases, after : 0..MaxSeq],
     ok : BOOLEAN]
Replies == [seq : 0..MaxSeq, ok : BOOLEAN]

ASSUME BoundAssumption ==
    /\ W \in Nat \ {0} /\ MaxSeq \in Nat
    /\ MaxDrafts \in Nat /\ MaxCalls \in Nat
    /\ None \notin Databases /\ None \notin Clients
    /\ None # Torn /\ None \notin Replies
    /\ None \notin Requests /\ Torn \notin Requests

\* An application: whether it runs, the identity and sequence its client knows,
\* the prepared request, whether saveRequest has resolved for it, whether it may
\* have been sent, the current call (0: none), and the response to it.
Off ==
    [on |-> FALSE, id |-> None, seq |-> 0, draft |-> None, saved |-> FALSE,
     tried |-> FALSE, call |-> 0, reply |-> None]

Error == [seq |-> 0, ok |-> FALSE]   \* a response without a receipt

Larger(a, b) == IF a >= b THEN a ELSE b
Known(c, n) == app' = [app EXCEPT ![c].seq = Larger(@, n)]

-----------------------------------------------------------------------------
(* The client.                                                              *)

\* info: the client learns the identity and sequence, or confirms the identity
Info(c) ==
    /\ app[c].on /\ owner # None /\ app[c].id \in {None, owner}
    /\ app' = [app EXCEPT ![c].id = owner, ![c].seq = Larger(@, Len(ledger[owner]))]
    /\ UNCHANGED <<service, net, disk, counters, claims>>

\* read: the snapshot may hold a publication that is in limbo
Read(c) ==
    /\ app[c].on /\ owner # None /\ app[c].id = owner
    /\ \E n \in {Len(ledger[owner])} \cup
               (IF limbo[owner] = {} THEN {} ELSE {Len(ledger[owner]) + 1}) :
          n >= app[c].seq /\ Known(c, n)
    /\ UNCHANGED <<service, net, disk, counters, claims>>

\* prepareWrite: a fresh identity at the sequence the client knows
Prepare(c) ==
    /\ app[c].on /\ app[c].id # None /\ app[c].draft = None /\ disk[c] = None
    /\ drafts[c] < MaxDrafts
    /\ app' = [app EXCEPT
          ![c].draft = [intent |-> c, n |-> drafts[c] + 1, db |-> app[c].id,
                        after |-> app[c].seq],
          ![c].saved = FALSE, ![c].tried = FALSE]
    /\ drafts' = [drafts EXCEPT ![c] = @ + 1]
    /\ UNCHANGED <<service, net, disk, calls, claims>>

Saving(c) == app[c].on /\ app[c].draft # None /\ ~app[c].saved

\* saveRequest creates the file exclusively, then writes and syncs it
SaveBegin(c) ==
    /\ Saving(c) /\ disk[c] = None
    /\ disk' = [disk EXCEPT ![c] = Torn]
    /\ UNCHANGED <<service, net, app, counters, claims>>

\* Fault: saveRequest resolves before the file is on disk.
SaveEndUnsynced(c) ==
    /\ Saving(c) /\ disk[c] = Torn
    /\ app' = [app EXCEPT ![c].saved = TRUE]
    /\ UNCHANGED <<service, net, disk, counters, claims>>

SaveEnd(c) ==
    /\ Saving(c) /\ disk[c] = Torn
    /\ disk' = [disk EXCEPT ![c] = app[c].draft]
    /\ app' = [app EXCEPT ![c].saved = TRUE]
    /\ UNCHANGED <<service, net, counters, claims>>

\* saveRequest could not write and removes the file, or could not sync the
\* directory and leaves it there
SaveFails(c) ==
    /\ Saving(c) /\ disk[c] = Torn
    /\ \E f \in {None, app[c].draft} : disk' = [disk EXCEPT ![c] = f]
    /\ UNCHANGED <<service, net, app, counters, claims>>

Ready(c) == app[c].on /\ app[c].saved /\ app[c].call = 0 /\ app[c].id # None

\* submit, or recover: the request leaves
Send(c) ==
    /\ Ready(c) /\ app[c].draft.db = app[c].id /\ calls[c] < MaxCalls
    /\ calls' = [calls EXCEPT ![c] = @ + 1]
    /\ app' = [app EXCEPT ![c].call = calls[c] + 1, ![c].tried = TRUE]
    /\ net' = net \cup {[by |-> c, n |-> calls[c] + 1, req |-> app[c].draft]}
    /\ UNCHANGED <<service, disk, drafts, claims>>

\* Fault: recover reports what submit reports.
NotSentEither(c) ==
    /\ Ready(c)
    /\ claims' = claims \cup {[req |-> app[c].draft, what |-> "not-sent", seq |-> 0]}
    /\ UNCHANGED <<service, net, app, disk, counters>>

\* submit is refused before dispatch: another database, the client's limits, an
\* aborted signal, a closed client.  recover reports "unknown" instead.
NotSent(c) ==
    /\ Ready(c) /\ ~app[c].tried
    /\ claims' = claims \cup {[req |-> app[c].draft, what |-> "not-sent", seq |-> 0]}
    /\ UNCHANGED <<service, net, app, disk, counters>>

\* confirmReply
Confirmed(r, reply) == r.after < reply.seq /\ reply.seq - r.after <= W

Returned(c) == [app[c] EXCEPT !.call = 0, !.reply = None]

\* Fault: a rejection is taken for a rollback.
ReceiveRejected(c) ==
    /\ app[c].on /\ app[c].call # 0 /\ app[c].reply # None /\ ~app[c].reply.ok
    /\ claims' = claims \cup
          {[req |-> app[c].draft, what |-> "rolled-back", seq |-> app[c].reply.seq]}
    /\ app' = [app EXCEPT ![c] = [Returned(c) EXCEPT !.draft = None, !.saved = FALSE]]
    /\ UNCHANGED <<service, net, disk, counters>>

\* submit: the response holds the receipt of an error
ReceiveRolledBack(c) ==
    /\ app[c].on /\ app[c].call # 0 /\ app[c].reply # None
    /\ Confirmed(app[c].draft, app[c].reply) /\ ~app[c].reply.ok
    /\ claims' = claims \cup
          {[req |-> app[c].draft, what |-> "rolled-back", seq |-> app[c].reply.seq]}
    /\ app' = [app EXCEPT ![c] = [Returned(c) EXCEPT
          !.draft = None, !.saved = FALSE, !.seq = Larger(@, app[c].reply.seq)]]
    /\ UNCHANGED <<service, net, disk, counters>>

\* submit: the response holds the receipt of a result
ReceiveDone(c) ==
    /\ app[c].on /\ app[c].call # 0 /\ app[c].reply # None
    /\ Confirmed(app[c].draft, app[c].reply) /\ app[c].reply.ok
    /\ claims' = claims \cup
          {[req |-> app[c].draft, what |-> "done", seq |-> app[c].reply.seq]}
    /\ app' = [app EXCEPT ![c] = [Returned(c) EXCEPT !.seq = Larger(@, app[c].reply.seq)]]
    /\ UNCHANGED <<service, net, disk, counters>>

\* The call ends without a receipt: rejected, timed out, aborted, disconnected or
\* closed.  Its request may still be under way.
Unknown(c) ==
    /\ app[c].on /\ app[c].call # 0
    /\ app' = [app EXCEPT ![c] = Returned(c)]
    /\ net' \in {net, {m \in net : m.by # c \/ m.n # app[c].call}}
    /\ UNCHANGED <<service, disk, counters, claims>>

-----------------------------------------------------------------------------
(* The application.                                                         *)

\* After a confirmed rollback the journal file has served its purpose.
Forget(c) ==
    /\ app[c].on /\ app[c].draft = None /\ disk[c] # None
    /\ disk' = [disk EXCEPT ![c] = None]
    /\ UNCHANGED <<service, net, app, counters, claims>>

\* The application dies; a file being written may hold anything, and one whose
\* directory was not synced may be gone.
Crash(c) ==
    /\ app[c].on
    /\ app' = [app EXCEPT ![c] = Off]
    /\ IF Saving(c) /\ disk[c] # None
       THEN \E f \in {None, disk[c], app[c].draft} : disk' = [disk EXCEPT ![c] = f]
       ELSE UNCHANGED disk
    /\ UNCHANGED <<service, net, counters, claims>>

\* It starts again: loadRequest returns a saved request, which may have been
\* sent, and rejects a torn file.
Start(c) ==
    /\ ~app[c].on
    /\ IF disk[c] \in {None, Torn}
       THEN /\ app' = [app EXCEPT ![c] = [Off EXCEPT !.on = TRUE]]
            /\ disk' = [disk EXCEPT ![c] = None]
       ELSE /\ app' = [app EXCEPT ![c] = [Off EXCEPT
                  !.on = TRUE, !.draft = disk[c], !.saved = TRUE, !.tried = TRUE]]
            /\ UNCHANGED disk
    /\ UNCHANGED <<service, net, counters, claims>>

-----------------------------------------------------------------------------
(* The service.                                                             *)

\* The response reaches the call that waits for it.
Respond(m, reply) ==
    /\ net' = net \ {m}
    /\ app' = IF app[m.by].call = m.n THEN [app EXCEPT ![m.by].reply = reply] ELSE app

\* Fault: the database header is not compared.
SameDatabaseUnchecked(m) == owner # None
\* validate_request: the header names the database of this service
SameDatabase(m) == owner # None /\ m.req.db = owner

InWindow(d) == {n \in 1..Len(ledger[d]) : n > Len(ledger[d]) - W}
Unrecorded(r) ==
    /\ \A n \in InWindow(owner) : ledger[owner][n].req # r
    /\ r.after <= Len(ledger[owner]) /\ Len(ledger[owner]) - r.after < W

\* Any response without a receipt: another database, queue, deadline, position, fence
Reject(m) ==
    /\ owner # None
    /\ Respond(m, Error)
    /\ UNCHANGED <<service, disk, counters, claims>>

Replay(m) ==
    /\ SameDatabase(m)
    /\ \E n \in InWindow(owner) :
          /\ ledger[owner][n].req = m.req
          /\ Respond(m, [seq |-> n, ok |-> ledger[owner][n].ok])
    /\ UNCHANGED <<service, disk, counters, claims>>

Append1(e) ==
    /\ Len(ledger[owner]) < MaxSeq
    /\ ledger' = [ledger EXCEPT ![owner] = Append(@, e)]
    /\ limbo' = [limbo EXCEPT ![owner] = {}]

Publish(m) ==
    /\ SameDatabase(m) /\ Unrecorded(m.req)
    /\ \E ok \in BOOLEAN :
          /\ Append1([req |-> m.req, ok |-> ok])
          /\ Respond(m, [seq |-> Len(ledger[owner]) + 1, ok |-> ok])
    /\ UNCHANGED <<owner, disk, counters, claims>>

\* Fault: an uncertain commit is answered as a success.
UncertainConfirmed(m) ==
    /\ SameDatabase(m) /\ Unrecorded(m.req) /\ Len(ledger[owner]) < MaxSeq
    /\ \E ok \in BOOLEAN : limbo' = [limbo EXCEPT ![owner] = @ \cup {[req |-> m.req, ok |-> ok]}]
    /\ Respond(m, [seq |-> Len(ledger[owner]) + 1, ok |-> TRUE])
    /\ UNCHANGED <<owner, ledger, disk, counters, claims>>

\* The commit fails in a way that leaves its outcome open.
Uncertain(m) ==
    /\ SameDatabase(m) /\ Unrecorded(m.req) /\ Len(ledger[owner]) < MaxSeq
    /\ \E ok \in BOOLEAN : limbo' = [limbo EXCEPT ![owner] = @ \cup {[req |-> m.req, ok |-> ok]}]
    /\ Respond(m, Error)
    /\ UNCHANGED <<owner, ledger, disk, counters, claims>>

\* Other clients write.
Foreign ==
    /\ owner # None
    /\ Append1([req |-> [intent |-> None, n |-> 0, db |-> owner,
                         after |-> Len(ledger[owner])], ok |-> TRUE])
    /\ UNCHANGED <<owner, net, app, disk, counters, claims>>

Histories(d) == {ledger[d]} \cup {Append(ledger[d], e) : e \in limbo[d]}

OwnerStop ==
    /\ owner # None
    /\ owner' = None
    /\ \E h \in Histories(owner) : ledger' = [ledger EXCEPT ![owner] = h]
    /\ limbo' = [limbo EXCEPT ![owner] = {}]
    /\ UNCHANGED <<net, app, disk, counters, claims>>

OwnerStart ==
    /\ owner = None
    /\ owner' \in Databases
    /\ UNCHANGED <<ledger, limbo, net, app, disk, counters, claims>>

-----------------------------------------------------------------------------
Init ==
    /\ owner = None
    /\ ledger = [d \in Databases |-> <<>>] /\ limbo = [d \in Databases |-> {}]
    /\ net = {} /\ claims = {}
    /\ app = [c \in Clients |-> Off] /\ disk = [c \in Clients |-> None]
    /\ drafts = [c \in Clients |-> 0] /\ calls = [c \in Clients |-> 0]

Client(c) ==
    \/ Info(c) \/ Read(c) \/ Prepare(c) \/ SaveBegin(c) \/ SaveEnd(c) \/ SaveFails(c)
    \/ Send(c) \/ NotSent(c) \/ ReceiveRolledBack(c) \/ ReceiveDone(c) \/ Unknown(c)
    \/ Forget(c) \/ Crash(c) \/ Start(c)

Serve(m) == Reject(m) \/ Replay(m) \/ Publish(m) \/ Uncertain(m)

Next ==
    \/ \E c \in Clients : Client(c)
    \/ \E m \in net : Serve(m)
    \/ Foreign \/ OwnerStop \/ OwnerStart

Spec == Init /\ [][Next]_vars

-----------------------------------------------------------------------------
(* Properties.                                                              *)

Applications ==
    [on : BOOLEAN, id : Databases \cup {None}, seq : 0..MaxSeq,
     draft : Requests \cup {None}, saved : BOOLEAN, tried : BOOLEAN,
     call : 0..MaxCalls, reply : Replies \cup {None}]
Messages == [by : Clients, n : 1..MaxCalls, req : Requests]
Claims == [req : Requests, what : {"done", "rolled-back", "not-sent"}, seq : 0..MaxSeq]

\* The types of the applications, the network and the service.
TypeOK ==
    /\ owner \in Databases \cup {None}
    /\ ledger \in [Databases -> Seq(Entries)] /\ limbo \in [Databases -> SUBSET Entries]
    /\ net \subseteq Messages
    /\ app \in [Clients -> Applications]
    /\ disk \in [Clients -> Requests \cup {None, Torn}]
    /\ drafts \in [Clients -> 0..MaxDrafts] /\ calls \in [Clients -> 0..MaxCalls]
    /\ claims \subseteq Claims

\* A request takes effect only in the database it was prepared for, also when the
\* URL is served by another one in the meantime (http.rs:333, client.cjs:127).
NoStray ==
    /\ TypeOK
    /\ \A d \in Databases : \A h \in Histories(d) : \A n \in 1..Len(h) : h[n].req.db = d

\* What a call told its application stays true: a result and a rollback are the
\* outcome the database keeps, whatever arrives late, restarts or is retried
\* (confirmReply, client.cjs:283).
ClaimsHold ==
    \A k \in claims : k.what # "not-sent" =>
        \A h \in Histories(k.req.db) :
            /\ k.seq \in 1..Len(h)
            /\ h[k.seq] = [req |-> k.req, ok |-> (k.what = "done")]

\* An intent takes effect at most once, over all its requests and all databases.
IntentOnce ==
    \A d1, d2 \in Databases : \A h1 \in Histories(d1), h2 \in Histories(d2) :
        \A n1 \in 1..Len(h1), n2 \in 1..Len(h2) :
            (/\ h1[n1].ok /\ h2[n2].ok
             /\ h1[n1].req.intent = h2[n2].req.intent /\ h1[n1].req.intent # None)
            => d1 = d2 /\ (h1 = h2 => n1 = n2)

\* A request that may have reached the service and whose outcome the application
\* does not know can be loaded from the journal (saveRequest before submit).
Outstanding(r) ==
    /\ \/ \E m \in net : m.req = r
       \/ \E d \in Databases : \E h \in Histories(d) : \E n \in 1..Len(h) : h[n].req = r
    /\ \A k \in claims : k.req = r => k.what = "not-sent"
JournalCovers ==
    \A c \in Clients, n \in 1..MaxDrafts, d \in Databases, s \in 0..MaxSeq :
        LET r == [intent |-> c, n |-> n, db |-> d, after |-> s]
        IN  Outstanding(r) => disk[c] = r

\* "not-sent" is only said of a request that is nowhere (recover, client.cjs:142).
Nowhere(r) ==
    /\ \A m \in net : m.req # r
    /\ \A d \in Databases : \A h \in Histories(d) : \A n \in 1..Len(h) : h[n].req # r
NotSentIsTrue ==
    [][\A k \in claims' \ claims : k.what = "not-sent" => Nowhere(k.req)]_vars
=============================================================================
