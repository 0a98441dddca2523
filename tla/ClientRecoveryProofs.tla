------------------------ MODULE ClientRecoveryProofs ------------------------
(***************************************************************************)
(* For every number of applications, databases, requests and submissions,  *)
(* every window, and whatever is lost, late, restarted or replaced: what   *)
(* ClientRecovery says of the service's histories, of the claims and of    *)
(* the journal.                                                            *)
(***************************************************************************)
EXTENDS ClientRecovery, TLAPS

-----------------------------------------------------------------------------
(* The inductive invariant.                                                 *)

\* The request is in a ledger, or in limbo.
Entered(r) ==
    \E d \in Databases :
        \/ \E n \in 1..Len(ledger[d]) : ledger[d][n].req = r
        \/ \E e \in limbo[d] : e.req = r
Sent(r) == Entered(r) \/ \E m \in net : m.req = r

\* A claim names the place of its request in the ledger, within the window of the
\* request.
Holds(k) ==
    /\ k.seq \in 1..Len(ledger[k.req.db])
    /\ ledger[k.req.db][k.seq] = [req |-> k.req, ok |-> (k.what = "done")]
RolledBack(r) == \E k \in claims : k.req = r /\ k.what = "rolled-back"

\* A database: its entries are its own, lie in the windows of their requests and
\* are made once; what is in limbo could still be the next entry.
Recorded(d) ==
    /\ Len(ledger[d]) <= MaxSeq
    /\ \A n \in 1..Len(ledger[d]) :
          LET r == ledger[d][n].req
          IN  r.db = d /\ r.after < n /\ n <= r.after + W
    /\ \A i, j \in 1..Len(ledger[d]) :
          ledger[d][i].req = ledger[d][j].req /\ ledger[d][i].req.intent # None => i = j
    /\ \A e \in limbo[d] :
          /\ e.req.db = d /\ e.req.intent # None /\ Len(ledger[d]) < MaxSeq
          /\ e.req.after <= Len(ledger[d]) /\ Len(ledger[d]) - e.req.after < W
          /\ \A n \in 1..Len(ledger[d]) : ledger[d][n].req # e.req

\* Identities and call numbers are used once.
Fresh ==
    /\ \A r \in Requests : Sent(r) => r.n <= drafts[r.intent]
    /\ \A m \in net : m.req.intent = m.by /\ m.n <= calls[m.by]
    /\ \A c \in Clients :
          /\ app[c].draft # None => app[c].draft.intent = c /\ app[c].draft.n <= drafts[c]
          /\ disk[c] \in Requests => disk[c].intent = c /\ disk[c].n <= drafts[c]

\* What an application knows of its request.
Prepared(c) ==
    LET a == app[c]
    IN  /\ a.saved => a.on /\ a.draft # None /\ disk[c] = a.draft
        /\ a.on /\ a.draft = None /\ disk[c] \in Requests => RolledBack(disk[c])
        /\ a.draft # None /\ ~a.saved => disk[c] \in {None, Torn, a.draft} /\ ~a.tried
        /\ a.draft # None /\ ~a.tried => ~Sent(a.draft)
        /\ a.call # 0 => a.saved /\ a.tried /\ a.call <= calls[c]
        /\ a.reply # None => a.call # 0
        /\ a.reply # None /\ a.reply.seq # 0 =>
              /\ a.reply.seq \in 1..Len(ledger[a.draft.db])
              /\ ledger[a.draft.db][a.reply.seq] = [req |-> a.draft, ok |-> a.reply.ok]
        /\ \A m \in net : m.by = c /\ m.n = a.call => m.req = a.draft

\* A request that was sent is in the journal, unless its rollback was confirmed.
Journalled == \A r \in Requests : Sent(r) => RolledBack(r) \/ disk[r.intent] = r

Inv ==
    /\ TypeOK
    /\ \A d \in Databases : Recorded(d)
    /\ \A k \in claims : k.what # "not-sent" => Holds(k)
    /\ Fresh
    /\ \A c \in Clients : Prepared(c)
    /\ Journalled

-----------------------------------------------------------------------------
(* Frames: what a step of one client, and a step of the service, leaves     *)
(* alone.                                                                   *)

LEMMA AppendFacts ==
    ASSUME NEW S, NEW s \in Seq(S), NEW e \in S
    PROVE  /\ Append(s, e) \in Seq(S) /\ Len(s) \in Nat
           /\ Len(Append(s, e)) = Len(s) + 1
           /\ \A n \in 1..Len(s) : Append(s, e)[n] = s[n]
           /\ Append(s, e)[Len(s) + 1] = e
OBVIOUS

LEMMA OneApp ==
    ASSUME TypeOK, NEW c \in Clients, NEW a \in Applications, app' = [app EXCEPT ![c] = a]
    PROVE  /\ app' \in [Clients -> Applications] /\ app'[c] = a
           /\ \A d \in Clients \ {c} : app'[d] = app[d]
BY DEF TypeOK

LEMMA OneDisk ==
    ASSUME TypeOK, NEW c \in Clients, NEW f \in Requests \cup {None, Torn},
           disk' = [disk EXCEPT ![c] = f]
    PROVE  /\ disk' \in [Clients -> Requests \cup {None, Torn}] /\ disk'[c] = f
           /\ \A d \in Clients \ {c} : disk'[d] = disk[d]
BY DEF TypeOK

\* A step of c keeps the invariant if it keeps what concerns c: its messages carry
\* the journalled request, and its claims hold.
LEMMA ClientStep ==
    ASSUME Inv, NEW c \in Clients, TypeOK', ledger' = ledger, limbo' = limbo,
           \A d \in Clients \ {c} :
              /\ app'[d] = app[d] /\ disk'[d] = disk[d]
              /\ drafts'[d] = drafts[d] /\ calls'[d] = calls[d],
           drafts[c] <= drafts'[c], calls[c] <= calls'[c],
           claims \subseteq claims',
           \A k \in claims' \ claims : k.what # "not-sent" => Holds(k),
           \A m \in net' \ net : /\ m.by = c /\ m.n <= calls'[c]
                                 /\ m.req.intent = c /\ m.req.n <= drafts'[c],
           app'[c].draft # None => app'[c].draft.intent = c /\ app'[c].draft.n <= drafts'[c],
           disk'[c] \in Requests => disk'[c].intent = c /\ disk'[c].n <= drafts'[c],
           Prepared(c)',
           \A r \in Requests : r.intent = c /\ Sent(r)' => RolledBack(r)' \/ disk'[c] = r
    PROVE  Inv'
<1>1. \A r \in Requests : r.intent # c /\ Sent(r)' => Sent(r)
  BY DEF Sent, Entered
<1>2. \A r : RolledBack(r) => RolledBack(r)'
  BY DEF RolledBack
<1>3. \A d \in Databases : Recorded(d)'
  BY DEF Inv, Recorded
<1>4. \A k \in claims' : k.what # "not-sent" => Holds(k)'
  BY DEF Inv, Holds
<1>5. Fresh'
  <2>1. \A r \in Requests : Sent(r)' => Sent(r) \/ (r.intent = c /\ r.n <= drafts'[c])
    BY DEF Sent, Entered
  <2>t. /\ drafts \in [Clients -> 0..MaxDrafts] /\ drafts' \in [Clients -> 0..MaxDrafts]
        /\ calls \in [Clients -> 0..MaxCalls] /\ calls' \in [Clients -> 0..MaxCalls]
    BY DEF Inv, TypeOK
  <2>2. \A d \in Clients : drafts[d] \in Nat /\ drafts'[d] \in Nat /\ drafts[d] <= drafts'[d]
    BY <2>t
  <2>3. \A d \in Clients : calls[d] \in Nat /\ calls'[d] \in Nat /\ calls[d] <= calls'[d]
    BY <2>t
  <2>4. \A r \in Requests : r.intent \in Clients /\ r.n \in Nat
    BY DEF Requests
  <2>5. \A r \in Requests : Sent(r)' => r.n <= drafts'[r.intent]
    BY <2>1, <2>2, <2>4 DEF Inv, Fresh
  <2>6. \A m \in net' : m.req.intent = m.by /\ m.n <= calls'[m.by]
    <3>1. \A m \in net : m.req.intent = m.by /\ m.n <= calls[m.by] /\ m.by \in Clients /\ m.n \in Nat
      BY DEF Inv, Fresh, TypeOK, Messages
    <3> QED BY <2>3, <3>1
  <2>7. ASSUME NEW d \in Clients
        PROVE  /\ app'[d].draft # None => app'[d].draft.intent = d /\ app'[d].draft.n <= drafts'[d]
               /\ disk'[d] \in Requests => disk'[d].intent = d /\ disk'[d].n <= drafts'[d]
    BY DEF Inv, Fresh
  <2> QED BY <2>5, <2>6, <2>7 DEF Fresh
<1>6. ASSUME NEW d \in Clients, d # c PROVE Prepared(d)'
  <2>1. /\ app'[d] = app[d] /\ disk'[d] = disk[d] /\ calls'[d] = calls[d] /\ Prepared(d)
    BY <1>6 DEF Inv
  <2>2. app[d].draft # None => app[d].draft \in Requests /\ app[d].draft.intent # c
    BY <1>6 DEF Inv, Fresh, TypeOK, Applications
  <2>3. app[d].draft # None /\ ~Sent(app[d].draft) => ~Sent(app[d].draft)'
    BY <1>1, <2>1, <2>2
  <2>4. \A m \in net' : m.by = d => m \in net
    BY <1>6
  <2>5. app'[d].reply # None /\ app'[d].reply.seq # 0 =>
          /\ app'[d].reply.seq \in 1..Len(ledger'[app'[d].draft.db])
          /\ ledger'[app'[d].draft.db][app'[d].reply.seq]
                = [req |-> app'[d].draft, ok |-> app'[d].reply.ok]
    BY <2>1 DEF Prepared
  <2>6. \A m \in net' : m.by = d /\ m.n = app'[d].call => m.req = app'[d].draft
    <3>1. \A m \in net : m.by = d /\ m.n = app[d].call => m.req = app[d].draft
      BY Zenon, <2>1 DEF Prepared
    <3> QED BY Zenon, <2>1, <2>4, <3>1
  <2>7. app'[d].on /\ app'[d].draft = None /\ disk'[d] \in Requests => RolledBack(disk[d])'
    BY <1>2, <2>1 DEF Prepared
  <2> QED BY <2>1, <2>3, <2>5, <2>6, <2>7 DEF Prepared
<1>7. Journalled'
  <2>1. ASSUME NEW r \in Requests, r.intent # c, Sent(r)' PROVE RolledBack(r)' \/ disk'[r.intent] = r
    <3>1. RolledBack(r) \/ disk[r.intent] = r
      BY <1>1, <2>1 DEF Inv, Journalled
    <3>2. r.intent \in Clients
      BY DEF Requests
    <3> QED BY <1>2, <2>1, <3>1, <3>2
  <2> QED BY <2>1 DEF Journalled
<1> QED BY <1>3, <1>4, <1>5, <1>6, <1>7 DEF Inv

\* A step of the service keeps the invariant if it keeps the histories, publishes
\* only what is under way, and answers with what is in the ledger.
LEMMA ServiceStep ==
    ASSUME Inv, TypeOK', UNCHANGED <<disk, counters, claims>>, net' \subseteq net,
           \A d \in Databases :
              /\ Len(ledger[d]) <= Len(ledger'[d])
              /\ \A n \in 1..Len(ledger[d]) : ledger'[d][n] = ledger[d][n],
           \A d \in Databases : Recorded(d)',
           \A r \in Requests : Entered(r)' => Sent(r),
           \A c \in Clients :
              \/ app'[c] = app[c]
              \/ \E reply \in Replies :
                    /\ app'[c] = [app[c] EXCEPT !.reply = reply]
                    /\ app[c].call # 0
                    /\ reply.seq # 0 =>
                          /\ reply.seq \in 1..Len(ledger'[app[c].draft.db])
                          /\ ledger'[app[c].draft.db][reply.seq] =
                                [req |-> app[c].draft, ok |-> reply.ok]
    PROVE  Inv'
<1>1. \A r \in Requests : Sent(r)' => Sent(r)
  BY DEF Sent
<1>2. \A r : RolledBack(r) <=> RolledBack(r)'
  BY DEF RolledBack
<1>l. \A d \in Databases : Len(ledger[d]) \in Nat /\ Len(ledger'[d]) \in Nat
  BY DEF Inv, TypeOK
<1>3. ASSUME NEW k \in claims, k.what # "not-sent" PROVE Holds(k)'
  <2>1. Holds(k) /\ k.req.db \in Databases
    BY <1>3 DEF Inv, TypeOK, Claims, Requests
  <2> QED BY <1>l, <2>1 DEF Holds
<1>4. \A c \in Clients : /\ app'[c].on = app[c].on /\ app'[c].draft = app[c].draft
                         /\ app'[c].saved = app[c].saved /\ app'[c].tried = app[c].tried
                         /\ app'[c].call = app[c].call
  <2>1. \A c \in Clients : app[c] \in Applications
    BY DEF Inv, TypeOK
  <2> QED BY Zenon, <2>1 DEF Applications
<1>5. Fresh'
  <2>1. \A r \in Requests : Sent(r)' => r.n <= drafts'[r.intent]
    BY <1>1 DEF Inv, Fresh, counters
  <2> QED BY <1>4, <2>1 DEF Inv, Fresh, counters
<1>6. ASSUME NEW c \in Clients PROVE Prepared(c)'
  <2> DEFINE a == app[c]
             b == app'[c]
  <2>1. Prepared(c) /\ a \in Applications
    BY DEF Inv, TypeOK
  <2>2. a.draft # None /\ ~Sent(a.draft) => ~Sent(a.draft)'
    BY Zenon, <1>1, <2>1 DEF Applications
  <2>3. b.reply # None => b.call # 0
    BY Zenon, <1>4, <2>1 DEF Prepared, Applications
  <2>4. b.reply # None /\ b.reply.seq # 0 =>
          /\ b.reply.seq \in 1..Len(ledger'[b.draft.db])
          /\ ledger'[b.draft.db][b.reply.seq] = [req |-> b.draft, ok |-> b.reply.ok]
    <3>1. CASE b = a
      <4>1. a.reply # None => a.draft.db \in Databases
        BY <2>1 DEF Prepared, Applications, Requests
      <4>2. a.reply # None /\ a.reply.seq # 0 =>
              /\ a.reply.seq \in 1..Len(ledger[a.draft.db])
              /\ ledger[a.draft.db][a.reply.seq] = [req |-> a.draft, ok |-> a.reply.ok]
        BY <2>1 DEF Prepared
      <4> QED BY <1>l, <3>1, <4>1, <4>2
    <3>2. CASE b # a
      <4>1. PICK reply \in Replies :
              /\ b = [a EXCEPT !.reply = reply]
              /\ reply.seq # 0 =>
                    /\ reply.seq \in 1..Len(ledger'[a.draft.db])
                    /\ ledger'[a.draft.db][reply.seq] = [req |-> a.draft, ok |-> reply.ok]
        BY Zenon, <3>2
      <4>2. b.reply = reply
        BY <2>1, <4>1 DEF Applications
      <4>3. b.draft = a.draft
        BY <1>4
      <4> QED BY <4>1, <4>2, <4>3
    <3> QED BY <3>1, <3>2
  <2>5. \A m \in net' : m.by = c /\ m.n = b.call => m.req = b.draft
    <3>1. b.call = a.call /\ b.draft = a.draft /\ net' \subseteq net
      BY <1>4
    <3>2. \A m \in net : m.by = c /\ m.n = a.call => m.req = a.draft
      BY Zenon, <2>1 DEF Prepared
    <3> QED BY Zenon, <3>1, <3>2
  <2> QED BY <1>2, <1>4, <2>1, <2>2, <2>3, <2>4, <2>5 DEF Prepared, counters
<1>7. Journalled'
  BY <1>1, <1>2 DEF Inv, Journalled
<1> QED BY <1>3, <1>5, <1>6, <1>7 DEF Inv

-----------------------------------------------------------------------------
(* One lemma per action of a client or its application.                     *)

\* A step that changes only what c knows, in memory and on disk.
LEMMA MemoryStep ==
    ASSUME Inv, NEW c \in Clients, NEW a \in Applications, NEW f \in Requests \cup {None, Torn},
           app' = [app EXCEPT ![c] = a], disk' = [disk EXCEPT ![c] = f],
           UNCHANGED <<service, net, counters, claims>>,
           a.draft # None => a.draft.intent = c /\ a.draft.n <= drafts[c],
           f \in Requests => f.intent = c /\ f.n <= drafts[c],
           \A r \in Requests : r.intent = c /\ Sent(r) => RolledBack(r) \/ f = r,
           Prepared(c)'
    PROVE  Inv'
<1>1. /\ app' \in [Clients -> Applications] /\ app'[c] = a
      /\ \A d \in Clients \ {c} : app'[d] = app[d]
  BY Zenon, OneApp DEF Inv
<1>2. /\ disk' \in [Clients -> Requests \cup {None, Torn}] /\ disk'[c] = f
      /\ \A d \in Clients \ {c} : disk'[d] = disk[d]
  BY Zenon, OneDisk DEF Inv
<1>3. UNCHANGED <<owner, ledger, limbo, net, drafts, calls, claims>>
  BY DEF service, counters
<1>4. TypeOK'
  <2>1. TypeOK
    BY DEF Inv
  <2> QED BY Zenon, <1>1, <1>2, <1>3, <2>1 DEF TypeOK
<1>5. drafts[c] <= drafts'[c] /\ calls[c] <= calls'[c]
  BY <1>3, BoundAssumption DEF Inv, TypeOK
<1>6. \A r : (Sent(r)' <=> Sent(r)) /\ (RolledBack(r)' <=> RolledBack(r))
  BY <1>3 DEF Sent, Entered, RolledBack
<1> QED BY <1>1, <1>2, <1>3, <1>4, <1>5, <1>6, ClientStep

\* Prepared(c)' for such a step, in terms of the new values.
LEMMA MemoryPrepared ==
    ASSUME Inv, NEW c \in Clients, NEW a \in Applications, NEW f \in Requests \cup {None, Torn},
           app' = [app EXCEPT ![c] = a], disk' = [disk EXCEPT ![c] = f],
           UNCHANGED <<service, net, counters, claims>>,
           a.saved => a.on /\ a.draft # None /\ f = a.draft,
           a.on /\ a.draft = None /\ f \in Requests => RolledBack(f),
           a.draft # None /\ ~a.saved => f \in {None, Torn, a.draft} /\ ~a.tried,
           a.draft # None /\ ~a.tried => ~Sent(a.draft),
           \/ a.call = 0 /\ a.reply = None
           \/ /\ a.call = app[c].call /\ a.reply = app[c].reply /\ a.draft = app[c].draft
              /\ a.saved = app[c].saved /\ a.tried = app[c].tried
    PROVE  Prepared(c)'
<1>1. app'[c] = a /\ disk'[c] = f
  BY Zenon, OneApp, OneDisk DEF Inv
<1>2. UNCHANGED <<owner, ledger, limbo, net, drafts, calls, claims>>
  BY DEF service, counters
<1>3. \A r : (Sent(r)' <=> Sent(r)) /\ (RolledBack(r)' <=> RolledBack(r))
  BY <1>2 DEF Sent, Entered, RolledBack
<1>4. Prepared(c) /\ \A m \in net : m.n # 0
  BY DEF Inv, TypeOK, Messages
<1>5. /\ a.call # 0 => a.saved /\ a.tried /\ a.call <= calls[c]
      /\ a.reply # None => a.call # 0
      /\ a.reply # None /\ a.reply.seq # 0 =>
              /\ a.reply.seq \in 1..Len(ledger[a.draft.db])
              /\ ledger[a.draft.db][a.reply.seq] = [req |-> a.draft, ok |-> a.reply.ok]
      /\ \A m \in net : m.by = c /\ m.n = a.call => m.req = a.draft
  BY <1>4 DEF Prepared
<1> QED BY <1>1, <1>2, <1>3, <1>5 DEF Prepared

\* What the invariant says of the client of an action.
LEMMA Present ==
    ASSUME Inv, NEW c \in Clients
    PROVE  /\ app[c] \in Applications /\ disk[c] \in Requests \cup {None, Torn}
           /\ Prepared(c)
           /\ app[c].draft # None => app[c].draft.intent = c /\ app[c].draft.n <= drafts[c]
           /\ disk[c] \in Requests => disk[c].intent = c /\ disk[c].n <= drafts[c]
           /\ \A r \in Requests : r.intent = c /\ Sent(r) => RolledBack(r) \/ disk[c] = r
           /\ app = [app EXCEPT ![c] = app[c]] /\ disk = [disk EXCEPT ![c] = disk[c]]
BY DEF Inv, TypeOK, Fresh, Journalled

\* info and read change only the identity and the sequence a client knows.
LEMMA KnowledgeStep ==
    ASSUME Inv, NEW c \in Clients, NEW i \in Databases, NEW n \in 0..MaxSeq,
           app' = [app EXCEPT ![c] = [app[c] EXCEPT !.id = i, !.seq = Larger(app[c].seq, n)]],
           UNCHANGED <<service, net, disk, counters, claims>>
    PROVE  Inv'
<1> DEFINE s == Larger(app[c].seq, n)
           a == [app[c] EXCEPT !.id = i, !.seq = s]
<1>1. app[c] \in Applications /\ s \in 0..MaxSeq
  BY Present DEF Applications, Larger
<1> HIDE DEF s
<1>2. /\ a \in Applications /\ a.on = app[c].on /\ a.draft = app[c].draft
      /\ a.saved = app[c].saved /\ a.tried = app[c].tried /\ a.call = app[c].call
      /\ a.reply = app[c].reply
  BY Zenon, <1>1 DEF Applications
<1>3. app' = [app EXCEPT ![c] = a]
  BY DEF s
<1>4. disk' = [disk EXCEPT ![c] = disk[c]]
  BY Present
<1> HIDE DEF a
<1>5. Prepared(c) /\ disk[c] \in Requests \cup {None, Torn}
  BY Present
<1>6. UNCHANGED <<service, net, counters, claims>>
  OBVIOUS
<1>7. Prepared(c)'
  <2>1. /\ a.saved => a.on /\ a.draft # None /\ disk[c] = a.draft
        /\ a.on /\ a.draft = None /\ disk[c] \in Requests => RolledBack(disk[c])
        /\ a.draft # None /\ ~a.saved => disk[c] \in {None, Torn, a.draft} /\ ~a.tried
        /\ a.draft # None /\ ~a.tried => ~Sent(a.draft)
    BY <1>2, <1>5 DEF Prepared
  <2> QED BY Zenon, <1>2, <1>3, <1>4, <1>5, <1>6, <2>1, MemoryPrepared
<1>8. /\ a.draft # None => a.draft.intent = c /\ a.draft.n <= drafts[c]
      /\ disk[c] \in Requests => disk[c].intent = c /\ disk[c].n <= drafts[c]
      /\ \A r \in Requests : r.intent = c /\ Sent(r) => RolledBack(r) \/ disk[c] = r
  BY <1>2, Present
<1> QED BY Zenon, <1>2, <1>3, <1>4, <1>5, <1>6, <1>7, <1>8, MemoryStep

LEMMA InfoStep == ASSUME Inv, NEW c \in Clients, Info(c) PROVE Inv'
<1>1. owner \in Databases /\ Len(ledger[owner]) \in 0..MaxSeq
  BY DEF Info, Inv, TypeOK, Recorded
<1>2. app' = [app EXCEPT ![c] = [app[c] EXCEPT !.id = owner,
                                 !.seq = Larger(app[c].seq, Len(ledger[owner]))]]
  BY Zenon DEF Info
<1> QED BY Zenon, <1>1, <1>2, KnowledgeStep DEF Info

LEMMA ReadStep == ASSUME Inv, NEW c \in Clients, Read(c) PROVE Inv'
<1>1. owner \in Databases /\ app[c].id = owner
  BY DEF Read, Inv, TypeOK
<1>2. PICK n \in {Len(ledger[owner])} \cup
                 (IF limbo[owner] = {} THEN {} ELSE {Len(ledger[owner]) + 1}) : Known(c, n)
  BY DEF Read
<1>3. n \in 0..MaxSeq
  <2>1. Len(ledger[owner]) \in Nat /\ Recorded(owner) /\ MaxSeq \in Nat
    BY <1>1, BoundAssumption DEF Inv, TypeOK
  <2>2. limbo[owner] # {} => Len(ledger[owner]) < MaxSeq
    BY <2>1 DEF Recorded
  <2> QED BY <1>2, <2>1, <2>2 DEF Recorded
<1>4. app' = [app EXCEPT ![c] = [app[c] EXCEPT !.id = owner, !.seq = Larger(app[c].seq, n)]]
  <2>1. app' = [app EXCEPT ![c] = [app[c] EXCEPT !.seq = Larger(app[c].seq, n)]]
    BY <1>2 DEF Known
  <2>2. app[c] \in Applications
    BY Present
  <2>3. [app[c] EXCEPT !.seq = Larger(app[c].seq, n)]
          = [app[c] EXCEPT !.id = owner, !.seq = Larger(app[c].seq, n)]
    BY Zenon, <1>1, <2>2 DEF Applications
  <2> QED BY Zenon, <2>1, <2>3
<1> QED BY Zenon, <1>1, <1>3, <1>4, KnowledgeStep DEF Read

LEMMA PrepareStep == ASSUME Inv, NEW c \in Clients, Prepare(c) PROVE Inv'
<1> DEFINE r == [intent |-> c, n |-> drafts[c] + 1, db |-> app[c].id, after |-> app[c].seq]
           a == [app[c] EXCEPT !.draft = r, !.saved = FALSE, !.tried = FALSE]
<1>1. /\ app[c] \in Applications /\ Prepared(c) /\ disk[c] = None /\ app[c].draft = None
      /\ drafts \in [Clients -> 0..MaxDrafts] /\ drafts[c] < MaxDrafts
      /\ calls \in [Clients -> 0..MaxCalls]
  BY Present DEF Prepare, Inv, TypeOK
<1>2. r \in Requests /\ r.intent = c /\ r.n = drafts[c] + 1
  BY <1>1, BoundAssumption DEF Prepare, Applications, Requests
<1> HIDE DEF r
<1>3. /\ a \in Applications /\ a.draft = r /\ ~a.saved /\ ~a.tried
      /\ a.on = app[c].on /\ a.call = app[c].call /\ a.reply = app[c].reply
  BY Zenon, <1>1, <1>2 DEF Applications
<1>4. app' = [app EXCEPT ![c] = a]
  BY Zenon DEF Prepare, r
<1>5. a.call = 0 /\ a.reply = None /\ r # None
  BY <1>1, <1>2, <1>3, BoundAssumption DEF Prepared
<1> HIDE DEF a
<1>6. /\ app' \in [Clients -> Applications] /\ app'[c] = a
      /\ \A d \in Clients \ {c} : app'[d] = app[d]
  BY Zenon, <1>3, <1>4, OneApp DEF Inv
<1>7. UNCHANGED <<owner, ledger, limbo, net, disk, calls, claims>>
  BY DEF Prepare, service
<1>8. /\ drafts' \in [Clients -> 0..MaxDrafts] /\ drafts'[c] = drafts[c] + 1
      /\ \A d \in Clients \ {c} : drafts'[d] = drafts[d]
  <2>1. drafts[c] + 1 \in 0..MaxDrafts /\ drafts' = [drafts EXCEPT ![c] = drafts[c] + 1]
    BY <1>1, BoundAssumption DEF Prepare
  <2> QED BY <1>1, <2>1
<1>9. TypeOK'
  BY <1>6, <1>7, <1>8 DEF Inv, TypeOK
<1>10. drafts[c] <= drafts'[c] /\ calls[c] <= calls'[c] /\ r.n <= drafts'[c]
  BY <1>1, <1>2, <1>7, <1>8
<1>11. \A x : (Sent(x)' <=> Sent(x)) /\ (RolledBack(x)' <=> RolledBack(x))
  BY <1>7 DEF Sent, Entered, RolledBack
<1>12. ~Sent(r)
  BY <1>1, <1>2 DEF Inv, Fresh
<1>13. Prepared(c)'
  <2>1. \A m \in net : m.n # 0
    BY DEF Inv, TypeOK, Messages
  <2> QED BY <1>1, <1>3, <1>5, <1>6, <1>7, <1>11, <1>12, <2>1 DEF Prepared
<1>14. /\ app'[c].draft.intent = c /\ app'[c].draft.n <= drafts'[c]
       /\ disk'[c] \notin Requests
  BY <1>1, <1>2, <1>3, <1>6, <1>7, <1>10, BoundAssumption
<1>15. \A x \in Requests : x.intent = c /\ Sent(x)' => RolledBack(x)' \/ disk'[c] = x
  BY <1>7, <1>11, Present
<1> QED BY <1>6, <1>7, <1>8, <1>9, <1>10, <1>13, <1>14, <1>15, ClientStep

\* While a request is being saved everything sent before it is rolled back.
LEMMA SaveStep ==
    ASSUME Inv, NEW c \in Clients, app' = app, app[c].on, app[c].draft # None, ~app[c].saved,
           disk[c] \in {None, Torn}, NEW f \in {None, Torn, app[c].draft},
           disk' = [disk EXCEPT ![c] = f],
           UNCHANGED <<service, net, counters, claims>>
    PROVE  Inv'
<1>1. /\ app[c] \in Applications /\ Prepared(c) /\ app' = [app EXCEPT ![c] = app[c]]
      /\ app[c].draft.intent = c /\ app[c].draft.n <= drafts[c]
      /\ \A r \in Requests : r.intent = c /\ Sent(r) => RolledBack(r) \/ disk[c] = r
  BY Present
<1>2. /\ f \in Requests \cup {None, Torn} /\ disk[c] \notin Requests
      /\ f \in Requests => f.intent = c /\ f.n <= drafts[c]
  BY <1>1, BoundAssumption DEF Prepared, Applications
<1>3. \A r \in Requests : r.intent = c /\ Sent(r) => RolledBack(r) \/ f = r
  BY <1>1, <1>2
<1>4. ~app[c].tried /\ ~Sent(app[c].draft)
  BY <1>1 DEF Prepared
<1>5. Prepared(c)'
  BY Zenon, <1>1, <1>2, <1>4, MemoryPrepared
<1> QED BY Zenon, <1>1, <1>2, <1>3, <1>5, MemoryStep

LEMMA SaveBeginStep == ASSUME Inv, NEW c \in Clients, SaveBegin(c) PROVE Inv'
<1>1. disk[c] \in {None, Torn} /\ Torn \in {None, Torn, app[c].draft}
  BY Zenon DEF SaveBegin
<1> QED BY Zenon, <1>1, SaveStep DEF SaveBegin, Saving

LEMMA SaveFailsStep == ASSUME Inv, NEW c \in Clients, SaveFails(c) PROVE Inv'
<1>1. disk[c] \in {None, Torn}
  BY Zenon DEF SaveFails
<1>2. PICK f \in {None, Torn, app[c].draft} : disk' = [disk EXCEPT ![c] = f]
  BY Zenon DEF SaveFails
<1> QED BY Zenon, <1>1, <1>2, SaveStep DEF SaveFails, Saving

LEMMA SaveEndStep == ASSUME Inv, NEW c \in Clients, SaveEnd(c) PROVE Inv'
<1> DEFINE r == app[c].draft
           a == [app[c] EXCEPT !.saved = TRUE]
<1>1. /\ app[c] \in Applications /\ Prepared(c) /\ app[c].on /\ ~app[c].saved /\ r # None
      /\ r.intent = c /\ r.n <= drafts[c] /\ disk[c] = Torn
      /\ \A x \in Requests : x.intent = c /\ Sent(x) => RolledBack(x) \/ disk[c] = x
  BY Present DEF SaveEnd, Saving
<1>2. /\ a \in Applications /\ a.draft = r /\ a.saved /\ a.on /\ a.tried = app[c].tried
      /\ a.call = app[c].call /\ a.reply = app[c].reply /\ r \in Requests
  BY Zenon, <1>1 DEF Applications
<1>3. a.call = 0 /\ a.reply = None
  BY <1>1, <1>2 DEF Prepared
<1>4. app' = [app EXCEPT ![c] = a] /\ disk' = [disk EXCEPT ![c] = r]
  BY DEF SaveEnd
<1>5. a.draft # None /\ ~a.tried => ~Sent(a.draft)
  BY <1>1, <1>2 DEF Prepared
<1>6. UNCHANGED <<service, net, counters, claims>>
  BY DEF SaveEnd
<1> HIDE DEF r, a
<1>7. Prepared(c)'
  BY Zenon, <1>1, <1>2, <1>3, <1>4, <1>5, <1>6, MemoryPrepared
<1>8. \A x \in Requests : x.intent = c /\ Sent(x) => RolledBack(x) \/ r = x
  BY <1>1, BoundAssumption
<1>9. /\ a.draft # None => a.draft.intent = c /\ a.draft.n <= drafts[c]
      /\ r \in Requests => r.intent = c /\ r.n <= drafts[c]
      /\ r \in Requests \cup {None, Torn}
  BY <1>1, <1>2
<1> QED BY Zenon, <1>2, <1>4, <1>6, <1>7, <1>8, <1>9, MemoryStep

LEMMA ForgetStep == ASSUME Inv, NEW c \in Clients, Forget(c) PROVE Inv'
<1>1. /\ app[c] \in Applications /\ Prepared(c) /\ app' = [app EXCEPT ![c] = app[c]]
      /\ app[c].on /\ app[c].draft = None /\ disk' = [disk EXCEPT ![c] = None]
      /\ UNCHANGED <<service, net, counters, claims>>
      /\ \A r \in Requests : r.intent = c /\ Sent(r) => RolledBack(r) \/ disk[c] = r
  BY Present DEF Forget
<1>2. \A r \in Requests : r.intent = c /\ Sent(r) => RolledBack(r) \/ None = r
  BY <1>1 DEF Prepared
<1>3. ~app[c].saved /\ None \notin Requests
  BY <1>1, BoundAssumption DEF Prepared
<1>4. Prepared(c)'
  BY Zenon, <1>1, <1>3, MemoryPrepared
<1> QED BY Zenon, <1>1, <1>2, <1>3, <1>4, MemoryStep

\* A crash and a start leave the application with what the file holds.
LEMMA RestartStep ==
    ASSUME Inv, NEW c \in Clients, NEW a \in Applications, NEW f \in Requests \cup {None, Torn},
           app' = [app EXCEPT ![c] = a], disk' = [disk EXCEPT ![c] = f],
           UNCHANGED <<service, net, counters, claims>>,
           a.call = 0, a.reply = None,
           a.saved => a.on /\ a.tried /\ a.draft = f /\ f \in Requests,
           ~a.saved => a.draft = None, ~a.saved /\ a.on => f = None,
           f \in Requests => f.intent = c /\ f.n <= drafts[c],
           \A r \in Requests : r.intent = c /\ Sent(r) => RolledBack(r) \/ f = r
    PROVE  Inv'
<1>1. None \notin Requests
  BY BoundAssumption
<1>2. Prepared(c)'
  BY Zenon, <1>1, MemoryPrepared
<1> QED BY Zenon, <1>1, <1>2, MemoryStep

LEMMA OffFields ==
    /\ Off \in Applications /\ ~Off.on /\ ~Off.saved /\ Off.draft = None
    /\ Off.call = 0 /\ Off.reply = None
BY BoundAssumption DEF Off, Applications

LEMMA CrashStep == ASSUME Inv, NEW c \in Clients, Crash(c) PROVE Inv'
<1>1. /\ app' = [app EXCEPT ![c] = Off] /\ UNCHANGED <<service, net, counters, claims>>
      /\ Prepared(c) /\ disk[c] \in Requests \cup {None, Torn}
      /\ app[c].draft # None => app[c].draft \in Requests
      /\ app[c].draft # None => app[c].draft.intent = c /\ app[c].draft.n <= drafts[c]
      /\ disk[c] \in Requests => disk[c].intent = c /\ disk[c].n <= drafts[c]
      /\ \A r \in Requests : r.intent = c /\ Sent(r) => RolledBack(r) \/ disk[c] = r
      /\ disk = [disk EXCEPT ![c] = disk[c]]
  BY Present DEF Crash, Applications
<1>2. CASE Saving(c) /\ disk[c] # None
  <2>1. PICK f \in {None, disk[c], app[c].draft} : disk' = [disk EXCEPT ![c] = f]
    BY <1>2 DEF Crash
  <2>2. \A r \in Requests : r.intent = c /\ Sent(r) => RolledBack(r) \/ f = r
    <3>1. disk[c] \in {Torn, app[c].draft} /\ ~Sent(app[c].draft)
      BY <1>1, <1>2 DEF Prepared, Saving
    <3> QED BY <1>1, <3>1, BoundAssumption
  <2>3. /\ f \in Requests \cup {None, Torn}
        /\ f \in Requests => f.intent = c /\ f.n <= drafts[c]
    BY <1>1, <1>2, BoundAssumption DEF Saving
  <2>4. app' = [app EXCEPT ![c] = Off] /\ UNCHANGED <<service, net, counters, claims>>
    BY <1>1
  <2> QED BY Zenon, <2>1, <2>2, <2>3, <2>4, OffFields, RestartStep
<1>3. CASE disk' = disk
  <2>1. /\ disk' = [disk EXCEPT ![c] = disk[c]] /\ app' = [app EXCEPT ![c] = Off]
        /\ UNCHANGED <<service, net, counters, claims>>
    BY <1>1, <1>3
  <2>2. /\ disk[c] \in Requests \cup {None, Torn}
        /\ disk[c] \in Requests => disk[c].intent = c /\ disk[c].n <= drafts[c]
        /\ \A r \in Requests : r.intent = c /\ Sent(r) => RolledBack(r) \/ disk[c] = r
    BY <1>1
  <2> QED BY Zenon, <2>1, <2>2, OffFields, RestartStep
<1> QED BY <1>2, <1>3 DEF Crash

LEMMA StartStep == ASSUME Inv, NEW c \in Clients, Start(c) PROVE Inv'
<1>1. /\ UNCHANGED <<service, net, counters, claims>>
      /\ disk[c] \in Requests \cup {None, Torn}
      /\ disk[c] \in Requests => disk[c].intent = c /\ disk[c].n <= drafts[c]
      /\ \A r \in Requests : r.intent = c /\ Sent(r) => RolledBack(r) \/ disk[c] = r
      /\ disk = [disk EXCEPT ![c] = disk[c]]
  BY Present DEF Start
<1>2. CASE disk[c] \in {None, Torn}
  <2>1. [Off EXCEPT !.on = TRUE] \in Applications
    BY Zenon, OffFields DEF Applications
  <2>2. PICK a \in Applications, f \in Requests \cup {None, Torn} :
          /\ app' = [app EXCEPT ![c] = a] /\ disk' = [disk EXCEPT ![c] = f]
          /\ a = [Off EXCEPT !.on = TRUE] /\ f = None
    BY Zenon, <1>2, <2>1 DEF Start
  <2>3. /\ a.call = 0 /\ a.reply = None /\ ~a.saved /\ a.draft = None
        /\ f = None /\ f \notin Requests
    BY <2>2, OffFields, BoundAssumption DEF Applications
  <2>4. \A r \in Requests : r.intent = c /\ Sent(r) => RolledBack(r) \/ f = r
    BY <1>1, <1>2, BoundAssumption
  <2>5. app' = [app EXCEPT ![c] = a] /\ disk' = [disk EXCEPT ![c] = f]
    BY <2>2
  <2>6. UNCHANGED <<service, net, counters, claims>>
    BY <1>1
  <2>7. Prepared(c)'
    BY Zenon, <2>3, <2>5, <2>6, MemoryPrepared
  <2> QED BY Zenon, <2>3, <2>4, <2>5, <2>6, <2>7, MemoryStep
<1>3. CASE disk[c] \notin {None, Torn}
  <2> DEFINE a == [Off EXCEPT !.on = TRUE, !.draft = disk[c], !.saved = TRUE, !.tried = TRUE]
  <2>1. app' = [app EXCEPT ![c] = a] /\ disk' = [disk EXCEPT ![c] = disk[c]] /\ disk[c] \in Requests
    BY <1>1, <1>3 DEF Start
  <2>2. /\ a \in Applications /\ a.call = 0 /\ a.reply = None /\ a.saved /\ a.on /\ a.tried
        /\ a.draft = disk[c]
    BY Zenon, <2>1, OffFields DEF Applications
  <2> HIDE DEF a
  <2> QED BY Zenon, <1>1, <2>1, <2>2, RestartStep
<1> QED BY <1>2, <1>3

\* What stays when a call begins or ends: the request and the journal.
LEMMA CallStep ==
    ASSUME Inv, NEW c \in Clients, NEW a \in Applications, app' = [app EXCEPT ![c] = a],
           UNCHANGED <<service, disk, drafts>>, calls' \in [Clients -> 0..MaxCalls],
           calls[c] <= calls'[c], \A d \in Clients \ {c} : calls'[d] = calls[d],
           net' \subseteq Messages, claims' \subseteq Claims, claims \subseteq claims',
           \A k \in claims' \ claims : k.what # "not-sent" => Holds(k),
           \A m \in net' \ net : m.by = c /\ m.n <= calls'[c] /\ m.req = disk[c],
           a.draft \in {app[c].draft, None},
           Prepared(c)'
    PROVE  Inv'
<1>1. /\ app' \in [Clients -> Applications] /\ app'[c] = a
      /\ \A d \in Clients \ {c} : app'[d] = app[d]
  BY Zenon, OneApp DEF Inv
<1>2. UNCHANGED <<owner, ledger, limbo, disk, drafts>>
  BY DEF service
<1>3. TypeOK'
  BY <1>1, <1>2 DEF Inv, TypeOK
<1>4. drafts[c] <= drafts'[c]
  BY <1>2, BoundAssumption DEF Inv, TypeOK
<1>5. /\ app[c].draft # None => app[c].draft.intent = c /\ app[c].draft.n <= drafts[c]
      /\ disk[c] \in Requests => disk[c].intent = c /\ disk[c].n <= drafts[c]
      /\ \A r \in Requests : r.intent = c /\ Sent(r) => RolledBack(r) \/ disk[c] = r
  BY Present
<1>6. \A m \in net' \ net : /\ m.by = c /\ m.n <= calls'[c]
                            /\ m.req.intent = c /\ m.req.n <= drafts'[c]
  <2>1. \A m \in net' : m.req \in Requests
    BY DEF Messages
  <2> QED BY <1>2, <1>5, <2>1
<1>7. app'[c].draft # None => app'[c].draft.intent = c /\ app'[c].draft.n <= drafts'[c]
  BY <1>1, <1>2, <1>5
<1>8. disk'[c] \in Requests => disk'[c].intent = c /\ disk'[c].n <= drafts'[c]
  BY <1>2, <1>5
<1>9. \A r \in Requests : r.intent = c /\ Sent(r)' => RolledBack(r)' \/ disk'[c] = r
  <2>1. \A r \in Requests : Sent(r)' => Sent(r) \/ disk[c] = r
    BY <1>2 DEF Sent, Entered
  <2>2. \A r : RolledBack(r) => RolledBack(r)'
    BY DEF RolledBack
  <2> QED BY <1>2, <1>5, <2>1, <2>2
<1>10. \A d \in Clients \ {c} : /\ app'[d] = app[d] /\ disk'[d] = disk[d]
                                /\ drafts'[d] = drafts[d] /\ calls'[d] = calls[d]
  BY <1>1, <1>2
<1> QED BY <1>2, <1>3, <1>4, <1>6, <1>7, <1>8, <1>9, <1>10, ClientStep

LEMMA SendStep == ASSUME Inv, NEW c \in Clients, Send(c) PROVE Inv'
<1> DEFINE n == calls[c] + 1
           a == [app[c] EXCEPT !.call = n, !.tried = TRUE]
           x == [by |-> c, n |-> n, req |-> app[c].draft]
<1>1. /\ app[c] \in Applications /\ Prepared(c) /\ app[c].on /\ app[c].saved /\ app[c].call = 0
      /\ calls \in [Clients -> 0..MaxCalls] /\ calls[c] < MaxCalls
  BY Present DEF Send, Ready, Inv, TypeOK
<1>2. n \in 1..MaxCalls /\ n \in 0..MaxCalls /\ calls[c] \in Nat /\ n = calls[c] + 1
  BY <1>1, BoundAssumption
<1> HIDE DEF n
<1>3. /\ app[c].draft \in Requests /\ app[c].draft # None /\ disk[c] = app[c].draft
      /\ app[c].reply = None
  BY <1>1 DEF Prepared, Applications
<1>4. /\ a \in Applications /\ a.on /\ a.saved /\ a.tried /\ a.draft = app[c].draft
      /\ a.call = n /\ a.reply = None
  BY Zenon, <1>1, <1>2, <1>3 DEF Applications
<1>5. x \in Messages /\ x.by = c /\ x.n = n /\ x.req = app[c].draft
  BY <1>2, <1>3 DEF Messages
<1>6. app' = [app EXCEPT ![c] = a] /\ net' = net \cup {x}
  BY Zenon DEF Send, n
<1>7. UNCHANGED <<service, disk, drafts, claims>>
  BY DEF Send
<1>8. /\ calls' \in [Clients -> 0..MaxCalls] /\ calls'[c] = calls[c] + 1
      /\ \A d \in Clients \ {c} : calls'[d] = calls[d]
  <2>1. calls' = [calls EXCEPT ![c] = calls[c] + 1]
    BY DEF Send
  <2> QED BY <1>1, <1>2, <2>1
<1> HIDE DEF a, x
<1>9. net' \subseteq Messages /\ claims' \subseteq Claims
  BY <1>5, <1>6, <1>7 DEF Inv, TypeOK
<1>10. \A m \in net' \ net : m.by = c /\ m.n <= calls'[c] /\ m.req = disk[c]
  BY <1>2, <1>3, <1>5, <1>6, <1>8
<1>11. Prepared(c)'
  <2>1. app'[c] = a
    BY Zenon, <1>4, <1>6, OneApp DEF Inv
  <2>2. \A m \in net' : m.by = c /\ m.n = a.call => m.req = a.draft
    <3>1. \A m \in net : m.by = c => m.n <= calls[c] /\ m.n \in Nat
      BY DEF Inv, Fresh, TypeOK, Messages
    <3> QED BY <1>2, <1>4, <1>5, <1>6, <3>1
  <2>3. a.call <= calls'[c] /\ disk' = disk
    BY <1>2, <1>4, <1>7, <1>8
  <2> QED BY <1>3, <1>4, <2>1, <2>2, <2>3 DEF Prepared
<1>12. calls[c] <= calls'[c]
  BY <1>2, <1>8
<1> QED BY Zenon, <1>4, <1>6, <1>7, <1>8, <1>9, <1>10, <1>11, <1>12, CallStep

\* The call of c is over, with the claims it made.
LEMMA EndStep ==
    ASSUME Inv, NEW c \in Clients, NEW a \in Applications, app' = [app EXCEPT ![c] = a],
           UNCHANGED <<service, disk, counters>>, net' \subseteq net,
           claims' \subseteq Claims, claims \subseteq claims',
           \A k \in claims' \ claims : k.what # "not-sent" => Holds(k),
           a.on = app[c].on, a.tried = app[c].tried, a.call = 0, a.reply = None,
           \/ a.draft = app[c].draft /\ a.saved = app[c].saved
           \/ a.draft = None /\ ~a.saved /\ (disk[c] \in Requests => RolledBack(disk[c])')
    PROVE  Inv'
<1>1. UNCHANGED <<owner, ledger, limbo, disk, drafts, calls>>
  BY DEF service, counters
<1>2. calls \in [Clients -> 0..MaxCalls] /\ calls[c] <= calls'[c] /\ net \subseteq Messages
  <2>1. calls \in [Clients -> 0..MaxCalls] /\ net \subseteq Messages
    BY Zenon DEF Inv, TypeOK
  <2>2. calls[c] \in 0..MaxCalls /\ calls'[c] = calls[c]
    BY Zenon, <1>1, <2>1
  <2>3. calls[c] <= calls'[c]
    BY ONLY <2>2, BoundAssumption
  <2> QED BY Zenon, <2>1, <2>3
<1>3. \A r : RolledBack(r) => RolledBack(r)'
  BY DEF RolledBack
<1>4. \A r : Sent(r)' => Sent(r)
  BY <1>1 DEF Sent, Entered
<1>5. Prepared(c)'
  <2>1. app'[c] = a /\ disk'[c] = disk[c]
    BY Zenon, <1>1, OneApp DEF Inv
  <2>2. \A m \in net' : m.n # 0
    BY <1>2 DEF Messages
  <2>3. Prepared(c)
    BY DEF Inv
  <2>4. CASE a.draft = app[c].draft /\ a.saved = app[c].saved
    BY <1>3, <1>4, <2>1, <2>2, <2>3, <2>4 DEF Prepared
  <2>5. CASE a.draft = None /\ ~a.saved /\ (disk[c] \in Requests => RolledBack(disk[c])')
    BY <2>1, <2>2, <2>5 DEF Prepared
  <2> QED BY <2>4, <2>5
<1>6. UNCHANGED <<service, disk, drafts>> /\ calls' \in [Clients -> 0..MaxCalls]
      /\ (\A d \in Clients \ {c} : calls'[d] = calls[d]) /\ net' \subseteq Messages
  BY <1>1, <1>2
<1>7. a.draft \in {app[c].draft, None} /\ \A m \in net' \ net : FALSE
  OBVIOUS
<1> QED BY Zenon, <1>2, <1>5, <1>6, <1>7, CallStep

LEMMA ReturnedFields ==
    ASSUME Inv, NEW c \in Clients
    PROVE  /\ Returned(c) \in Applications /\ Returned(c).call = 0 /\ Returned(c).reply = None
           /\ Returned(c).on = app[c].on /\ Returned(c).tried = app[c].tried
           /\ Returned(c).draft = app[c].draft /\ Returned(c).saved = app[c].saved
           /\ Returned(c).seq = app[c].seq
<1>1. app[c] \in Applications /\ 0 \in 0..MaxCalls
  BY Present, BoundAssumption
<1> QED BY Zenon, <1>1 DEF Returned, Applications

LEMMA UnknownStep == ASSUME Inv, NEW c \in Clients, Unknown(c) PROVE Inv'
<1>1. /\ app' = [app EXCEPT ![c] = Returned(c)] /\ net' \subseteq net
      /\ UNCHANGED <<service, disk, counters>> /\ claims' = claims
  BY DEF Unknown
<1>2. claims' \subseteq Claims /\ \A k \in claims' \ claims : FALSE
  BY <1>1 DEF Inv, TypeOK
<1> QED BY Zenon, <1>1, <1>2, ReturnedFields, EndStep

LEMMA NotSentStep == ASSUME Inv, NEW c \in Clients, NotSent(c) PROVE Inv'
<1> DEFINE k == [req |-> app[c].draft, what |-> "not-sent", seq |-> 0]
<1>1. /\ app[c] \in Applications /\ Prepared(c) /\ app[c].saved /\ app[c].call = 0
      /\ app' = [app EXCEPT ![c] = app[c]]
  BY Present DEF NotSent, Ready
<1>2. app[c].draft \in Requests /\ app[c].reply = None
  BY <1>1 DEF Prepared, Applications
<1>3. k \in Claims /\ k.what = "not-sent"
  BY <1>2, BoundAssumption DEF Claims
<1>4. claims' = claims \cup {k} /\ net' \subseteq net /\ UNCHANGED <<service, disk, counters>>
  BY DEF NotSent
<1> HIDE DEF k
<1>5. claims' \subseteq Claims /\ claims \subseteq claims'
  BY <1>3, <1>4 DEF Inv, TypeOK
<1>6. \A j \in claims' \ claims : j.what # "not-sent" => Holds(j)
  BY <1>3, <1>4
<1> QED BY Zenon, <1>1, <1>2, <1>4, <1>5, <1>6, EndStep

\* A reply that confirms the request of the call names its place in the ledger.
LEMMA ConfirmedClaim ==
    ASSUME Inv, NEW c \in Clients, app[c].call # 0, app[c].reply # None,
           Confirmed(app[c].draft, app[c].reply),
           NEW what \in {"done", "rolled-back"}, app[c].reply.ok = (what = "done"),
           claims' = claims \cup {[req |-> app[c].draft, what |-> what, seq |-> app[c].reply.seq]}
    PROVE  /\ claims' \subseteq Claims /\ claims \subseteq claims'
           /\ \A k \in claims' \ claims : Holds(k)
           /\ app[c].reply.seq \in 0..MaxSeq /\ app[c].draft \in Requests
           /\ disk[c] = app[c].draft
           /\ \E k \in claims' : k.req = app[c].draft /\ k.what = what
<1> DEFINE r == app[c].draft
           n == app[c].reply.seq
           k == [req |-> r, what |-> what, seq |-> n]
<1>1. app[c] \in Applications /\ Prepared(c)
  BY Present
<1>2. r \in Requests /\ app[c].reply \in Replies /\ disk[c] = r
  BY <1>1 DEF Prepared, Applications
<1>3. n \in 0..MaxSeq /\ r.after \in Nat
  BY <1>2, BoundAssumption DEF Replies, Requests
<1>4. n # 0
  BY <1>3 DEF Confirmed
<1>5. n \in 1..Len(ledger[r.db]) /\ ledger[r.db][n] = [req |-> r, ok |-> app[c].reply.ok]
  BY <1>1, <1>4 DEF Prepared
<1> HIDE DEF r, n
<1>6. k \in Claims /\ k.req = r /\ k.what = what /\ k.seq = n
  BY <1>2, <1>3 DEF Claims
<1>7. claims' = claims \cup {k}
  BY DEF r, n
<1> HIDE DEF k
<1>8. Holds(k)
  BY <1>5, <1>6 DEF Holds
<1>9. claims' \subseteq Claims /\ claims \subseteq claims'
  BY <1>6, <1>7 DEF Inv, TypeOK
<1>10. \E j \in claims' : j.req = r /\ j.what = what
  BY <1>6, <1>7
<1> QED BY <1>2, <1>3, <1>7, <1>8, <1>9, <1>10 DEF r, n

LEMMA ReceiveRolledBackStep == ASSUME Inv, NEW c \in Clients, ReceiveRolledBack(c) PROVE Inv'
<1> DEFINE s == Larger(Returned(c).seq, app[c].reply.seq)
           a == [Returned(c) EXCEPT !.draft = None, !.saved = FALSE, !.seq = s]
<1>1. /\ app[c].call # 0 /\ app[c].reply # None /\ Confirmed(app[c].draft, app[c].reply)
      /\ ~app[c].reply.ok
      /\ claims' = claims \cup
           {[req |-> app[c].draft, what |-> "rolled-back", seq |-> app[c].reply.seq]}
      /\ app' = [app EXCEPT ![c] = a] /\ UNCHANGED <<service, net, disk, counters>>
  BY DEF ReceiveRolledBack
<1>2. app[c].reply.ok = ("rolled-back" = "done")
  <2>1. app[c] \in Applications
    BY Present
  <2>2. app[c].reply.ok \in BOOLEAN
    BY <1>1, <2>1 DEF Applications, Replies
  <2> QED BY <1>1, <2>2
<1>3. /\ claims' \subseteq Claims /\ claims \subseteq claims'
      /\ \A k \in claims' \ claims : Holds(k)
      /\ app[c].reply.seq \in 0..MaxSeq /\ disk[c] = app[c].draft
      /\ \E k \in claims' : k.req = app[c].draft /\ k.what = "rolled-back"
  BY <1>1, <1>2, ConfirmedClaim
<1>4. s \in 0..MaxSeq
  <2>1. Returned(c) \in Applications
    BY ReturnedFields
  <2> QED BY <1>3, <2>1 DEF Applications, Larger
<1> HIDE DEF s
<1>5. /\ a \in Applications /\ a.on = app[c].on /\ a.tried = app[c].tried /\ a.call = 0
      /\ a.reply = None /\ a.draft = None /\ ~a.saved
  BY Zenon, <1>4, ReturnedFields DEF Applications
<1> HIDE DEF a
<1>6. net' \subseteq net /\ UNCHANGED <<service, disk, counters>> /\ app' = [app EXCEPT ![c] = a]
  BY <1>1
<1>7. RolledBack(disk[c])'
  BY <1>3, <1>6 DEF RolledBack
<1> QED BY Zenon, <1>3, <1>5, <1>6, <1>7, EndStep

LEMMA ReceiveDoneStep == ASSUME Inv, NEW c \in Clients, ReceiveDone(c) PROVE Inv'
<1> DEFINE s == Larger(Returned(c).seq, app[c].reply.seq)
           a == [Returned(c) EXCEPT !.seq = s]
<1>1. /\ app[c].call # 0 /\ app[c].reply # None /\ Confirmed(app[c].draft, app[c].reply)
      /\ app[c].reply.ok
      /\ claims' = claims \cup
           {[req |-> app[c].draft, what |-> "done", seq |-> app[c].reply.seq]}
      /\ app' = [app EXCEPT ![c] = a] /\ UNCHANGED <<service, net, disk, counters>>
  BY DEF ReceiveDone
<1>2. app[c].reply.ok = ("done" = "done")
  <2>1. app[c] \in Applications
    BY Present
  <2>2. app[c].reply.ok \in BOOLEAN
    BY <1>1, <2>1 DEF Applications, Replies
  <2> QED BY Zenon, <1>1, <2>2
<1>3. /\ claims' \subseteq Claims /\ claims \subseteq claims'
      /\ \A k \in claims' \ claims : Holds(k)
      /\ app[c].reply.seq \in 0..MaxSeq
  BY <1>1, <1>2, ConfirmedClaim
<1>4. s \in 0..MaxSeq
  <2>1. Returned(c) \in Applications
    BY ReturnedFields
  <2> QED BY <1>3, <2>1 DEF Applications, Larger
<1> HIDE DEF s
<1>5. /\ a \in Applications /\ a.on = app[c].on /\ a.tried = app[c].tried /\ a.call = 0
      /\ a.reply = None /\ a.draft = app[c].draft /\ a.saved = app[c].saved
  BY <1>4, ReturnedFields DEF Applications
<1> HIDE DEF a
<1>6. net' \subseteq net /\ UNCHANGED <<service, disk, counters>> /\ app' = [app EXCEPT ![c] = a]
  BY <1>1
<1> QED BY Zenon, <1>3, <1>5, <1>6, EndStep

LEMMA ClientKeeps == ASSUME Inv, NEW c \in Clients, Client(c) PROVE Inv'
BY InfoStep, ReadStep, PrepareStep, SaveBeginStep, SaveEndStep, SaveFailsStep, SendStep,
   NotSentStep, ReceiveRolledBackStep, ReceiveDoneStep, UnknownStep, ForgetStep, CrashStep,
   StartStep DEF Client

-----------------------------------------------------------------------------
(* The service.                                                             *)

\* e can be the next entry of the database d.
MayFollow(d, e) ==
    /\ e \in Entries /\ e.req.db = d /\ Len(ledger[d]) < MaxSeq
    /\ e.req.after <= Len(ledger[d]) /\ Len(ledger[d]) - e.req.after < W
    /\ e.req.intent # None => \A n \in 1..Len(ledger[d]) : ledger[d][n].req # e.req

LEMMA EntryTypes ==
    ASSUME NEW e \in Entries
    PROVE  /\ e.req.after \in Nat /\ e.req.after <= MaxSeq /\ e.req.db \in Databases
           /\ e.ok \in BOOLEAN /\ (e.req \in Requests <=> e.req.intent # None)
BY BoundAssumption DEF Entries, Requests

LEMMA LedgerTypes ==
    ASSUME Inv, NEW d \in Databases
    PROVE  /\ ledger[d] \in Seq(Entries) /\ Len(ledger[d]) \in Nat /\ Len(ledger[d]) <= MaxSeq
           /\ limbo[d] \subseteq Entries /\ Recorded(d)
           /\ \A n \in 1..Len(ledger[d]) : ledger[d][n] \in Entries
<1>1. Recorded(d) /\ ledger \in [Databases -> Seq(Entries)]
      /\ limbo \in [Databases -> SUBSET Entries]
  BY Zenon DEF Inv, TypeOK
<1>2. ledger[d] \in Seq(Entries) /\ limbo[d] \subseteq Entries
  BY Zenon, <1>1
<1>3. Len(ledger[d]) <= MaxSeq
  BY Zenon, <1>1 DEF Recorded
<1>4. Len(ledger[d]) \in Nat /\ \A n \in 1..Len(ledger[d]) : ledger[d][n] \in Entries
  BY ONLY <1>2
<1> QED BY Zenon, <1>1, <1>2, <1>3, <1>4

LEMMA RecordedKept ==
    ASSUME NEW d, ledger'[d] = ledger[d], limbo'[d] = limbo[d], Recorded(d)
    PROVE  Recorded(d)'
<1>1. \A i, j \in 1..Len(ledger'[d]) :
        ledger'[d][i].req = ledger'[d][j].req /\ ledger'[d][i].req.intent # None => i = j
  BY Zenon DEF Recorded
<1> QED BY Zenon, <1>1 DEF Recorded

\* A history that grows by such an entry is as good as before.
LEMMA Extended ==
    ASSUME Inv, NEW d \in Databases, NEW e, MayFollow(d, e),
           ledger' = [ledger EXCEPT ![d] = Append(ledger[d], e)],
           limbo' = [limbo EXCEPT ![d] = {}]
    PROVE  /\ ledger' \in [Databases -> Seq(Entries)] /\ limbo' \in [Databases -> SUBSET Entries]
           /\ \A x \in Databases :
                 /\ Len(ledger[x]) <= Len(ledger'[x])
                 /\ \A n \in 1..Len(ledger[x]) : ledger'[x][n] = ledger[x][n]
           /\ Len(ledger[d]) + 1 \in 1..Len(ledger'[d])
           /\ ledger'[d][Len(ledger[d]) + 1] = e
           /\ \A x \in Databases : Recorded(x)'
           /\ \A r : Entered(r)' => Entered(r) \/ r = e.req
<1> DEFINE N == Len(ledger[d])
           h == Append(ledger[d], e)
<1>1. /\ e \in Entries /\ e.req.db = d /\ N < MaxSeq /\ e.req.after <= N /\ N - e.req.after < W
      /\ e.req.intent # None => \A n \in 1..N : ledger[d][n].req # e.req
  BY DEF MayFollow
<1>2. ledger[d] \in Seq(Entries) /\ N \in Nat /\ Recorded(d)
  BY LedgerTypes
<1>3. /\ h \in Seq(Entries) /\ Len(h) = N + 1 /\ h[N + 1] = e
      /\ \A n \in 1..N : h[n] = ledger[d][n]
  BY <1>1, <1>2, AppendFacts
<1>4. ledger \in [Databases -> Seq(Entries)] /\ limbo \in [Databases -> SUBSET Entries]
  BY DEF Inv, TypeOK
<1>5. ledger' = [ledger EXCEPT ![d] = h]
  OBVIOUS
<1> HIDE DEF h
<1>6. /\ ledger' \in [Databases -> Seq(Entries)] /\ limbo' \in [Databases -> SUBSET Entries]
      /\ ledger'[d] = h /\ limbo'[d] = {}
      /\ \A x \in Databases \ {d} : ledger'[x] = ledger[x] /\ limbo'[x] = limbo[x]
  BY <1>3, <1>4, <1>5
<1> HIDE DEF N
<1>7. \A x \in Databases : Len(ledger[x]) \in Nat
  BY LedgerTypes
<1>8. ASSUME NEW x \in Databases
      PROVE  /\ Len(ledger[x]) <= Len(ledger'[x])
             /\ \A n \in 1..Len(ledger[x]) : ledger'[x][n] = ledger[x][n]
  <2>1. CASE x = d
    <3>1. Len(ledger[x]) = N /\ ledger'[x] = h
      BY <1>6, <2>1 DEF N
    <3> QED BY <1>2, <1>3, <2>1, <3>1
  <2>2. CASE x # d
    BY <1>6, <1>7, <2>2
  <2> QED BY <2>1, <2>2
<1>9. N + 1 \in 1..Len(ledger'[d]) /\ ledger'[d][N + 1] = e
  BY <1>2, <1>3, <1>6
<1>10. ASSUME NEW x \in Databases, x # d PROVE Recorded(x)'
  <2>1. ledger'[x] = ledger[x] /\ limbo'[x] = limbo[x] /\ Recorded(x)
    BY <1>6, <1>10 DEF Inv
  <2> QED BY <2>1, RecordedKept
<1>11. Recorded(d)'
  <2>1. Len(h) <= MaxSeq
    BY <1>1, <1>2, <1>3, BoundAssumption
  <2>2. ASSUME NEW n \in 1..Len(h)
        PROVE  h[n].req.db = d /\ h[n].req.after < n /\ n <= h[n].req.after + W
    <3>1. CASE n \in 1..N
      <4>1. h[n] = ledger[d][n]
        BY <1>3, <3>1
      <4>2. LET r == ledger[d][n].req IN r.db = d /\ r.after < n /\ n <= r.after + W
        BY <1>2, <3>1 DEF Recorded, N
      <4> QED BY <4>1, <4>2
    <3>2. CASE n = N + 1
      <4>1. e.req.after \in Nat /\ W \in Nat
        BY <1>1, EntryTypes, BoundAssumption
      <4>2. e.req.after < N + 1 /\ N + 1 <= e.req.after + W
        BY <1>1, <1>2, <4>1
      <4> QED BY <1>1, <1>3, <3>2, <4>2
    <3>3. n \in 1..N \/ n = N + 1
      BY <1>2, <1>3
    <3> QED BY Zenon, <3>1, <3>2, <3>3
  <2>3. ASSUME NEW i \in 1..Len(h), NEW j \in 1..Len(h),
               h[i].req = h[j].req, h[i].req.intent # None
        PROVE  i = j
    <3>1. CASE i \in 1..N /\ j \in 1..N
      BY Zenon, <1>2, <1>3, <2>3, <3>1 DEF Recorded, N
    <3>2. CASE i = N + 1 /\ j \in 1..N
      BY <1>1, <1>3, <2>3, <3>2
    <3>3. CASE i \in 1..N /\ j = N + 1
      BY <1>1, <1>3, <2>3, <3>3
    <3>4. CASE i = N + 1 /\ j = N + 1
      BY <3>4
    <3> QED BY <1>2, <1>3, <3>1, <3>2, <3>3, <3>4
  <2> QED BY Zenon, <1>6, <2>1, <2>2, <2>3 DEF Recorded
<1>12. ASSUME NEW r, Entered(r)' PROVE Entered(r) \/ r = e.req
  <2>1. PICK x \in Databases : \/ \E n \in 1..Len(ledger'[x]) : ledger'[x][n].req = r
                               \/ \E y \in limbo'[x] : y.req = r
    BY <1>12 DEF Entered
  <2>2. CASE x # d
    BY <1>6, <2>1, <2>2 DEF Entered
  <2>3. CASE x = d
    <3>1. PICK n \in 1..Len(h) : h[n].req = r
      BY <1>6, <2>1, <2>3
    <3>2. CASE n = N + 1
      BY <1>3, <3>1, <3>2
    <3>3. CASE n \in 1..N
      BY <1>3, <3>1, <3>3 DEF Entered, N
    <3> QED BY <1>2, <1>3, <3>1, <3>2, <3>3
  <2> QED BY <2>2, <2>3
<1> QED BY <1>6, <1>8, <1>9, <1>10, <1>11, <1>12 DEF N

\* A request that the window does not hold is nowhere in the ledger.
LEMMA UnrecordedIsNew ==
    ASSUME Inv, owner \in Databases, NEW r \in Requests, r.db = owner, Unrecorded(r),
           NEW ok \in BOOLEAN, Len(ledger[owner]) < MaxSeq
    PROVE  MayFollow(owner, [req |-> r, ok |-> ok])
<1> DEFINE e == [req |-> r, ok |-> ok]
<1>1. e \in Entries /\ e.req = r
  BY DEF Entries
<1>2. /\ r.after <= Len(ledger[owner]) /\ Len(ledger[owner]) - r.after < W
      /\ \A n \in InWindow(owner) : ledger[owner][n].req # r
  BY DEF Unrecorded
<1>3. Len(ledger[owner]) \in Nat /\ r.after \in Nat /\ W \in Nat /\ Recorded(owner)
  BY LedgerTypes, BoundAssumption DEF Requests
<1>4. ASSUME NEW n \in 1..Len(ledger[owner]), ledger[owner][n].req = r PROVE FALSE
  <2>1. r.after < n
    BY <1>3, <1>4 DEF Recorded
  <2>2. n \in InWindow(owner)
    BY <1>2, <1>3, <2>1 DEF InWindow
  <2> QED BY <1>2, <1>4, <2>2
<1> HIDE DEF e
<1>5. MayFollow(owner, e)
  BY <1>1, <1>2, <1>4 DEF MayFollow
<1> QED BY <1>5 DEF e

LEMMA Answered ==
    ASSUME NEW a \in Applications, NEW y \in Replies
    PROVE  [a EXCEPT !.reply = y] \in Applications
BY DEF Applications

\* A response reaches at most the call that waits for it, whose request it is about.
LEMMA RespondStep ==
    ASSUME Inv, NEW m \in net, NEW reply \in Replies, Respond(m, reply), owner' = owner,
           UNCHANGED <<disk, counters, claims>>,
           ledger' \in [Databases -> Seq(Entries)], limbo' \in [Databases -> SUBSET Entries],
           \A d \in Databases :
              /\ Len(ledger[d]) <= Len(ledger'[d])
              /\ \A n \in 1..Len(ledger[d]) : ledger'[d][n] = ledger[d][n],
           \A d \in Databases : Recorded(d)',
           \A r \in Requests : Entered(r)' => Sent(r),
           reply.seq # 0 =>
              /\ reply.seq \in 1..Len(ledger'[m.req.db])
              /\ ledger'[m.req.db][reply.seq] = [req |-> m.req, ok |-> reply.ok]
    PROVE  Inv'
<1>1. m.by \in Clients /\ m.n \in 1..MaxCalls /\ m.req \in Requests /\ net \subseteq Messages
  BY DEF Inv, TypeOK, Messages
<1>2. net' \subseteq net
  BY DEF Respond
<1>3. Prepared(m.by) /\ app \in [Clients -> Applications]
  BY Zenon, <1>1 DEF Inv, TypeOK
<1>4. CASE app[m.by].call = m.n
  <2> DEFINE c == m.by
             a == [app[c] EXCEPT !.reply = reply]
  <2>1. app' = [app EXCEPT ![c] = a]
    BY <1>4 DEF Respond
  <2>2. a \in Applications
    BY <1>1, <1>3, Answered
  <2>c. app[c].call # 0
    BY <1>1, <1>4
  <2>3. app[c].draft = m.req /\ app[c].call # 0
    <3>1. \A x \in net : x.by = c /\ x.n = app[c].call => x.req = app[c].draft
      BY <1>3 DEF Prepared
    <3> QED BY <1>4, <2>c, <3>1
  <2>4. /\ app' \in [Clients -> Applications] /\ app'[c] = a
        /\ \A d \in Clients \ {c} : app'[d] = app[d]
    <3> HIDE DEF a
    <3> QED BY Zenon, <1>1, <2>1, <2>2, OneApp DEF Inv
  <2>5. TypeOK'
    BY <1>2, <2>4 DEF Inv, TypeOK, counters
  <2>6. ASSUME NEW d \in Clients, app'[d] # app[d]
        PROVE  \E y \in Replies :
                 /\ app'[d] = [app[d] EXCEPT !.reply = y]
                 /\ app[d].call # 0
                 /\ y.seq # 0 =>
                       /\ y.seq \in 1..Len(ledger'[app[d].draft.db])
                       /\ ledger'[app[d].draft.db][y.seq] = [req |-> app[d].draft, ok |-> y.ok]
    <3>1. d = c
      BY <2>4, <2>6
    <3> WITNESS reply \in Replies
    <3> QED BY <2>3, <2>4, <3>1
  <2> QED BY Zenon, <1>2, <2>5, <2>6, ServiceStep
<1>5. CASE app[m.by].call # m.n
  <2>1. app' = app
    BY <1>5 DEF Respond
  <2>2. TypeOK'
    BY <1>2, <2>1 DEF Inv, TypeOK, counters
  <2>3. \A d \in Clients : app'[d] = app[d]
    BY <2>1
  <2> QED BY <1>2, <2>2, <2>3, ServiceStep
<1> QED BY <1>4, <1>5

\* The ledgers and the limbo as they are.
LEMMA Standing ==
    ASSUME Inv, UNCHANGED <<ledger, limbo>>
    PROVE  /\ ledger' \in [Databases -> Seq(Entries)] /\ limbo' \in [Databases -> SUBSET Entries]
           /\ \A d \in Databases :
                 /\ Len(ledger[d]) <= Len(ledger'[d])
                 /\ \A n \in 1..Len(ledger[d]) : ledger'[d][n] = ledger[d][n]
           /\ \A d \in Databases : Recorded(d)'
           /\ \A r : Entered(r)' => Sent(r)
<1>1. \A d \in Databases : Len(ledger[d]) \in Nat
  BY LedgerTypes
<1>2. \A d \in Databases : Recorded(d)'
  BY LedgerTypes, RecordedKept
<1>3. \A r : Entered(r)' => Sent(r)
  BY DEF Entered, Sent
<1> QED BY <1>1, <1>2, <1>3 DEF Inv, TypeOK

LEMMA RejectStep == ASSUME Inv, NEW m \in net, Reject(m) PROVE Inv'
<1>1. /\ Respond(m, Error) /\ UNCHANGED <<owner, ledger, limbo>>
      /\ UNCHANGED <<disk, counters, claims>>
  BY DEF Reject, service
<1>2. Error \in Replies /\ Error.seq = 0
  BY BoundAssumption DEF Error, Replies
<1> HIDE DEF Error
<1> QED BY Zenon, <1>1, <1>2, Standing, RespondStep

LEMMA ReplayStep == ASSUME Inv, NEW m \in net, Replay(m) PROVE Inv'
<1>1. /\ owner # None /\ m.req.db = owner /\ UNCHANGED <<owner, ledger, limbo>>
      /\ UNCHANGED <<disk, counters, claims>>
  BY DEF Replay, SameDatabase, service
<1>2. PICK n \in InWindow(owner) : /\ ledger[owner][n].req = m.req
                                   /\ Respond(m, [seq |-> n, ok |-> ledger[owner][n].ok])
  BY DEF Replay
<1>3. owner \in Databases
  BY <1>1 DEF Inv, TypeOK
<1>4. n \in 1..Len(ledger[owner])
  BY <1>2 DEF InWindow
<1>5. ledger[owner][n] \in Entries /\ Len(ledger[owner]) \in Nat /\ Len(ledger[owner]) <= MaxSeq
  BY <1>3, <1>4, LedgerTypes
<1>6. PICK reply \in Replies : /\ Respond(m, reply) /\ reply.seq = n
                               /\ reply.ok = ledger[owner][n].ok
  <2> DEFINE y == [seq |-> n, ok |-> ledger[owner][n].ok]
  <2>1. y \in Replies /\ y.seq = n /\ y.ok = ledger[owner][n].ok
    <3>1. n \in 0..MaxSeq
      BY ONLY <1>4, <1>5, BoundAssumption
    <3>2. ledger[owner][n].ok \in BOOLEAN
      BY Zenon, <1>5, EntryTypes
    <3> QED BY <3>1, <3>2 DEF Replies
  <2> QED BY Zenon, <1>2, <2>1
<1>7. ledger[owner][n] = [req |-> m.req, ok |-> reply.ok]
  BY <1>2, <1>5, <1>6 DEF Entries
<1>8. /\ reply.seq \in 1..Len(ledger'[m.req.db])
      /\ ledger'[m.req.db][reply.seq] = [req |-> m.req, ok |-> reply.ok]
  BY <1>1, <1>4, <1>6, <1>7
<1> QED BY Zenon, <1>1, <1>6, <1>8, Standing, RespondStep

LEMMA PublishStep == ASSUME Inv, NEW m \in net, Publish(m) PROVE Inv'
<1>1. /\ owner # None /\ m.req.db = owner /\ Unrecorded(m.req) /\ owner' = owner
      /\ UNCHANGED <<disk, counters, claims>>
  BY DEF Publish, SameDatabase
<1>2. PICK ok \in BOOLEAN : /\ Append1([req |-> m.req, ok |-> ok])
                            /\ Respond(m, [seq |-> Len(ledger[owner]) + 1, ok |-> ok])
  BY DEF Publish
<1> DEFINE e == [req |-> m.req, ok |-> ok]
           y == [seq |-> Len(ledger[owner]) + 1, ok |-> ok]
<1>3. owner \in Databases /\ m.req \in Requests
  BY <1>1 DEF Inv, TypeOK, Messages
<1>4. /\ Len(ledger[owner]) < MaxSeq /\ limbo' = [limbo EXCEPT ![owner] = {}]
      /\ ledger' = [ledger EXCEPT ![owner] = Append(ledger[owner], e)]
  BY <1>2 DEF Append1
<1>5. MayFollow(owner, e)
  BY <1>1, <1>3, <1>4, UnrecordedIsNew
<1>6. y \in Replies /\ y.seq = Len(ledger[owner]) + 1 /\ y.ok = ok
  <2>1. Len(ledger[owner]) \in Nat
    BY <1>3, LedgerTypes
  <2> QED BY <1>4, <2>1, BoundAssumption DEF Replies
<1>7. Respond(m, y) /\ e.req = m.req
  BY <1>2
<1> HIDE DEF e, y
<1>8. /\ ledger' \in [Databases -> Seq(Entries)] /\ limbo' \in [Databases -> SUBSET Entries]
      /\ \A x \in Databases :
            /\ Len(ledger[x]) <= Len(ledger'[x])
            /\ \A n \in 1..Len(ledger[x]) : ledger'[x][n] = ledger[x][n]
      /\ y.seq \in 1..Len(ledger'[owner]) /\ ledger'[owner][y.seq] = e
      /\ \A x \in Databases : Recorded(x)'
      /\ \A r : Entered(r)' => Entered(r) \/ r = e.req
  BY Zenon, <1>3, <1>4, <1>5, <1>6, Extended
<1>9. \A r \in Requests : Entered(r)' => Sent(r)
  BY <1>7, <1>8 DEF Sent
<1>10. /\ y.seq \in 1..Len(ledger'[m.req.db])
       /\ ledger'[m.req.db][y.seq] = [req |-> m.req, ok |-> y.ok]
  BY <1>1, <1>6, <1>8 DEF e
<1> QED BY Zenon, <1>1, <1>6, <1>7, <1>8, <1>9, <1>10, RespondStep

LEMMA UncertainStep == ASSUME Inv, NEW m \in net, Uncertain(m) PROVE Inv'
<1>1. /\ owner # None /\ m.req.db = owner /\ Unrecorded(m.req) /\ owner' = owner
      /\ UNCHANGED <<disk, counters, claims>> /\ ledger' = ledger
      /\ Len(ledger[owner]) < MaxSeq /\ Respond(m, Error)
  BY DEF Uncertain, SameDatabase
<1>2. PICK ok \in BOOLEAN :
        limbo' = [limbo EXCEPT ![owner] = limbo[owner] \cup {[req |-> m.req, ok |-> ok]}]
  BY Zenon DEF Uncertain
<1> DEFINE e == [req |-> m.req, ok |-> ok]
<1>3. owner \in Databases /\ m.req \in Requests /\ limbo \in [Databases -> SUBSET Entries]
  BY <1>1 DEF Inv, TypeOK, Messages
<1>4. MayFollow(owner, e)
  BY <1>1, <1>3, UnrecordedIsNew
<1>5. e.req = m.req /\ m.req.intent # None
  BY <1>3, BoundAssumption DEF Requests
<1>6. limbo' = [limbo EXCEPT ![owner] = limbo[owner] \cup {e}]
  BY <1>2
<1> HIDE DEF e
<1>7. e \in Entries
  BY <1>4 DEF MayFollow
<1>8. /\ limbo' \in [Databases -> SUBSET Entries] /\ limbo'[owner] = limbo[owner] \cup {e}
      /\ \A d \in Databases \ {owner} : limbo'[d] = limbo[d]
  BY <1>3, <1>6, <1>7
<1>9. ASSUME NEW d \in Databases PROVE Recorded(d)'
  <2>1. CASE d # owner
    BY <1>1, <1>8, <2>1, LedgerTypes, RecordedKept
  <2>2. CASE d = owner
    <3>1. Recorded(owner)
      BY <1>3, LedgerTypes
    <3> DEFINE Fitting(x) ==
                 /\ x.req.db = owner /\ x.req.intent # None /\ Len(ledger[owner]) < MaxSeq
                 /\ x.req.after <= Len(ledger[owner]) /\ Len(ledger[owner]) - x.req.after < W
                 /\ \A n \in 1..Len(ledger[owner]) : ledger[owner][n].req # x.req
    <3>2. Fitting(e)
      BY Zenon, <1>4, <1>5 DEF MayFollow
    <3>3. \A x \in limbo[owner] : Fitting(x)
      BY Zenon, <3>1 DEF Recorded
    <3>4. \A x \in limbo'[owner] : Fitting(x)
      <4> HIDE DEF Fitting
      <4> QED BY <1>8, <3>2, <3>3
    <3>5. ledger' = ledger
      BY <1>1
    <3>6. /\ Len(ledger'[owner]) <= MaxSeq
          /\ \A n \in 1..Len(ledger'[owner]) :
                LET r == ledger'[owner][n].req
                IN  r.db = owner /\ r.after < n /\ n <= r.after + W
          /\ \A i, j \in 1..Len(ledger'[owner]) :
                ledger'[owner][i].req = ledger'[owner][j].req /\ ledger'[owner][i].req.intent # None => i = j
      BY Zenon, <3>1, <3>5 DEF Recorded
    <3>7. Recorded(owner)'
      <4>1. \A x \in limbo'[owner] :
              /\ x.req.db = owner /\ x.req.intent # None /\ Len(ledger'[owner]) < MaxSeq
              /\ x.req.after <= Len(ledger'[owner]) /\ Len(ledger'[owner]) - x.req.after < W
              /\ \A n \in 1..Len(ledger'[owner]) : ledger'[owner][n].req # x.req
        BY Zenon, <3>4, <3>5
      <4>2. owner' = owner
        BY <1>1
      <4> QED BY Zenon, <3>6, <4>1, <4>2 DEF Recorded
    <3> QED BY <1>1, <2>2, <3>7
  <2> QED BY <2>1, <2>2
<1>10. ASSUME NEW r \in Requests, Entered(r)' PROVE Sent(r)
  <2>1. PICK d \in Databases : \/ \E n \in 1..Len(ledger[d]) : ledger[d][n].req = r
                               \/ \E x \in limbo'[d] : x.req = r
    BY <1>1, <1>10 DEF Entered
  <2>2. (\E x \in limbo'[d] : x.req = r) => (\E x \in limbo[d] : x.req = r) \/ r = m.req
    BY <1>5, <1>8
  <2> QED BY <2>1, <2>2 DEF Sent, Entered
<1>11. /\ ledger' \in [Databases -> Seq(Entries)]
       /\ \A d \in Databases :
            /\ Len(ledger[d]) <= Len(ledger'[d])
            /\ \A n \in 1..Len(ledger[d]) : ledger'[d][n] = ledger[d][n]
  <2>1. \A d \in Databases : Len(ledger[d]) \in Nat
    BY LedgerTypes
  <2> QED BY <1>1, <2>1 DEF Inv, TypeOK
<1>12. Error \in Replies /\ Error.seq = 0
  BY BoundAssumption DEF Error, Replies
<1> HIDE DEF Error
<1> QED BY Zenon, <1>1, <1>8, <1>9, <1>10, <1>11, <1>12, RespondStep

\* A step of the owner with which no application has to do.
LEMMA OwnerStep ==
    ASSUME Inv, UNCHANGED <<net, app, disk, counters, claims>>,
           owner' \in Databases \cup {None},
           ledger' \in [Databases -> Seq(Entries)], limbo' \in [Databases -> SUBSET Entries],
           \A d \in Databases :
              /\ Len(ledger[d]) <= Len(ledger'[d])
              /\ \A n \in 1..Len(ledger[d]) : ledger'[d][n] = ledger[d][n],
           \A d \in Databases : Recorded(d)',
           \A r \in Requests : Entered(r)' => Sent(r)
    PROVE  Inv'
<1>1. TypeOK'
  BY DEF Inv, TypeOK, counters
<1>2. \A c \in Clients : app'[c] = app[c]
  OBVIOUS
<1>3. net' \subseteq net /\ UNCHANGED <<disk, counters, claims>>
  OBVIOUS
<1> QED BY <1>1, <1>2, <1>3, ServiceStep

LEMMA ForeignStep == ASSUME Inv, Foreign PROVE Inv'
<1> DEFINE r == [intent |-> None, n |-> 0, db |-> owner, after |-> Len(ledger[owner])]
           e == [req |-> r, ok |-> TRUE]
<1>1. owner \in Databases
  BY DEF Foreign, Inv, TypeOK
<1>2. /\ Len(ledger[owner]) < MaxSeq /\ limbo' = [limbo EXCEPT ![owner] = {}]
      /\ ledger' = [ledger EXCEPT ![owner] = Append(ledger[owner], e)]
      /\ UNCHANGED <<net, app, disk, counters, claims>> /\ owner' = owner
  BY DEF Foreign, Append1
<1>3. Len(ledger[owner]) \in Nat
  BY <1>1, LedgerTypes
<1>4. /\ r \in [intent : {None}, n : {0}, db : Databases, after : 0..MaxSeq]
      /\ r.intent = None /\ r.db = owner /\ r.after = Len(ledger[owner])
  <2>1. Len(ledger[owner]) \in 0..MaxSeq
    BY ONLY <1>2, <1>3, BoundAssumption
  <2> QED BY <1>1, <2>1
<1> HIDE DEF r
<1>5. e \in Entries /\ e.req = r
  BY <1>4 DEF Entries
<1> HIDE DEF e
<1>6. MayFollow(owner, e)
  <2>1. /\ e.req.intent = None /\ e.req.db = owner /\ e.req.after = Len(ledger[owner])
        /\ Len(ledger[owner]) < MaxSeq
    BY Zenon, <1>2, <1>4, <1>5
  <2>2. e.req.after <= Len(ledger[owner]) /\ Len(ledger[owner]) - e.req.after < W
    BY <1>3, <2>1, BoundAssumption
  <2> QED BY Zenon, <1>5, <2>1, <2>2 DEF MayFollow
<1>7. /\ ledger' \in [Databases -> Seq(Entries)] /\ limbo' \in [Databases -> SUBSET Entries]
      /\ \A x \in Databases :
            /\ Len(ledger[x]) <= Len(ledger'[x])
            /\ \A n \in 1..Len(ledger[x]) : ledger'[x][n] = ledger[x][n]
      /\ \A x \in Databases : Recorded(x)'
      /\ \A x : Entered(x)' => Entered(x) \/ x = e.req
  BY Zenon, <1>1, <1>2, <1>6, Extended
<1>8. \A x \in Requests : Entered(x)' => Sent(x)
  <2>1. r \notin Requests
    BY <1>4, BoundAssumption DEF Requests
  <2> QED BY <1>5, <1>7, <2>1 DEF Sent
<1> QED BY <1>1, <1>2, <1>7, <1>8, OwnerStep

\* Recovery finds the ledger as it was, or with one publication from the limbo.
LEMMA OwnerStopStep == ASSUME Inv, OwnerStop PROVE Inv'
<1>1. /\ owner \in Databases /\ owner' = None /\ limbo' = [limbo EXCEPT ![owner] = {}]
      /\ UNCHANGED <<net, app, disk, counters, claims>>
  BY DEF OwnerStop, Inv, TypeOK
<1>2. PICK h \in Histories(owner) : ledger' = [ledger EXCEPT ![owner] = h]
  BY Zenon DEF OwnerStop
<1>3. CASE h = ledger[owner]
  <2>1. ledger' = ledger
    BY <1>2, <1>3 DEF Inv, TypeOK
  <2>2. /\ limbo' \in [Databases -> SUBSET Entries] /\ limbo'[owner] = {}
        /\ \A d \in Databases \ {owner} : limbo'[d] = limbo[d]
    BY <1>1 DEF Inv, TypeOK
  <2>3. ASSUME NEW d \in Databases PROVE Recorded(d)'
    <3>1. CASE d # owner
      BY <2>1, <2>2, <3>1, LedgerTypes, RecordedKept
    <3>2. CASE d = owner
      <4>1. Recorded(owner)
        BY <1>1, LedgerTypes
      <4> QED BY <2>1, <2>2, <3>2, <4>1 DEF Recorded
    <3> QED BY <3>1, <3>2
  <2>4. \A d \in Databases : limbo'[d] \subseteq limbo[d]
    BY <2>2
  <2>5. \A r \in Requests : Entered(r)' => Sent(r)
    BY <2>1, <2>4 DEF Entered, Sent
  <2>6. /\ ledger' \in [Databases -> Seq(Entries)]
        /\ \A d \in Databases :
             /\ Len(ledger[d]) <= Len(ledger'[d])
             /\ \A n \in 1..Len(ledger[d]) : ledger'[d][n] = ledger[d][n]
    <3>1. \A d \in Databases : Len(ledger[d]) \in Nat
      BY LedgerTypes
    <3> QED BY <2>1, <3>1 DEF Inv, TypeOK
  <2> QED BY <1>1, <2>2, <2>3, <2>5, <2>6, OwnerStep
<1>4. CASE \E e \in limbo[owner] : h = Append(ledger[owner], e)
  <2>1. PICK e \in limbo[owner] : h = Append(ledger[owner], e)
    BY <1>4
  <2>2. e \in Entries /\ Recorded(owner)
    BY <1>1, LedgerTypes
  <2>3. MayFollow(owner, e) /\ e.req.intent # None
    BY <2>2 DEF Recorded, MayFollow
  <2>4. /\ ledger' \in [Databases -> Seq(Entries)] /\ limbo' \in [Databases -> SUBSET Entries]
        /\ \A x \in Databases :
              /\ Len(ledger[x]) <= Len(ledger'[x])
              /\ \A n \in 1..Len(ledger[x]) : ledger'[x][n] = ledger[x][n]
        /\ \A x \in Databases : Recorded(x)'
        /\ \A x : Entered(x)' => Entered(x) \/ x = e.req
    BY Zenon, <1>1, <1>2, <2>1, <2>3, Extended
  <2>5. Entered(e.req)
    BY <1>1 DEF Entered
  <2>6. \A r \in Requests : Entered(r)' => Sent(r)
    BY <2>4, <2>5 DEF Sent
  <2> QED BY <1>1, <2>4, <2>6, OwnerStep
<1> QED BY <1>2, <1>3, <1>4 DEF Histories

LEMMA OwnerStartStep == ASSUME Inv, OwnerStart PROVE Inv'
<1>1. /\ UNCHANGED <<ledger, limbo>> /\ UNCHANGED <<net, app, disk, counters, claims>>
      /\ owner' \in Databases \cup {None}
  BY DEF OwnerStart
<1> QED BY <1>1, Standing, OwnerStep

-----------------------------------------------------------------------------
LEMMA Establish == Init => Inv
<1> SUFFICES ASSUME Init PROVE Inv
  OBVIOUS
<1>1. TypeOK
  <2>1. <<>> \in Seq(Entries)
    OBVIOUS
  <2> QED BY <2>1, OffFields, BoundAssumption DEF Init, TypeOK
<1>2. \A d \in Databases : ledger[d] = <<>> /\ limbo[d] = {} /\ Len(ledger[d]) = 0
  BY DEF Init
<1>3. \A d \in Databases : Recorded(d)
  BY <1>2, BoundAssumption DEF Recorded
<1>4. \A r : ~Sent(r)
  BY <1>2 DEF Init, Sent, Entered
<1>5. \A c \in Clients : Prepared(c)
  BY Zenon, OffFields, BoundAssumption DEF Init, Prepared
<1>6. Fresh
  BY <1>4, OffFields, BoundAssumption DEF Init, Fresh
<1>7. Journalled /\ \A k \in claims : FALSE
  BY <1>4 DEF Init, Journalled
<1> QED BY <1>1, <1>3, <1>5, <1>6, <1>7 DEF Inv

LEMMA Unmoved == ASSUME Inv, UNCHANGED vars PROVE Inv'
<1>1. /\ UNCHANGED <<ledger, limbo>> /\ UNCHANGED <<net, app, disk, counters, claims>>
      /\ owner' = owner
  BY DEF vars, service
<1>2. owner' \in Databases \cup {None}
  BY <1>1 DEF Inv, TypeOK
<1> QED BY <1>1, <1>2, Standing, OwnerStep

LEMMA Preserve == Inv /\ [Next]_vars => Inv'
<1> SUFFICES ASSUME Inv, [Next]_vars PROVE Inv'
  OBVIOUS
<1>1. ASSUME NEW m \in net, Serve(m) PROVE Inv'
  BY <1>1, RejectStep, ReplayStep, PublishStep, UncertainStep DEF Serve
<1> QED BY <1>1, ClientKeeps, ForeignStep, OwnerStopStep, OwnerStartStep, Unmoved DEF Next

LEMMA Invariance == Spec => []Inv
BY Establish, Preserve, PTL DEF Spec

-----------------------------------------------------------------------------
(* What follows from the invariant, for the histories a recovery may find.  *)

\* An entry of a possible history is in the ledger or follows it.
LEMMA HistoryParts ==
    ASSUME Inv, NEW d \in Databases, NEW h \in Histories(d)
    PROVE  /\ Len(h) \in Nat /\ Len(ledger[d]) \in Nat /\ Len(ledger[d]) <= Len(h)
           /\ \A n \in 1..Len(ledger[d]) : h[n] = ledger[d][n]
           /\ \A n \in 1..Len(h) :
                 \/ n \in 1..Len(ledger[d])
                 \/ n = Len(ledger[d]) + 1 /\ h[n] \in limbo[d]
<1>1. ledger[d] \in Seq(Entries) /\ Len(ledger[d]) \in Nat /\ limbo[d] \subseteq Entries
  BY LedgerTypes
<1>2. CASE h = ledger[d]
  BY <1>1, <1>2
<1>3. ASSUME NEW e \in limbo[d], h = Append(ledger[d], e)
      PROVE  /\ Len(h) \in Nat /\ Len(ledger[d]) <= Len(h)
             /\ \A n \in 1..Len(ledger[d]) : h[n] = ledger[d][n]
             /\ \A n \in 1..Len(h) :
                   \/ n \in 1..Len(ledger[d])
                   \/ n = Len(ledger[d]) + 1 /\ h[n] \in limbo[d]
  <2>1. /\ Len(h) = Len(ledger[d]) + 1 /\ h[Len(ledger[d]) + 1] = e
        /\ \A n \in 1..Len(ledger[d]) : h[n] = ledger[d][n]
    BY <1>1, <1>3, AppendFacts
  <2> QED BY <1>1, <2>1
<1> QED BY <1>1, <1>2, <1>3 DEF Histories

\* An entry is of the database it stands in, and was received there.
LEMMA EntryFacts ==
    ASSUME Inv, NEW d \in Databases, NEW h \in Histories(d), NEW n \in 1..Len(h)
    PROVE  h[n] \in Entries /\ h[n].req.db = d /\ Entered(h[n].req)
<1>0. Recorded(d)
  BY Zenon, LedgerTypes
<1>1. CASE n \in 1..Len(ledger[d])
  <2>1. h[n] = ledger[d][n] /\ ledger[d][n] \in Entries
    <3>1. \A k \in 1..Len(ledger[d]) : h[k] = ledger[d][k]
      BY Zenon, HistoryParts
    <3> QED BY Zenon, <1>1, <3>1, LedgerTypes
  <2>2. Entered(h[n].req)
    BY Zenon, <1>1, <2>1 DEF Entered
  <2>3. ledger[d][n].req.db = d
    BY Zenon, <1>0, <1>1 DEF Recorded
  <2> QED BY Zenon, <2>1, <2>2, <2>3
<1>2. CASE h[n] \in limbo[d]
  <2>1. h[n] \in Entries
    BY Zenon, <1>2, LedgerTypes
  <2>2. Entered(h[n].req)
    BY Zenon, <1>2 DEF Entered
  <2>3. h[n].req.db = d
    BY Zenon, <1>0, <1>2 DEF Recorded
  <2> QED BY Zenon, <2>1, <2>2, <2>3
<1>3. \A k \in 1..Len(h) : k \in 1..Len(ledger[d]) \/ h[k] \in limbo[d]
  BY Zenon, HistoryParts
<1> QED BY Zenon, <1>1, <1>2, <1>3

\* No other place of the log holds the same request.
LEMMA EntryPlace ==
    ASSUME Inv, NEW d \in Databases, NEW h \in Histories(d), NEW n \in 1..Len(h),
           h[n].req.intent # None, NEW i \in 1..Len(ledger[d]), ledger[d][i].req = h[n].req
    PROVE  i = n
<1>0. Recorded(d)
  BY Zenon, LedgerTypes
<1>1. CASE n \in 1..Len(ledger[d])
  <2>1. h[n] = ledger[d][n]
    <3>1. \A k \in 1..Len(ledger[d]) : h[k] = ledger[d][k]
      BY Zenon, HistoryParts
    <3> QED BY Zenon, <1>1, <3>1
  <2>2. ledger[d][i].req = ledger[d][n].req /\ ledger[d][i].req.intent # None
    BY Zenon, <2>1
  <2> QED BY Zenon, <1>0, <1>1, <2>2 DEF Recorded
<1>2. CASE h[n] \in limbo[d]
  BY Zenon, <1>0, <1>2 DEF Recorded
<1>3. \A k \in 1..Len(h) : k \in 1..Len(ledger[d]) \/ h[k] \in limbo[d]
  BY Zenon, HistoryParts
<1> QED BY Zenon, <1>1, <1>2, <1>3

\* A request takes effect only in the database it was prepared for: the header that
\* validate_request compares (http.rs:333) and the check of the prepared request
\* against the client's identity (client.cjs:127) keep it out of every other one,
\* whoever serves the URL in the meantime.
THEOREM RightDatabase == Spec => []NoStray
<1>1. Inv => NoStray
  <2> SUFFICES ASSUME Inv, NEW d \in Databases, NEW h \in Histories(d), NEW n \in 1..Len(h)
               PROVE  h[n].req.db = d
    BY Zenon DEF NoStray, Inv
  <2> QED BY Zenon, EntryFacts
<1> QED BY <1>1, Invariance, PTL

\* What a call told its application stays true: a result and a rollback that
\* confirmReply accepted (client.cjs:283) are the outcome the database keeps, in
\* every history a recovery may find.
THEOREM OutcomesHold == Spec => []ClaimsHold
<1>1. ASSUME Inv, NEW k \in claims, k.what # "not-sent", NEW h \in Histories(k.req.db)
      PROVE  k.seq \in 1..Len(h) /\ h[k.seq] = [req |-> k.req, ok |-> (k.what = "done")]
  <2>1. Holds(k) /\ k.req.db \in Databases
    BY <1>1 DEF Inv, TypeOK, Claims, Requests
  <2>2. /\ Len(h) \in Nat /\ Len(ledger[k.req.db]) \in Nat /\ Len(ledger[k.req.db]) <= Len(h)
        /\ \A n \in 1..Len(ledger[k.req.db]) : h[n] = ledger[k.req.db][n]
    BY Zenon, <1>1, <2>1, HistoryParts
  <2>3. k.seq \in 1..Len(ledger[k.req.db])
    BY Zenon, <1>1, <2>1 DEF Holds
  <2>4. k.seq \in 1..Len(h)
    <3>1. /\ Len(h) \in Nat /\ Len(ledger[k.req.db]) \in Nat
          /\ Len(ledger[k.req.db]) <= Len(h)
      BY Zenon, <2>2
    <3> QED BY ONLY <2>3, <3>1
  <2> QED BY Zenon, <1>1, <2>1, <2>2, <2>3, <2>4 DEF Holds
<1>2. Inv => ClaimsHold
  BY <1>1 DEF ClaimsHold
<1> QED BY <1>2, Invariance, PTL

\* A request whose rollback was confirmed has no other outcome.
LEMMA RolledBackForGood ==
    ASSUME Inv, NEW d \in Databases, NEW h \in Histories(d), NEW n \in 1..Len(h),
           h[n].req \in Requests, RolledBack(h[n].req)
    PROVE  ~h[n].ok
<1>1. PICK k \in claims : k.req = h[n].req /\ k.what = "rolled-back"
  BY DEF RolledBack
<1>2. h[n].req.db = d /\ h[n].req.intent # None
  BY Zenon, EntryFacts, BoundAssumption DEF Requests
<1>3. k.seq \in 1..Len(ledger[d]) /\ ledger[d][k.seq] = [req |-> h[n].req, ok |-> FALSE]
  BY Zenon, <1>1, <1>2 DEF Inv, Holds
<1>e. ledger[d][k.seq].req = h[n].req /\ ~ledger[d][k.seq].ok
  <2>1. ledger[d][k.seq] = [req |-> h[n].req, ok |-> FALSE]
    BY Zenon, <1>3
  <2> QED BY ONLY <2>1
<1>4. k.seq = n
  <2>1. \A i \in 1..Len(ledger[d]) : ledger[d][i].req = h[n].req => i = n
    BY Zenon, <1>2, EntryPlace
  <2> QED BY Zenon, <1>3, <1>e, <2>1
<1>5. h[n] = ledger[d][n]
  <2>1. \A i \in 1..Len(ledger[d]) : h[i] = ledger[d][i]
    BY Zenon, HistoryParts
  <2> QED BY Zenon, <1>3, <1>4, <2>1
<1> QED BY Zenon, <1>e, <1>4, <1>5

\* An intent takes effect at most once, over all requests prepared for it, all
\* retries and all databases: another request is prepared only when the journal
\* file is gone, and only a confirmed rollback lets it go (docs/service-protocol.md,
\* request-journal.cjs).
THEOREM EffectOnce == Spec => []IntentOnce
<1>1. ASSUME Inv, NEW d1 \in Databases, NEW d2 \in Databases,
             NEW h1 \in Histories(d1), NEW h2 \in Histories(d2),
             NEW n1 \in 1..Len(h1), NEW n2 \in 1..Len(h2), h1[n1].ok, h2[n2].ok,
             h1[n1].req.intent = h2[n2].req.intent, h1[n1].req.intent # None
      PROVE  d1 = d2 /\ (h1 = h2 => n1 = n2)
  <2> DEFINE r1 == h1[n1].req
             r2 == h2[n2].req
  <2>1. /\ h1[n1] \in Entries /\ h2[n2] \in Entries /\ r1.db = d1 /\ r2.db = d2
        /\ Entered(r1) /\ Entered(r2)
    BY <1>1, EntryFacts
  <2>2. r1 \in Requests /\ r2 \in Requests
    BY <1>1, <2>1, EntryTypes
  <2>3. ~RolledBack(r1) /\ ~RolledBack(r2)
    BY <1>1, <2>2, RolledBackForGood
  <2>4. disk[r1.intent] = r1 /\ disk[r2.intent] = r2
    BY <1>1, <2>1, <2>2, <2>3 DEF Inv, Journalled, Sent
  <2>5. r1 = r2
    BY <1>1, <2>4
  <2>6. ASSUME h1 = h2 PROVE n1 = n2
    <3>1. CASE n1 \in 1..Len(ledger[d1])
      <4>1. ledger[d1][n1].req = h2[n2].req
        <5>1. \A k \in 1..Len(ledger[d1]) : h1[k] = ledger[d1][k]
          BY Zenon, <1>1, HistoryParts
        <5> QED BY Zenon, <2>5, <3>1, <5>1
      <4>2. d1 = d2 /\ h2[n2].req.intent # None
        BY Zenon, <1>1, <2>1, <2>5
      <4>3. \A i \in 1..Len(ledger[d2]) : ledger[d2][i].req = h2[n2].req => i = n2
        BY Zenon, <1>1, <4>2, EntryPlace
      <4> QED BY Zenon, <3>1, <4>1, <4>2, <4>3
    <3>2. CASE n2 \in 1..Len(ledger[d1])
      <4>1. ledger[d2][n2].req = h1[n1].req /\ d1 = d2
        <5>1. d1 = d2
          BY Zenon, <2>1, <2>5
        <5>2. \A k \in 1..Len(ledger[d2]) : h2[k] = ledger[d2][k]
          BY Zenon, <1>1, HistoryParts
        <5> QED BY Zenon, <2>5, <3>2, <5>1, <5>2
      <4>2. \A i \in 1..Len(ledger[d1]) : ledger[d1][i].req = h1[n1].req => i = n1
        BY Zenon, <1>1, EntryPlace
      <4> QED BY Zenon, <3>2, <4>1, <4>2
    <3>3. CASE n1 = Len(ledger[d1]) + 1 /\ n2 = Len(ledger[d1]) + 1
      BY <3>3
    <3>4. \A k \in 1..Len(h1) : k \in 1..Len(ledger[d1]) \/ k = Len(ledger[d1]) + 1
      BY Zenon, <1>1, HistoryParts
    <3>5. n1 \in 1..Len(h1) /\ n2 \in 1..Len(h1)
      BY Zenon, <1>1, <2>6
    <3> QED BY Zenon, <3>1, <3>2, <3>3, <3>4, <3>5
  <2> QED BY <2>1, <2>5, <2>6
<1>2. Inv => IntentOnce
  BY <1>1 DEF IntentOnce
<1> QED BY <1>2, Invariance, PTL

\* A request that may have reached the service, and whose outcome the application
\* was not told, can be loaded from the journal, also after a crash at any point
\* of saveRequest: submit follows a resolved saveRequest (request-journal.cjs).
THEOREM JournalHasIt == Spec => []JournalCovers
<1>1. ASSUME Inv, NEW c \in Clients, NEW r \in Requests, r.intent = c, Outstanding(r)
      PROVE  disk[c] = r
  <2>1. Sent(r)
    <3>1. ASSUME NEW d \in Databases, NEW h \in Histories(d), NEW n \in 1..Len(h), h[n].req = r
          PROVE  Entered(r)
      BY <1>1, <3>1, EntryFacts
    <3> QED BY <1>1, <3>1 DEF Outstanding, Sent
  <2>2. ~RolledBack(r)
    BY <1>1 DEF Outstanding, RolledBack
  <2> QED BY <1>1, <2>1, <2>2 DEF Inv, Journalled
<1>2. ASSUME Inv PROVE JournalCovers
  <2>1. ASSUME NEW c \in Clients, NEW n \in 1..MaxDrafts, NEW d \in Databases, NEW s \in 0..MaxSeq,
               Outstanding([intent |-> c, n |-> n, db |-> d, after |-> s])
        PROVE  disk[c] = [intent |-> c, n |-> n, db |-> d, after |-> s]
    <3> DEFINE r == [intent |-> c, n |-> n, db |-> d, after |-> s]
    <3>1. r \in Requests /\ r.intent = c
      BY DEF Requests
    <3>2. Outstanding(r)
      BY <2>1
    <3> HIDE DEF r
    <3>3. disk[c] = r
      BY <1>1, <1>2, <3>1, <3>2
    <3> QED BY <3>3 DEF r
  <2> QED BY <2>1 DEF JournalCovers
<1> QED BY <1>2, Invariance, PTL

\* submit reports "not-sent" only of a request that is nowhere: not under way, and
\* in no history a recovery may find.  recover, which may follow an earlier
\* submission, never says it (client.cjs:142).
THEOREM NotSentMeansNowhere == Spec => NotSentIsTrue
<1>1. ASSUME Inv, NEW r, ~Sent(r) PROVE Nowhere(r)
  <2>1. ASSUME NEW d \in Databases, NEW h \in Histories(d), NEW n \in 1..Len(h)
        PROVE  h[n].req # r
    BY <1>1, EntryFacts DEF Sent
  <2> QED BY <1>1, <2>1 DEF Nowhere, Sent
<1>2. ASSUME Inv, [Next]_vars, NEW k \in claims' \ claims, k.what = "not-sent" PROVE Nowhere(k.req)
  <2>1. PICK c \in Clients : NotSent(c) \/ ReceiveRolledBack(c) \/ ReceiveDone(c)
    BY Zenon, <1>2 DEF Next, Client, Serve, Info, Read, Prepare, SaveBegin, SaveEnd, SaveFails, Send,
       Unknown, Forget, Crash, Start, Reject, Replay, Publish, Uncertain, Foreign, OwnerStop,
       OwnerStart, vars
  <2>2. NotSent(c) /\ k.req = app[c].draft
    <3>1. CASE NotSent(c)
      BY <1>2, <3>1 DEF NotSent
    <3>2. CASE ReceiveRolledBack(c) \/ ReceiveDone(c)
      BY <1>2, <3>2 DEF ReceiveRolledBack, ReceiveDone
    <3> QED BY <2>1, <3>1, <3>2
  <2>3. ~Sent(app[c].draft)
    BY Zenon, <1>2, <2>2, Present DEF NotSent, Ready, Prepared
  <2> QED BY <1>1, <1>2, <2>2, <2>3
<1>3. Inv /\ [Next]_vars =>
        [\A k \in claims' \ claims : k.what = "not-sent" => Nowhere(k.req)]_vars
  BY <1>2
<1> QED BY <1>3, Invariance, PTL DEF Spec, NotSentIsTrue
=============================================================================
