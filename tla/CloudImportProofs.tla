-------------------------- MODULE CloudImportProofs --------------------------
(***************************************************************************)
(* Proofs about CloudImport, for any number of invocations, journals,      *)
(* parts, receipts per page, polls, changes of the file and power          *)
(* failures.                                                               *)
(***************************************************************************)
EXTENDS CloudImport, TLAPS

-----------------------------------------------------------------------------
(* The inductive invariant.                                                 *)

\* d is the declaration of job j in somebody's memory, in a journal, in a request
\* or at the service.
Says(j, d) ==
  \/ \E r \in Uploads : id[r] = j /\ declared[r] = d
  \/ \E p \in Paths : journals[p] # None /\ journals[p].id = j /\ journals[p].declared = d
  \/ \E q \in net : q.op = "declare" /\ q.job = j /\ q.bytes = d
  \/ jobs[j] # None /\ jobs[j].declared = d

\* The journal of job j outlives a power failure, or a resume did not wait for that.
Kept(j, d) ==
  \/ j \in early
  \/ \E p \in Paths :
       journals[p] # None /\ journals[p].id = j /\ journals[p].declared = d /\ journals[p].synced

Uploaded(j, i) == jobs[j] # None /\ jobs[j].parts[i].state = "uploaded"

\* Where an invocation works on a job, where it has compared the file with the
\* declaration, and where it waits for an answer.
Matched == {"page", "parts", "sent", "completing"}
Working == Matched \cup {"upload", "looked", "hash_missing", "declared", "polled", "rehash"}
Unknown == {"start", "hash", "absent"}

Types ==
  /\ source \in Contents /\ source \in held /\ held \subseteq Contents
  /\ pc \in [Runs -> Places] /\ DOMAIN reply = Runs
  /\ id \in [Uploads -> Starts \cup {None}] /\ DOMAIN declared = Uploads
  /\ snap \in [Uploads -> Seq(0..MaxChanges)] /\ \A r \in Uploads : Len(snap[r]) <= N
  /\ received \in [Uploads -> SUBSET Parts] /\ after \in [Uploads -> 0..N]
  /\ polls \in [Uploads -> 0..MaxPolls]
  /\ journals \in [Paths -> Journal \cup {None}] /\ jobs \in [Starts -> Job \cup {None}]

\* What an invocation has established where it is.
Placed(r) ==
  /\ pc[r] # "canceling"
  /\ pc[r] \in {"hash", "save", "sync"} => r \in Starts
  /\ pc[r] \in {"save", "sync"} => id[r] = r
  /\ pc[r] \in {"save", "sync"} \cup Working => id[r] \in Starts /\ declared[r] \in Contents
  /\ pc[r] \notin {"save", "sync"} \cup Working => id[r] = None
  /\ pc[r] = "sync" =>
       journals[PathOf[r]] # None /\ journals[PathOf[r]].id = r /\ journals[PathOf[r]].declared = declared[r]
  /\ pc[r] \in Working => Kept(id[r], declared[r])
  /\ pc[r] \in Matched \cup {"rehash"} => jobs[id[r]] # None
  /\ pc[r] \in Matched => snap[r] = declared[r]
  /\ pc[r] \notin Matched => received[r] = {}
  /\ pc[r] \in {"page", "parts", "sent"} => \A i \in received[r] : Uploaded(id[r], i)
  /\ pc[r] \in {"parts", "sent"} => \A i \in 1..after[r] : Uploaded(id[r], i)
  /\ pc[r] = "sent" => after[r] < N
  /\ \A i \in 1..Len(snap[r]) : snap[r][i] <= source[i]

\* What the answer it has received means.
Told(r) ==
  reply[r] # None /\ reply[r].kind = "ok" =>
    /\ pc[r] \in {"looked", "declared", "polled"} => jobs[id[r]] # None
    /\ pc[r] = "page" =>
         \A p \in reply[r].page :
           p.number \in Parts /\ (p.state = "uploaded" => Uploaded(id[r], p.number))
    /\ pc[r] = "sent" => reply[r].number \in Parts /\ Uploaded(id[r], reply[r].number)

\* A request under way; unless its sender is dead, it waits for this one.
Awaited(q) ==
  /\ reply[q.run] = None
  /\ q.op = "get" => pc[q.run] \in {"looked", "polled", "page"}
  /\ q.op = "declare" => pc[q.run] = "declared"
  /\ q.op = "part" => pc[q.run] = "sent"
  /\ q.op = "complete" => pc[q.run] = "completing"
  /\ q.op = "cancel" => pc[q.run] = "canceling"
  /\ q.op # "cancel" => q.run \in Uploads /\ id[q.run] = q.job

Sent(q) ==
  /\ q.run \in Runs /\ q.job \in Starts /\ q.op \in {"get", "declare", "part", "complete", "cancel"}
  /\ q.op = "declare" => q.bytes \in Contents /\ Kept(q.job, q.bytes)
  /\ q.op \in {"part", "complete"} => jobs[q.job] # None
  /\ q.op = "part" => q.part \in Parts /\ q.bytes \in 0..MaxChanges
  /\ q.op = "complete" => \A i \in Parts : Uploaded(q.job, i)
  /\ pc[q.run] = "failed" \/ Awaited(q)

OneRequest == \A q, o \in net : q.run = o.run /\ pc[q.run] # "failed" => q = o

\* A job at the service.
Served(j) ==
  jobs[j] # None =>
    /\ Kept(j, jobs[j].declared)
    /\ jobs[j].state \in {"completing", "ready"} => \A i \in Parts : Uploaded(j, i)

\* A job has one declaration, made when its start has read the file.
OneDeclaration(j) ==
  /\ pc[j] \in Unknown => \A d \in Contents : ~Says(j, d)
  /\ \A d, e \in Contents : Says(j, d) /\ Says(j, e) => d = e

\* h is the content of the file when job j was declared: no part of it was older
\* then than in the declaration d, and a part that was sent is the same in both.
Fits(j, d, h) ==
  \A i \in Parts :
    /\ d[i] <= h[i] /\ h[i] <= source[i]
    /\ \A q \in net : q.op = "part" /\ q.job = j /\ q.part = i => q.bytes = d[i] /\ h[i] = d[i]
    /\ jobs[j] # None /\ jobs[j].parts[i].state # "none" =>
         jobs[j].parts[i].bytes = d[i] /\ h[i] = d[i]
Witnessed(j) == \A d \in Contents : Says(j, d) => \E h \in held : Fits(j, d, h)

Inv ==
  /\ Types
  /\ \A r \in Uploads : Placed(r) /\ Told(r)
  /\ \A q \in net : Sent(q)
  /\ OneRequest
  /\ \A j \in Starts : Served(j) /\ OneDeclaration(j) /\ Witnessed(j)

-----------------------------------------------------------------------------
(* What a step leaves as it was.                                            *)

\* Run x does not move; in Same(x) it is told nothing either.
Still(x) ==
  /\ pc'[x] = pc[x] /\ id'[x] = id[x] /\ declared'[x] = declared[x] /\ snap'[x] = snap[x]
  /\ received'[x] = received[x] /\ after'[x] = after[x]
Same(x) == pc'[x] = pc[x] /\ reply'[x] = reply[x] /\ (x \in Uploads => Still(x))

\* Nothing that was established is lost.
Grows ==
  /\ \A i \in Parts : source[i] <= source'[i]
  /\ \A j \in Starts : jobs[j] # None => jobs'[j] # None
  /\ \A j \in Starts : \A i \in Parts : Uploaded(j, i) => Uploaded(j, i)'
  /\ \A j \in Starts : \A d \in Contents : Kept(j, d) => Kept(j, d)'

\* The journal that r has saved and not yet synced is still there.
JournalStays(r) ==
  pc[r] = "sync" =>
    /\ journals'[PathOf[r]] # None /\ journals'[PathOf[r]].id = journals[PathOf[r]].id
    /\ journals'[PathOf[r]].declared = journals[PathOf[r]].declared

LEMMA Sets ==
  /\ Starts \subseteq Uploads /\ Starts \subseteq Runs /\ Uploads \subseteq Runs /\ Cancels \subseteq Runs
  /\ Uploads \cap Cancels = {}
  /\ N \in Nat /\ MaxChanges \in Nat /\ MaxPolls \in Nat
  /\ None \notin Starts /\ None \notin Journal /\ None \notin Job
BY Parameters DEF Uploads, Runs

LEMMA SnapBelow ==
  ASSUME Types, NEW x \in Uploads, NEW i \in 1..Len(snap[x])
  PROVE  i \in Parts /\ snap[x][i] \in Nat /\ source[i] \in Nat
<1>1. snap[x] \in Seq(0..MaxChanges) /\ Len(snap[x]) <= N
  BY Zenon DEF Types
<1>2. Len(snap[x]) \in Nat /\ snap[x][i] \in 0..MaxChanges
  <2> DEFINE s == snap[x]
  <2>1. s \in Seq(0..MaxChanges) /\ i \in 1..Len(s)
    BY <1>1
  <2> HIDE DEF s
  <2>2. Len(s) \in Nat /\ s[i] \in 0..MaxChanges
    BY ONLY <2>1, Sets
  <2> QED BY <2>2 DEF s
<1>3. i \in Parts
  BY <1>1, <1>2, Sets DEF Parts
<1>4. source[i] \in 0..MaxChanges
  BY Zenon, <1>3 DEF Types, Contents
<1> QED BY <1>2, <1>3, <1>4, Sets

LEMMA PlacedKept ==
  ASSUME Types, Types', NEW x \in Uploads, Still(x), Grows, JournalStays(x), Placed(x)
  PROVE  Placed(x)'
<1>1. /\ pc'[x] = pc[x] /\ id'[x] = id[x] /\ declared'[x] = declared[x]
      /\ snap'[x] = snap[x] /\ received'[x] = received[x] /\ after'[x] = after[x]
  BY Zenon DEF Still
<1>2. /\ pc[x] # "canceling"
      /\ pc[x] \in {"hash", "save", "sync"} => x \in Starts
      /\ pc[x] \in {"save", "sync"} => id[x] = x
      /\ pc[x] \in {"save", "sync"} \cup Working => id[x] \in Starts /\ declared[x] \in Contents
      /\ pc[x] \notin {"save", "sync"} \cup Working => id[x] = None
      /\ pc[x] \in Matched => snap[x] = declared[x]
      /\ pc[x] \notin Matched => received[x] = {}
      /\ pc[x] = "sent" => after[x] < N
  BY Zenon DEF Placed
<1>3. pc[x] = "sync" =>
        journals'[PathOf[x]] # None /\ journals'[PathOf[x]].id = x
        /\ journals'[PathOf[x]].declared = declared[x]
  BY Zenon DEF Placed, JournalStays
<1>4. pc[x] \in Working => Kept(id[x], declared[x])'
  <2> SUFFICES ASSUME pc[x] \in Working PROVE Kept(id[x], declared[x])'
    OBVIOUS
  <2>1. id[x] \in Starts /\ declared[x] \in Contents /\ Kept(id[x], declared[x])
    BY Zenon, <1>2 DEF Placed
  <2>2. \A j \in Starts : \A d \in Contents : Kept(j, d) =>
          \/ j \in early'
          \/ \E p \in Paths : /\ journals'[p] # None /\ journals'[p].id = j
                             /\ journals'[p].declared = d /\ journals'[p].synced
    <3> SUFFICES ASSUME NEW j \in Starts, NEW d \in Contents, Kept(j, d)
                 PROVE  \/ j \in early'
                        \/ \E p \in Paths : /\ journals'[p] # None /\ journals'[p].id = j
                                           /\ journals'[p].declared = d /\ journals'[p].synced
      OBVIOUS
    <3>1. Kept(j, d)'
      BY Zenon DEF Grows
    <3> QED BY Zenon, <3>1 DEF Kept
  <2>3. Kept(id[x], declared[x]) =>
          \/ id[x] \in early'
          \/ \E p \in Paths : /\ journals'[p] # None /\ journals'[p].id = id[x]
                             /\ journals'[p].declared = declared[x] /\ journals'[p].synced
    BY <2>1, <2>2
  <2> QED BY Zenon, <1>1, <2>1, <2>3 DEF Kept
<1>5. pc[x] \in Matched \cup {"rehash"} => jobs'[id[x]] # None
  BY <1>2 DEF Placed, Grows, Working
<1>6. /\ pc[x] \in {"page", "parts", "sent"} => id[x] \in Starts /\ received[x] \subseteq Parts
      /\ pc[x] \in {"parts", "sent"} => 1..after[x] \subseteq Parts
  <2>1. pc[x] \in {"page", "parts", "sent"} => pc[x] \in {"save", "sync"} \cup Working
    BY DEF Working, Matched
  <2>2. received[x] \in SUBSET Parts /\ after[x] \in 0..N /\ N \in Nat
    BY Zenon, Sets DEF Types
  <2>3. 1..after[x] \subseteq Parts
    BY ONLY <2>2 DEF Parts
  <2> QED BY Zenon, <1>2, <2>1, <2>2, <2>3
<1>7. pc[x] \in {"page", "parts", "sent"} => \A i \in received[x] : Uploaded(id[x], i)'
  <2> SUFFICES ASSUME pc[x] \in {"page", "parts", "sent"}, NEW i \in received[x]
               PROVE  Uploaded(id[x], i)'
    BY Zenon, <1>1
  <2>1. id[x] \in Starts /\ i \in Parts /\ Uploaded(id[x], i)
    BY Zenon, <1>6 DEF Placed
  <2>2. jobs'[id[x]] # None /\ jobs'[id[x]].parts[i].state = "uploaded"
    BY Zenon, <2>1 DEF Grows, Uploaded
  <2> QED BY Zenon, <1>1, <2>2 DEF Uploaded
<1>8. pc[x] \in {"parts", "sent"} => \A i \in 1..after[x] : Uploaded(id[x], i)'
  <2> SUFFICES ASSUME pc[x] \in {"parts", "sent"}, NEW i \in 1..after[x]
               PROVE  Uploaded(id[x], i)'
    BY Zenon, <1>1
  <2>1. id[x] \in Starts /\ i \in Parts /\ Uploaded(id[x], i)
    BY Zenon, <1>6 DEF Placed
  <2>2. jobs'[id[x]] # None /\ jobs'[id[x]].parts[i].state = "uploaded"
    BY Zenon, <2>1 DEF Grows, Uploaded
  <2> QED BY Zenon, <1>1, <2>2 DEF Uploaded
<1>9. \A i \in 1..Len(snap[x]) : snap[x][i] <= source'[i]
  <2> SUFFICES ASSUME NEW i \in 1..Len(snap[x]) PROVE snap[x][i] <= source'[i]
    OBVIOUS
  <2>1. i \in Parts /\ snap[x][i] \in Nat /\ source[i] \in Nat
    BY Zenon, SnapBelow
  <2>2. snap[x][i] <= source[i] /\ source[i] <= source'[i]
    BY Zenon, <2>1 DEF Placed, Grows
  <2>3. source'[i] \in 0..MaxChanges
    BY Zenon, <2>1 DEF Types, Contents
  <2> QED BY <2>1, <2>2, <2>3
<1> QED BY Zenon, <1>1, <1>2, <1>3, <1>4, <1>5, <1>7, <1>8, <1>9 DEF Placed

LEMMA ToldKept ==
  ASSUME NEW x \in Uploads, Same(x), Grows, Placed(x), Told(x)
  PROVE  Told(x)'
<1> SUFFICES ASSUME reply[x] # None, reply[x].kind = "ok"
             PROVE  /\ pc[x] \in {"looked", "declared", "polled"} => jobs'[id[x]] # None
                    /\ pc[x] = "page" =>
                         \A p \in reply[x].page :
                           /\ p.number \in Parts
                           /\ p.state = "uploaded" =>
                                jobs'[id[x]] # None /\ jobs'[id[x]].parts[p.number].state = "uploaded"
                    /\ pc[x] = "sent" =>
                         /\ reply[x].number \in Parts
                         /\ jobs'[id[x]] # None /\ jobs'[id[x]].parts[reply[x].number].state = "uploaded"
  BY Zenon DEF Told, Same, Still, Uploaded
<1>1. pc[x] \in {"looked", "declared", "polled", "page", "sent"} => id[x] \in Starts
  BY Zenon DEF Placed, Working, Matched
<1>2. /\ \A j \in Starts : jobs[j] # None => jobs'[j] # None
      /\ \A j \in Starts : \A i \in Parts :
           Uploaded(j, i) => jobs'[j] # None /\ jobs'[j].parts[i].state = "uploaded"
  BY Zenon DEF Grows, Uploaded
<1>3. pc[x] \in {"looked", "declared", "polled"} => jobs'[id[x]] # None
  BY Zenon, <1>1, <1>2 DEF Told
<1>4. ASSUME pc[x] = "page", NEW p \in reply[x].page
      PROVE  /\ p.number \in Parts
             /\ p.state = "uploaded" =>
                  jobs'[id[x]] # None /\ jobs'[id[x]].parts[p.number].state = "uploaded"
  <2>1. p.number \in Parts /\ (p.state = "uploaded" => Uploaded(id[x], p.number)) /\ id[x] \in Starts
    BY Zenon, <1>1, <1>4 DEF Told
  <2> QED BY Zenon, <1>2, <2>1
<1>5. ASSUME pc[x] = "sent"
      PROVE  /\ reply[x].number \in Parts
             /\ jobs'[id[x]] # None /\ jobs'[id[x]].parts[reply[x].number].state = "uploaded"
  <2>1. reply[x].number \in Parts /\ Uploaded(id[x], reply[x].number) /\ id[x] \in Starts
    BY Zenon, <1>1, <1>5 DEF Told
  <2> QED BY Zenon, <1>2, <2>1
<1> QED BY Zenon, <1>3, <1>4, <1>5

\* What a request under way asks for stays justified; unless its sender is dead,
\* the sender still waits.
LEMMA SentKept ==
  ASSUME NEW q, Sent(q), Grows, Same(q.run) \/ pc'[q.run] = "failed"
  PROVE  Sent(q)'
<1>1. /\ q.run \in Runs /\ q.job \in Starts /\ q.op \in {"get", "declare", "part", "complete", "cancel"}
      /\ q.op = "part" => q.part \in Parts /\ q.bytes \in 0..MaxChanges
  BY Zenon DEF Sent
<1>2. q.op = "declare" => q.bytes \in Contents /\ Kept(q.job, q.bytes)'
  BY Zenon, <1>1 DEF Sent, Grows
<1>3. q.op \in {"part", "complete"} => jobs'[q.job] # None
  BY Zenon, <1>1 DEF Sent, Grows
<1>4. q.op = "complete" => \A i \in Parts : Uploaded(q.job, i)'
  BY Zenon, <1>1 DEF Sent, Grows
<1>5. pc'[q.run] = "failed" \/ Awaited(q)'
  <2>1. CASE pc[q.run] = "failed" /\ Same(q.run)
    BY Zenon, <2>1 DEF Same
  <2>2. CASE Awaited(q) /\ Same(q.run)
    <3>1. pc'[q.run] = pc[q.run] /\ reply'[q.run] = reply[q.run]
          /\ (q.run \in Uploads => id'[q.run] = id[q.run])
      BY Zenon, <2>2 DEF Same, Still
    <3> QED BY Zenon, <2>2, <3>1 DEF Awaited
  <2> QED BY Zenon, <2>1, <2>2 DEF Sent
<1> QED BY Zenon, <1>1, <1>2, <1>3, <1>4, <1>5 DEF Sent

LEMMA DeclarationKept ==
  ASSUME NEW j, OneDeclaration(j), \A d \in Contents : Says(j, d)' => Says(j, d),
         pc'[j] \in Unknown => pc[j] \in Unknown
  PROVE  OneDeclaration(j)'
<1>1. ASSUME pc'[j] \in Unknown, NEW d \in Contents PROVE ~Says(j, d)'
  BY Zenon, <1>1 DEF OneDeclaration
<1>2. ASSUME NEW d \in Contents, NEW e \in Contents, Says(j, d)', Says(j, e)' PROVE d = e
  BY Zenon, <1>2 DEF OneDeclaration
<1> QED BY Zenon, <1>1, <1>2 DEF OneDeclaration

\* No new part of job j: none is under way and none has arrived.
PartsStay(j) ==
  /\ \A q \in net' : q.op = "part" /\ q.job = j => q \in net
  /\ jobs'[j] # None =>
       \A i \in Parts : jobs'[j].parts[i].state # "none" =>
         /\ jobs[j] # None /\ jobs[j].parts[i].state # "none"
         /\ jobs'[j].parts[i].bytes = jobs[j].parts[i].bytes

LEMMA FitsKept ==
  ASSUME Types, Types', NEW j, NEW d, NEW h \in held, Fits(j, d, h),
         \A i \in Parts : source[i] <= source'[i], PartsStay(j)
  PROVE  Fits(j, d, h)'
<1> SUFFICES ASSUME NEW i \in Parts
             PROVE  /\ d[i] <= h[i] /\ h[i] <= source'[i]
                    /\ \A q \in net' : q.op = "part" /\ q.job = j /\ q.part = i =>
                          q.bytes = d[i] /\ h[i] = d[i]
                    /\ jobs'[j] # None /\ jobs'[j].parts[i].state # "none" =>
                          jobs'[j].parts[i].bytes = d[i] /\ h[i] = d[i]
  BY Zenon DEF Fits
<1>1. /\ d[i] <= h[i] /\ h[i] <= source[i] /\ source[i] <= source'[i]
      /\ \A q \in net : q.op = "part" /\ q.job = j /\ q.part = i => q.bytes = d[i] /\ h[i] = d[i]
      /\ jobs[j] # None /\ jobs[j].parts[i].state # "none" =>
           jobs[j].parts[i].bytes = d[i] /\ h[i] = d[i]
  BY Zenon DEF Fits
<1>2. h[i] \in 0..MaxChanges /\ source[i] \in 0..MaxChanges /\ source'[i] \in 0..MaxChanges
  BY Zenon DEF Types, Contents
<1>3. h[i] <= source'[i]
  BY ONLY <1>1, <1>2, Sets
<1> QED BY Zenon, <1>1, <1>3 DEF PartsStay

LEMMA WitnessKept ==
  ASSUME Types, Types', NEW j, Witnessed(j), \A d \in Contents : Says(j, d)' => Says(j, d),
         held \subseteq held', \A i \in Parts : source[i] <= source'[i], PartsStay(j)
  PROVE  Witnessed(j)'
<1> SUFFICES ASSUME NEW d \in Contents, Says(j, d)' PROVE \E h \in held' : Fits(j, d, h)'
  BY Zenon DEF Witnessed
<1>1. PICK h \in held : Fits(j, d, h)
  BY Zenon DEF Witnessed
<1>2. Fits(j, d, h)'
  BY Zenon, <1>1, FitsKept
<1> QED BY Zenon, <1>2

LEMMA ServedKept ==
  ASSUME NEW j \in Starts, Served(j), Grows,
         jobs'[j] # None => /\ jobs[j] # None /\ jobs'[j].declared = jobs[j].declared
                            /\ jobs[j].declared \in Contents
                            /\ jobs'[j].state \in {"completing", "ready"} =>
                                 jobs[j].state \in {"completing", "ready"}
  PROVE  Served(j)'
<1> SUFFICES ASSUME jobs'[j] # None
             PROVE  /\ Kept(j, jobs[j].declared)'
                    /\ jobs'[j].state \in {"completing", "ready"} => \A i \in Parts : Uploaded(j, i)'
  BY Zenon DEF Served
<1>1. PICK d \in Contents : d = jobs[j].declared /\ jobs'[j].declared = d
  BY Zenon
<1>2. Kept(j, d)'
  BY Zenon, <1>1 DEF Served, Grows
<1>3. Kept(j, jobs[j].declared)'
  BY Zenon, <1>1, <1>2 DEF Kept
<1>4. jobs'[j].state \in {"completing", "ready"} => \A i \in Parts : Uploaded(j, i)'
  BY Zenon DEF Served, Grows
<1> QED BY Zenon, <1>3, <1>4

LEMMA SaysKept ==
  ASSUME NEW j \in Starts, NEW d,
         \A x \in Uploads : id'[x] = None \/ (id'[x] = id[x] /\ declared'[x] = declared[x]),
         \A p \in Paths : journals'[p] # None =>
           /\ journals[p] # None /\ journals'[p].id = journals[p].id
           /\ journals'[p].declared = journals[p].declared,
         \A q \in net' : q.op = "declare" => q \in net,
         jobs'[j] # None => jobs[j] # None /\ jobs'[j].declared = jobs[j].declared,
         Says(j, d)'
  PROVE  Says(j, d)
<1>1. j # None
  BY Sets
<1>2. CASE \E x \in Uploads : id'[x] = j /\ declared'[x] = d
  BY Zenon, <1>1, <1>2 DEF Says
<1>3. CASE \E p \in Paths : journals'[p] # None /\ journals'[p].id = j /\ journals'[p].declared = d
  BY Zenon, <1>3 DEF Says
<1>4. CASE \E q \in net' : q.op = "declare" /\ q.job = j /\ q.bytes = d
  BY Zenon, <1>4 DEF Says
<1>5. CASE jobs'[j] # None /\ jobs'[j].declared = d
  BY Zenon, <1>5 DEF Says
<1> QED BY Zenon, <1>2, <1>3, <1>4, <1>5 DEF Says

LEMMA JobTypes ==
  ASSUME Types, NEW j \in Starts, jobs[j] # None
  PROVE  /\ jobs[j] \in Job /\ jobs[j].declared \in Contents
         /\ jobs[j].state \in {"creating", "uploading", "completing", "ready", "canceled"}
         /\ jobs[j].parts \in [Parts -> [state : {"none", "uploading", "uploaded"},
                                        bytes : 0..MaxChanges \cup {None}]]
<1>1. jobs[j] \in Job
  BY Zenon DEF Types
<1> QED BY <1>1 DEF Job

\* The jobs when a step does not reach the service.
LEMMA JobKept ==
  ASSUME Inv, Types', NEW j \in Starts, Grows, jobs' = jobs, held \subseteq held',
         \A q \in net' : q.op = "part" /\ q.job = j => q \in net,
         \A d \in Contents : Says(j, d)' => Says(j, d),
         pc'[j] \in Unknown => pc[j] \in Unknown
  PROVE  Served(j)' /\ OneDeclaration(j)' /\ Witnessed(j)'
<1>1. Types /\ Served(j) /\ OneDeclaration(j) /\ Witnessed(j)
  BY Zenon DEF Inv
<1>2. Served(j)'
  BY Zenon, <1>1, ServedKept, JobTypes
<1>3. OneDeclaration(j)'
  BY Zenon, <1>1, DeclarationKept
<1>4. PartsStay(j) /\ \A i \in Parts : source[i] <= source'[i]
  BY Zenon DEF PartsStay, Grows
<1> QED BY Zenon, <1>1, <1>2, <1>3, <1>4, WitnessKept

LEMMA Unchanged ==
  ASSUME Types, UNCHANGED <<source, early, journals, jobs>>
  PROVE  Grows
<1>1. \A i \in Parts : source[i] <= source'[i]
  <2> SUFFICES ASSUME NEW i \in Parts PROVE source[i] <= source'[i]
    OBVIOUS
  <2>1. source[i] \in 0..MaxChanges /\ source'[i] = source[i]
    BY Zenon DEF Types, Contents
  <2> QED BY ONLY <2>1, Sets
<1> QED BY Zenon, <1>1 DEF Grows, Uploaded, Kept

-----------------------------------------------------------------------------
(* Steps by what they may change.                                           *)

\* While run r has no request under way it may do something on its own.
LEMMA LocalStep ==
  ASSUME Inv, Types', NEW r \in Uploads, \A x \in Runs \ {r} : Same(x),
         UNCHANGED <<source, held, early, journals, jobs, net>>,
         id'[r] = id[r], declared'[r] = declared[r], \A q \in net : q.run # r,
         pc'[r] \in Unknown => pc[r] \in Unknown, Placed(r)', Told(r)'
  PROVE  Inv'
<1>1. Types /\ Grows /\ \A x \in Uploads : Placed(x) /\ Told(x)
  BY Zenon, Unchanged DEF Inv
<1>2. \A x \in Uploads : Placed(x)' /\ Told(x)'
  <2> SUFFICES ASSUME NEW x \in Uploads, x # r PROVE Placed(x)' /\ Told(x)'
    BY Zenon
  <2>1. Same(x) /\ Still(x) /\ JournalStays(x)
    BY Zenon, <1>1, Sets DEF Same, JournalStays, Placed
  <2> QED BY Zenon, <1>1, <2>1, PlacedKept, ToldKept
<1>3. \A q \in net' : Sent(q)'
  <2> SUFFICES ASSUME NEW q \in net PROVE Sent(q)'
    BY Zenon
  <2>1. Sent(q) /\ q.run \in Runs /\ q.run # r
    BY Zenon DEF Inv, Sent
  <2> QED BY Zenon, <1>1, <2>1, SentKept
<1>4. OneRequest'
  <2> SUFFICES ASSUME NEW q \in net, NEW o \in net, q.run = o.run, pc'[q.run] # "failed" PROVE q = o
    BY Zenon DEF OneRequest
  <2>1. pc'[q.run] = pc[q.run]
    BY Zenon DEF Inv, Sent, Same
  <2> QED BY Zenon, <2>1 DEF Inv, OneRequest
<1>5. \A j \in Starts : Served(j)' /\ OneDeclaration(j)' /\ Witnessed(j)'
  <2> SUFFICES ASSUME NEW j \in Starts PROVE Served(j)' /\ OneDeclaration(j)' /\ Witnessed(j)'
    OBVIOUS
  <2>1. \A x \in Uploads : id'[x] = id[x] /\ declared'[x] = declared[x]
    BY Zenon, Sets DEF Same, Still
  <2>2. \A d \in Contents : Says(j, d)' => Says(j, d)
    BY Zenon, <2>1, SaysKept
  <2>3. pc'[j] \in Unknown => pc[j] \in Unknown
    BY Zenon, Sets DEF Same
  <2> QED BY Zenon, <1>1, <2>2, <2>3, JobKept
<1> QED BY Zenon, <1>2, <1>3, <1>4, <1>5 DEF Inv

\* A run that has no request under way sends one, m, and waits for the answer.
LEMMA SendStep ==
  ASSUME Inv, Types', NEW r \in Runs, NEW m, m.run = r, net' = net \cup {m},
         \A x \in Runs \ {r} : Same(x), UNCHANGED <<source, held, early, journals, jobs>>,
         r \in Uploads => id'[r] = id[r] /\ declared'[r] = declared[r] /\ Placed(r)',
         reply'[r] = None, \A q \in net : q.run # r, pc'[r] \notin Unknown, Sent(m)',
         m.op = "declare" => Says(m.job, m.bytes),
         m.op = "part" =>
           \A d \in Contents : \A h \in held :
             Says(m.job, d) /\ Fits(m.job, d, h) => m.bytes = d[m.part] /\ h[m.part] = d[m.part]
  PROVE  Inv'
<1>1. Types /\ Grows /\ \A x \in Uploads : Placed(x) /\ Told(x)
  BY Zenon, Unchanged DEF Inv
<1>2. \A x \in Uploads : Placed(x)' /\ Told(x)'
  <2>1. ASSUME NEW x \in Uploads, x # r PROVE Placed(x)' /\ Told(x)'
    <3>1. Same(x) /\ Still(x) /\ JournalStays(x)
      BY Zenon, <1>1, <2>1, Sets DEF Same, JournalStays, Placed
    <3> QED BY Zenon, <1>1, <3>1, PlacedKept, ToldKept
  <2>2. ASSUME r \in Uploads PROVE Placed(r)' /\ Told(r)'
    BY Zenon, <2>2 DEF Told
  <2> QED BY Zenon, <2>1, <2>2
<1>3. \A q \in net' : Sent(q)'
  <2> SUFFICES ASSUME NEW q \in net PROVE Sent(q)'
    BY Zenon
  <2>1. Sent(q) /\ q.run \in Runs /\ q.run # r
    BY Zenon DEF Inv, Sent
  <2> QED BY Zenon, <1>1, <2>1, SentKept
<1>4. OneRequest'
  <2> SUFFICES ASSUME NEW q \in net', NEW o \in net', q.run = o.run, pc'[q.run] # "failed" PROVE q = o
    BY Zenon DEF OneRequest
  <2>1. CASE q \in net /\ o \in net
    <3>1. pc'[q.run] = pc[q.run]
      BY Zenon, <2>1 DEF Inv, Sent, Same
    <3> QED BY Zenon, <2>1, <3>1 DEF Inv, OneRequest
  <2> QED BY Zenon, <2>1
<1>5. ASSUME NEW j \in Starts PROVE Served(j)' /\ OneDeclaration(j)' /\ Witnessed(j)'
  <2>1. \A x \in Uploads : id'[x] = id[x] /\ declared'[x] = declared[x]
    BY Zenon, Sets DEF Same, Still
  <2>2. ASSUME NEW d \in Contents, Says(j, d)' PROVE Says(j, d)
    <3>1. CASE \E q \in net' : q.op = "declare" /\ q.job = j /\ q.bytes = d
      BY Zenon, <3>1 DEF Says
    <3>2. CASE ~\E q \in net' : q.op = "declare" /\ q.job = j /\ q.bytes = d
      <4>1. \/ \E x \in Uploads : id'[x] = j /\ declared'[x] = d
            \/ \E p \in Paths : journals'[p] # None /\ journals'[p].id = j /\ journals'[p].declared = d
            \/ jobs'[j] # None /\ jobs'[j].declared = d
        BY Zenon, <2>2, <3>2 DEF Says
      <4> QED BY Zenon, <2>1, <4>1 DEF Says
    <3> QED BY Zenon, <3>1, <3>2
  <2>3. pc'[j] \in Unknown => pc[j] \in Unknown
    BY Zenon, Sets DEF Same
  <2>4. Served(j) /\ OneDeclaration(j) /\ Witnessed(j)
    BY Zenon DEF Inv
  <2>5. Served(j)'
    BY Zenon, <1>1, <2>4, ServedKept, JobTypes
  <2>6. OneDeclaration(j)'
    BY Zenon, <2>2, <2>3, <2>4, DeclarationKept
  <2>7. ASSUME NEW d \in Contents, Says(j, d)' PROVE \E h \in held' : Fits(j, d, h)'
    <3>1. PICK h \in held : Fits(j, d, h)
      BY Zenon, <2>2, <2>4, <2>7 DEF Witnessed
    <3>2. ASSUME NEW i \in Parts, NEW q \in net', q.op = "part", q.job = j, q.part = i
          PROVE  q.bytes = d[i] /\ h[i] = d[i]
      <4>1. CASE q \in net
        BY Zenon, <3>1, <3>2, <4>1 DEF Fits
      <4>2. CASE q = m
        BY Zenon, <2>2, <2>7, <3>1, <3>2, <4>2
      <4> QED BY Zenon, <4>1, <4>2
    <3>3. Fits(j, d, h)'
      BY Zenon, <3>1, <3>2 DEF Fits
    <3> QED BY Zenon, <3>3
  <2> QED BY Zenon, <2>5, <2>6, <2>7 DEF Witnessed
<1> QED BY Zenon, <1>2, <1>3, <1>4, <1>5 DEF Inv

\* Runs end or are killed, and the machine may stop: a journal that was not synced
\* may be gone then, and whoever had not synced it is dead.
LEMMA ForgetStep ==
  ASSUME Inv, Types', NEW dead \in SUBSET Runs, \A x \in Runs \ dead : Same(x),
         \A x \in dead :
           /\ pc'[x] \in {"done", "failed"} /\ reply'[x] = None
           /\ x \in Uploads => id'[x] = None /\ Len(snap'[x]) = 0 /\ received'[x] = {}
           /\ pc'[x] = "done" => \A q \in net : q.run # x,
         net' \subseteq net, UNCHANGED <<source, held, early, jobs>>,
         \A p \in Paths : journals'[p] # None =>
           /\ journals[p] # None /\ journals'[p].id = journals[p].id
           /\ journals'[p].declared = journals[p].declared,
         \A p \in Paths : journals[p] # None /\ journals[p].synced =>
           journals'[p] # None /\ journals'[p].synced,
         \A x \in Runs \ dead : pc[x] = "sync" => journals' = journals
  PROVE  Inv'
<1>1. Types /\ \A x \in Uploads : Placed(x) /\ Told(x)
  BY Zenon DEF Inv
<1>2. Grows
  <2>1. \A i \in Parts : source[i] <= source'[i]
    <3> SUFFICES ASSUME NEW i \in Parts PROVE source[i] <= source'[i]
      OBVIOUS
    <3>1. source[i] \in 0..MaxChanges /\ source'[i] = source[i]
      BY Zenon, <1>1 DEF Types, Contents
    <3> QED BY ONLY <3>1, Sets
  <2>2. ASSUME NEW j \in Starts, NEW d \in Contents, Kept(j, d) PROVE Kept(j, d)'
    <3>1. CASE j \in early
      BY Zenon, <3>1 DEF Kept
    <3>2. CASE \E p \in Paths :
            journals[p] # None /\ journals[p].id = j /\ journals[p].declared = d /\ journals[p].synced
      <4>1. PICK p \in Paths :
              journals[p] # None /\ journals[p].id = j /\ journals[p].declared = d /\ journals[p].synced
        BY Zenon, <3>2
      <4>2. journals'[p] # None /\ journals'[p].id = j /\ journals'[p].declared = d /\ journals'[p].synced
        BY Zenon, <4>1
      <4> QED BY Zenon, <4>2 DEF Kept
    <3> QED BY Zenon, <2>2, <3>1, <3>2 DEF Kept
  <2> QED BY Zenon, <2>1, <2>2 DEF Grows, Uploaded
<1>3. ASSUME NEW x \in Uploads PROVE Placed(x)' /\ Told(x)'
  <2>1. CASE x \notin dead
    <3>1. Same(x) /\ Still(x) /\ JournalStays(x)
      BY Zenon, <1>1, <2>1, Sets DEF Same, JournalStays, Placed
    <3> QED BY Zenon, <1>1, <1>2, <3>1, PlacedKept, ToldKept
  <2>2. CASE x \in dead
    <3>1. pc'[x] \in {"done", "failed"} /\ reply'[x] = None /\ id'[x] = None /\ Len(snap'[x]) = 0 /\ received'[x] = {}
      BY Zenon, <2>2
    <3>2. \A i \in 1..Len(snap'[x]) : snap'[x][i] <= source'[i]
      BY <3>1
    <3>3. pc'[x] \notin {"canceling", "hash", "save", "sync"} \cup Working \cup Matched
      BY <3>1 DEF Working, Matched
    <3> QED BY <3>1, <3>2, <3>3 DEF Placed, Told, Matched
  <2> QED BY Zenon, <2>1, <2>2
<1>4. ASSUME NEW q \in net' PROVE Sent(q)'
  <2>1. q \in net /\ Sent(q) /\ q.run \in Runs
    BY Zenon DEF Inv, Sent
  <2>2. Same(q.run) \/ pc'[q.run] = "failed"
    BY Zenon, <2>1
  <2> QED BY Zenon, <1>2, <2>1, <2>2, SentKept
<1>5. OneRequest'
  <2> SUFFICES ASSUME NEW q \in net', NEW o \in net', q.run = o.run, pc'[q.run] # "failed" PROVE q = o
    BY Zenon DEF OneRequest
  <2>1. q \in net /\ o \in net /\ q.run \in Runs
    BY Zenon DEF Inv, Sent
  <2>2. q.run \notin dead
    BY Zenon, <2>1
  <2>3. pc'[q.run] = pc[q.run]
    BY Zenon, <2>1, <2>2 DEF Same
  <2> QED BY Zenon, <2>1, <2>3 DEF Inv, OneRequest
<1>6. ASSUME NEW j \in Starts PROVE Served(j)' /\ OneDeclaration(j)' /\ Witnessed(j)'
  <2>1. \A x \in Uploads : id'[x] = None \/ (id'[x] = id[x] /\ declared'[x] = declared[x])
    BY Zenon, Sets DEF Same, Still
  <2>2. \A d \in Contents : Says(j, d)' => Says(j, d)
    BY Zenon, <2>1, SaysKept
  <2>3. pc'[j] \in Unknown => pc[j] \in Unknown
    <3>1. CASE j \in dead
      BY <3>1 DEF Unknown
    <3>2. CASE j \notin dead
      BY Zenon, <3>2, Sets DEF Same
    <3> QED BY Zenon, <3>1, <3>2
  <2> QED BY Zenon, <1>1, <1>2, <2>2, <2>3, JobKept
<1> QED BY Zenon, <1>3, <1>4, <1>5, <1>6 DEF Inv

-----------------------------------------------------------------------------
(* The service takes a request.                                             *)

\* What a job of the service may become when q is taken.
Follows(q, job) ==
  /\ jobs[q.job] # None =>
       /\ job # None /\ job.declared = jobs[q.job].declared
       /\ \A i \in Parts : jobs[q.job].parts[i].state = "uploaded" => job.parts[i].state = "uploaded"
  /\ job # None =>
       /\ jobs[q.job] = None => q.op = "declare" /\ job.declared = q.bytes
       /\ job.state \in {"completing", "ready"} => \A i \in Parts : job.parts[i].state = "uploaded"
       /\ \A i \in Parts : job.parts[i].state # "none" =>
            \/ /\ jobs[q.job] # None /\ jobs[q.job].parts[i].state # "none"
               /\ job.parts[i].bytes = jobs[q.job].parts[i].bytes
            \/ q.op = "part" /\ q.part = i /\ job.parts[i].bytes = q.bytes

\* An answer that says of the job what is so.
Truthful(q, job, answer) ==
  answer.kind = "ok" =>
    /\ pc[q.run] \in {"looked", "declared", "polled"} => job # None
    /\ pc[q.run] = "page" =>
         \A p \in answer.page :
           /\ p.number \in Parts
           /\ p.state = "uploaded" => job # None /\ job.parts[p.number].state = "uploaded"
    /\ pc[q.run] = "sent" =>
         answer.number \in Parts /\ job # None /\ job.parts[answer.number].state = "uploaded"

LEMMA TakeStep ==
  ASSUME Inv, NEW q \in net, NEW job \in Job \cup {None}, NEW answer, Take(q, job, answer),
         Follows(q, job), Truthful(q, job, answer)
  PROVE  Inv'
<1> DEFINE x == q.run
           j == q.job
<1>1. /\ Types /\ Sent(q) /\ x \in Runs /\ j \in Starts
      /\ \A y \in Uploads : Placed(y) /\ Told(y)
  BY Zenon DEF Inv, Sent
<1>2. /\ net' = net \ {q} /\ jobs' = [jobs EXCEPT ![j] = job]
      /\ reply' = IF pc[x] = "failed" THEN reply ELSE [reply EXCEPT ![x] = answer]
      /\ UNCHANGED <<source, held, early, journals, pc, crashes, id, declared, snap, received, after, polls>>
  BY Zenon DEF Take, history, local
<1>3. jobs'[j] = job /\ \A k \in Starts : k # j => jobs'[k] = jobs[k]
  BY Zenon, <1>1, <1>2 DEF Types
<1>4. /\ \A y \in Runs : y # x => reply'[y] = reply[y]
      /\ pc[x] = "failed" => reply'[x] = reply[x]
      /\ pc[x] # "failed" => reply'[x] = answer
  BY Zenon, <1>1, <1>2 DEF Types
<1>5. Types'
  <2>1. jobs' \in [Starts -> Job \cup {None}]
    BY Zenon, <1>1, <1>2 DEF Types
  <2>2. DOMAIN reply' = Runs
    BY Zenon, <1>1, <1>2 DEF Types
  <2> QED BY Zenon, <1>1, <1>2, <2>1, <2>2 DEF Types
<1>6. Grows
  <2>1. \A i \in Parts : source[i] <= source'[i]
    <3> SUFFICES ASSUME NEW i \in Parts PROVE source[i] <= source'[i]
      OBVIOUS
    <3>1. source[i] \in 0..MaxChanges /\ source'[i] = source[i]
      BY Zenon, <1>1, <1>2 DEF Types, Contents
    <3> QED BY ONLY <3>1, Sets
  <2>2. ASSUME NEW k \in Starts, jobs[k] # None PROVE jobs'[k] # None
    BY Zenon, <1>3, <2>2 DEF Follows
  <2>3. ASSUME NEW k \in Starts, NEW i \in Parts, Uploaded(k, i) PROVE Uploaded(k, i)'
    <3>1. CASE k # j
      BY Zenon, <1>3, <2>3, <3>1 DEF Uploaded
    <3>2. CASE k = j
      BY Zenon, <1>3, <2>3, <3>2 DEF Uploaded, Follows
    <3> QED BY Zenon, <3>1, <3>2
  <2>4. \A k \in Starts : \A d \in Contents : Kept(k, d) => Kept(k, d)'
    BY Zenon, <1>2 DEF Kept
  <2> QED BY Zenon, <2>1, <2>2, <2>3, <2>4 DEF Grows
<1>7. \A y \in Runs : (y # x \/ pc[x] = "failed") => Same(y)
  BY Zenon, <1>2, <1>4 DEF Same, Still
<1>8. ASSUME NEW y \in Uploads PROVE Placed(y)' /\ Told(y)'
  <2>1. Still(y) /\ JournalStays(y)
    BY Zenon, <1>1, <1>2 DEF Still, JournalStays, Placed
  <2>2. Placed(y)'
    BY Zenon, <1>1, <1>5, <1>6, <2>1, PlacedKept
  <2>3. CASE y # x \/ pc[x] = "failed"
    <3>1. Same(y) /\ Placed(y) /\ Told(y)
      BY Zenon, <1>1, <1>7, <2>3, Sets
    <3> QED BY Zenon, <1>6, <2>2, <3>1, ToldKept
  <2>4. CASE y = x /\ pc[x] # "failed"
    <3>1. Awaited(q)
      BY Zenon, <1>1, <2>4 DEF Sent
    <3>2. pc[x] \in {"looked", "declared", "polled", "page", "sent"} => id[x] = j
      BY <1>1, <3>1 DEF Awaited, Sent
    <3>3. reply'[x] = answer /\ pc'[x] = pc[x] /\ id'[x] = id[x] /\ jobs'[j] = job
      BY Zenon, <1>2, <1>3, <1>4, <2>4
    <3>4. Told(x)'
      <4> SUFFICES ASSUME answer.kind = "ok"
                   PROVE  /\ pc[x] \in {"looked", "declared", "polled"} => jobs'[id[x]] # None
                          /\ pc[x] = "page" =>
                               \A p \in answer.page :
                                 /\ p.number \in Parts
                                 /\ p.state = "uploaded" =>
                                      jobs'[id[x]] # None /\ jobs'[id[x]].parts[p.number].state = "uploaded"
                          /\ pc[x] = "sent" =>
                               /\ answer.number \in Parts /\ jobs'[id[x]] # None
                               /\ jobs'[id[x]].parts[answer.number].state = "uploaded"
        BY Zenon, <3>3 DEF Told, Uploaded
      <4>1. pc[x] \in {"looked", "declared", "polled"} => jobs'[id[x]] # None
        BY Zenon, <3>2, <3>3 DEF Truthful
      <4>2. ASSUME pc[x] = "page", NEW p \in answer.page
            PROVE  /\ p.number \in Parts
                   /\ p.state = "uploaded" =>
                        jobs'[id[x]] # None /\ jobs'[id[x]].parts[p.number].state = "uploaded"
        BY Zenon, <3>2, <3>3, <4>2 DEF Truthful
      <4>3. ASSUME pc[x] = "sent"
            PROVE  /\ answer.number \in Parts /\ jobs'[id[x]] # None
                   /\ jobs'[id[x]].parts[answer.number].state = "uploaded"
        BY Zenon, <3>2, <3>3, <4>3 DEF Truthful
      <4> QED BY Zenon, <4>1, <4>2, <4>3
    <3> QED BY Zenon, <2>2, <2>4, <3>4
  <2> QED BY Zenon, <2>2, <2>3, <2>4
<1>9. ASSUME NEW o \in net' PROVE Sent(o)'
  <2>1. o \in net /\ o # q /\ Sent(o) /\ o.run \in Runs
    BY Zenon, <1>2 DEF Inv, Sent
  <2>2. o.run # x \/ pc[x] = "failed"
    BY Zenon, <2>1 DEF Inv, OneRequest
  <2> QED BY Zenon, <1>6, <1>7, <2>1, <2>2, SentKept
<1>10. OneRequest'
  BY Zenon, <1>2 DEF Inv, OneRequest
<1>11. ASSUME NEW k \in Starts, k # j PROVE Served(k)' /\ OneDeclaration(k)' /\ Witnessed(k)'
  <2>1. Served(k) /\ OneDeclaration(k) /\ Witnessed(k)
    BY Zenon DEF Inv
  <2>2. jobs'[k] = jobs[k]
    BY Zenon, <1>3, <1>11
  <2>3. \A d \in Contents : Says(k, d)' => Says(k, d)
    BY Zenon, <1>2, <2>2, SaysKept
  <2>4. Served(k)'
    BY Zenon, <1>1, <1>6, <2>1, <2>2, ServedKept, JobTypes
  <2>5. OneDeclaration(k)'
    BY Zenon, <1>2, <2>1, <2>3, DeclarationKept
  <2>6. PartsStay(k) /\ held \subseteq held' /\ \A i \in Parts : source[i] <= source'[i]
    BY Zenon, <1>2, <1>6, <2>2 DEF PartsStay, Grows
  <2> QED BY Zenon, <1>1, <1>5, <2>1, <2>3, <2>4, <2>5, <2>6, WitnessKept
<1>12. Served(j)' /\ OneDeclaration(j)' /\ Witnessed(j)'
  <2>1. Served(j) /\ OneDeclaration(j) /\ Witnessed(j)
    BY Zenon, <1>1 DEF Inv
  <2>2. ASSUME NEW d \in Contents, Says(j, d)' PROVE Says(j, d)
    <3>1. CASE jobs[j] = None /\ jobs'[j] # None /\ jobs'[j].declared = d
      <4>1. q.op = "declare" /\ q.bytes = d
        BY Zenon, <1>3, <3>1 DEF Follows
      <4> QED BY Zenon, <4>1 DEF Says
    <3>2. CASE jobs[j] # None /\ jobs'[j] # None /\ jobs'[j].declared = d
      BY Zenon, <1>3, <3>2 DEF Follows, Says
    <3>3. CASE ~(jobs'[j] # None /\ jobs'[j].declared = d)
      <4>1. \/ \E y \in Uploads : id'[y] = j /\ declared'[y] = d
            \/ \E p \in Paths : journals'[p] # None /\ journals'[p].id = j /\ journals'[p].declared = d
            \/ \E o \in net' : o.op = "declare" /\ o.job = j /\ o.bytes = d
        BY Zenon, <2>2, <3>3 DEF Says
      <4> QED BY Zenon, <1>2, <4>1 DEF Says
    <3> QED BY Zenon, <3>1, <3>2, <3>3
  <2>3. OneDeclaration(j)'
    BY Zenon, <1>2, <2>1, <2>2, DeclarationKept
  <2>4. Served(j)'
    <3> SUFFICES ASSUME job # None
                 PROVE  /\ Kept(j, jobs[j].declared)'
                        /\ job.state \in {"completing", "ready"} =>
                             \A i \in Parts : jobs'[j] # None /\ jobs'[j].parts[i].state = "uploaded"
      BY Zenon, <1>3 DEF Served, Uploaded
    <3>1. PICK d \in Contents : d = job.declared
      BY DEF Job
    <3>2. Kept(j, d)
      <4>1. CASE jobs[j] # None
        BY Zenon, <2>1, <3>1, <4>1 DEF Served, Follows
      <4>2. CASE jobs[j] = None
        BY Zenon, <1>1, <3>1, <4>2 DEF Sent, Follows
      <4> QED BY Zenon, <4>1, <4>2
    <3>3. Kept(j, d)'
      BY Zenon, <1>1, <1>6, <3>2 DEF Grows
    <3>4. Kept(j, jobs[j].declared)'
      BY Zenon, <1>3, <3>1, <3>3 DEF Kept
    <3> QED BY Zenon, <1>3, <3>4 DEF Follows
  <2>5. ASSUME NEW d \in Contents, Says(j, d)' PROVE \E h \in held' : Fits(j, d, h)'
    <3>1. PICK h \in held : Fits(j, d, h)
      BY Zenon, <2>1, <2>2, <2>5 DEF Witnessed
    <3>2. ASSUME NEW i \in Parts, job # None, job.parts[i].state # "none"
          PROVE  job.parts[i].bytes = d[i] /\ h[i] = d[i]
      <4>1. CASE /\ jobs[j] # None /\ jobs[j].parts[i].state # "none"
                 /\ job.parts[i].bytes = jobs[j].parts[i].bytes
        BY Zenon, <3>1, <4>1 DEF Fits
      <4>2. CASE q.op = "part" /\ q.part = i /\ job.parts[i].bytes = q.bytes
        BY Zenon, <3>1, <4>2 DEF Fits
      <4> QED BY Zenon, <3>2, <4>1, <4>2 DEF Follows
    <3>3. Fits(j, d, h)'
      BY Zenon, <1>2, <1>3, <3>1, <3>2 DEF Fits
    <3> QED BY Zenon, <1>2, <3>3
  <2> QED BY Zenon, <2>3, <2>4, <2>5 DEF Witnessed
<1> QED BY Zenon, <1>5, <1>8, <1>9, <1>10, <1>11, <1>12 DEF Inv

-----------------------------------------------------------------------------
\* GET shows what the job has.
LEMMA PageFacts ==
  ASSUME NEW job, NEW cursor
  PROVE  LET answer == Page(job, cursor)
         IN /\ answer.kind = "ok"
            /\ \A p \in answer.page : p.number \in Parts /\ p.state = job.parts[p.number].state
<1> DEFINE begun == {i \in Parts : i > cursor /\ job.parts[i].state # "none"}
           shown == {i \in begun : Cardinality({k \in begun : k < i}) < PageSize}
           item(i) == [number |-> i, state |-> job.parts[i].state, bytes |-> job.parts[i].bytes]
           next == IF shown = begun THEN None ELSE CHOOSE i \in shown : \A k \in shown : k <= i
<1>1. Page(job, cursor) = [kind |-> "ok", declared |-> job.declared, state |-> job.state,
                           page |-> {item(i) : i \in shown}, next |-> next]
  BY Zenon DEF Page
<1>2. \A i \in shown : i \in Parts
  BY Zenon
<1>3. \A i : item(i).number = i /\ item(i).state = job.parts[i].state
  OBVIOUS
<1> HIDE DEF begun, shown, next, item
<1>4. Page(job, cursor).kind = "ok" /\ Page(job, cursor).page = {item(i) : i \in shown}
  BY <1>1
<1>5. ASSUME NEW p \in Page(job, cursor).page PROVE p.number \in Parts /\ p.state = job.parts[p.number].state
  <2>1. PICK i \in shown : p = item(i)
    BY Zenon, <1>4
  <2> QED BY Zenon, <1>2, <1>3, <2>1
<1> QED BY Zenon, <1>4, <1>5

\* An invocation that waits for a part waits for no other answer.
LEMMA Awaiting ==
  ASSUME Inv, NEW q \in net, q.op # "part"
  PROVE  pc[q.run] # "sent"
<1>1. Sent(q)
  BY Zenon DEF Inv
<1> QED BY <1>1 DEF Sent, Awaited

LEMMA PageTruthful ==
  ASSUME Inv, NEW q \in net, q.op # "part", NEW job \in Job, NEW cursor
  PROVE  Truthful(q, job, Page(job, cursor))
<1>1. job # None
  BY Zenon, Sets
<1> QED BY Zenon, <1>1, PageFacts, Awaiting DEF Truthful

LEMMA ErrorTruthful ==
  ASSUME NEW q, NEW job, NEW kind, kind # "ok"
  PROVE  Truthful(q, job, Error(kind))
<1>1. Error(kind).kind # "ok"
  BY DEF Error
<1> QED BY Zenon, <1>1 DEF Truthful

\* A job that is left as it is, or only goes to another state.
LEMMA JobStays ==
  ASSUME Inv, NEW q \in net, NEW job, jobs[q.job] # None, job # None,
         job.declared = jobs[q.job].declared, job.parts = jobs[q.job].parts,
         job.state \in {"completing", "ready"} =>
           \/ jobs[q.job].state \in {"completing", "ready"}
           \/ q.op = "complete"
  PROVE  Follows(q, job)
<1>1. Sent(q) /\ Served(q.job)
  BY Zenon DEF Inv, Sent
<1>2. ASSUME job.state \in {"completing", "ready"}, NEW i \in Parts PROVE job.parts[i].state = "uploaded"
  BY Zenon, <1>1, <1>2 DEF Sent, Served, Uploaded
<1> QED BY Zenon, <1>2 DEF Follows

LEMMA TakeGet ==
  ASSUME Inv, NEW q \in net, ServeGet(q)
  PROVE  Inv'
<1>1. Types /\ q.op = "get" /\ q.job \in Starts
  BY Zenon DEF Inv, Sent, ServeGet
<1>2. CASE jobs[q.job] = None
  <2>1. Take(q, None, Error("missing"))
    BY Zenon, <1>2 DEF ServeGet
  <2>2. Follows(q, None)
    BY Zenon, <1>2 DEF Follows
  <2>3. "missing" # "ok"
    OBVIOUS
  <2>4. Truthful(q, None, Error("missing"))
    BY Zenon, <2>3, ErrorTruthful
  <2> QED BY Zenon, <2>1, <2>2, <2>4, TakeStep
<1>3. CASE jobs[q.job] # None
  <2>1. Take(q, jobs[q.job], Page(jobs[q.job], q.part))
    BY Zenon, <1>3 DEF ServeGet
  <2>2. jobs[q.job] \in Job
    BY Zenon, <1>1, <1>3, JobTypes
  <2>3. Follows(q, jobs[q.job])
    BY Zenon, <1>3, JobStays
  <2>4. q.op # "part"
    BY <1>1
  <2>5. Truthful(q, jobs[q.job], Page(jobs[q.job], q.part))
    BY Zenon, <2>2, <2>4, PageTruthful
  <2> QED BY Zenon, <2>1, <2>2, <2>3, <2>5, TakeStep
<1> QED BY Zenon, <1>2, <1>3

LEMMA TakeDeclare ==
  ASSUME Inv, NEW q \in net, ServeDeclare(q)
  PROVE  Inv'
<1> DEFINE job == IF jobs[q.job] = None THEN NewJob(q.bytes) ELSE jobs[q.job]
           answer == IF job.declared = q.bytes THEN Page(job, 0) ELSE Error("refused")
<1>1. Types /\ q.op = "declare" /\ q.job \in Starts /\ Sent(q)
  BY Zenon DEF Inv, Sent, ServeDeclare
<1>2. Take(q, job, answer)
  BY Zenon DEF ServeDeclare
<1>3. q.bytes \in Contents
  BY Zenon, <1>1 DEF Sent
<1>4. /\ NewJob(q.bytes) \in Job /\ NewJob(q.bytes).declared = q.bytes /\ NewJob(q.bytes).state = "creating"
      /\ \A i \in Parts : NewJob(q.bytes).parts[i].state = "none"
  <2>1. [i \in Parts |-> [state |-> "none", bytes |-> None]]
          \in [Parts -> [state : {"none", "uploading", "uploaded"}, bytes : 0..MaxChanges \cup {None}]]
    OBVIOUS
  <2> QED BY <1>3, <2>1 DEF NewJob, Job
<1>5. job \in Job /\ job # None
  BY Zenon, <1>1, <1>4, JobTypes, Sets
<1>6. Follows(q, job)
  <2>1. CASE jobs[q.job] # None
    BY Zenon, <2>1, JobStays
  <2>2. CASE jobs[q.job] = None
    <3>1. job = NewJob(q.bytes)
      BY Zenon, <2>2
    <3>2. job.state \notin {"completing", "ready"}
      BY <1>4, <3>1
    <3> QED BY Zenon, <1>1, <1>4, <2>2, <3>1, <3>2 DEF Follows
  <2> QED BY Zenon, <2>1, <2>2
<1>7. Truthful(q, job, answer)
  <2>1. q.op # "part" /\ "refused" # "ok"
    BY <1>1
  <2> QED BY Zenon, <1>5, <2>1, PageTruthful, ErrorTruthful
<1> QED BY Zenon, <1>2, <1>5, <1>6, <1>7, TakeStep

LEMMA TakePart ==
  ASSUME Inv, NEW q \in net, ServePart(q)
  PROVE  Inv'
<1> DEFINE job == jobs[q.job]
           part(s) == [job EXCEPT !.parts[q.part] = [state |-> s, bytes |-> q.bytes]]
<1>1. Types /\ q.op = "part" /\ q.job \in Starts /\ Sent(q) /\ Served(q.job)
  BY Zenon DEF Inv, Sent, ServePart
<1>2. job # None /\ q.part \in Parts /\ q.bytes \in 0..MaxChanges
  BY Zenon, <1>1 DEF Sent
<1>3. /\ job \in Job /\ job.declared \in Contents
      /\ job.state \in {"creating", "uploading", "completing", "ready", "canceled"}
      /\ job.parts \in [Parts -> [state : {"none", "uploading", "uploaded"}, bytes : 0..MaxChanges \cup {None}]]
  BY Zenon, <1>1, <1>2, JobTypes
<1>4. ASSUME NEW s \in {"uploading", "uploaded"}, job.state = "uploading",
             s = "uploading" => job.parts[q.part].state = "none"
      PROVE  part(s) \in Job /\ Follows(q, part(s)) /\ part(s).parts[q.part].state = s
  <2> DEFINE new == [state |-> s, bytes |-> q.bytes]
  <2>1. /\ new \in [state : {"none", "uploading", "uploaded"}, bytes : 0..MaxChanges \cup {None}]
        /\ new.state = s /\ new.bytes = q.bytes
    BY <1>2
  <2> HIDE DEF new
  <2>2. /\ part(s).declared = job.declared /\ part(s).state = job.state
        /\ part(s).parts = [job.parts EXCEPT ![q.part] = new]
    BY <1>3 DEF Job, new
  <2>3. part(s) \in Job
    BY <1>2, <1>3, <2>1 DEF Job, new
  <2> HIDE DEF part
  <2>4. /\ part(s).parts[q.part] = new
        /\ \A i \in Parts : i # q.part => part(s).parts[i] = job.parts[i]
    BY Zenon, <1>2, <1>3, <2>2
  <2>5. part(s) # None
    BY Zenon, <2>3, Sets
  <2>6. ASSUME NEW i \in Parts, job.parts[i].state = "uploaded" PROVE part(s).parts[i].state = "uploaded"
    <3>1. CASE i # q.part
      BY Zenon, <2>4, <2>6, <3>1
    <3>2. CASE i = q.part
      BY <1>4, <2>1, <2>4, <2>6, <3>2
    <3> QED BY Zenon, <3>1, <3>2
  <2>7. part(s).state \notin {"completing", "ready"}
    BY <1>4, <2>2
  <2>8. ASSUME NEW i \in Parts, part(s).parts[i].state # "none"
        PROVE  \/ job.parts[i].state # "none" /\ part(s).parts[i].bytes = job.parts[i].bytes
               \/ q.part = i /\ part(s).parts[i].bytes = q.bytes
    BY Zenon, <2>1, <2>4, <2>8
  <2>9. Follows(q, part(s))
    BY Zenon, <1>1, <1>2, <2>2, <2>5, <2>6, <2>7, <2>8 DEF Follows
  <2> QED BY Zenon, <2>1, <2>3, <2>4, <2>9
<1>5. "refused" # "ok"
  OBVIOUS
<1>6. CASE job.state # "uploading"
  <2>1. Take(q, job, Error("refused"))
    BY Zenon, <1>6 DEF ServePart
  <2>2. Follows(q, job)
    BY Zenon, <1>2, JobStays
  <2> QED BY Zenon, <1>3, <1>5, <2>1, <2>2, ErrorTruthful, TakeStep
<1>7. CASE job.state = "uploading" /\ Take(q, part("uploaded"), [kind |-> "ok", number |-> q.part, bytes |-> q.bytes])
  <2> DEFINE answer == [kind |-> "ok", number |-> q.part, bytes |-> q.bytes]
  <2>1. part("uploaded") \in Job /\ Follows(q, part("uploaded")) /\ part("uploaded").parts[q.part].state = "uploaded"
    <3>1. "uploaded" \in {"uploading", "uploaded"} /\ "uploaded" # "uploading"
      OBVIOUS
    <3> QED BY Zenon, <1>4, <1>7, <3>1
  <2>2. Truthful(q, part("uploaded"), answer)
    <3>1. pc[q.run] \notin {"looked", "declared", "polled", "page"}
      BY <1>1 DEF Sent, Awaited
    <3>2. answer.number = q.part /\ part("uploaded") # None
      BY <2>1, Sets
    <3> HIDE DEF answer, part
    <3> QED BY <1>2, <2>1, <3>1, <3>2 DEF Truthful
  <2> QED BY Zenon, <1>7, <2>1, <2>2, TakeStep
<1>8. CASE job.state = "uploading" /\ job.parts[q.part].state = "none" /\ Take(q, part("uploading"), Error("refused"))
  <2>1. part("uploading") \in Job /\ Follows(q, part("uploading"))
    <3>1. "uploading" \in {"uploading", "uploaded"}
      OBVIOUS
    <3> QED BY Zenon, <1>4, <1>8, <3>1
  <2> QED BY Zenon, <1>5, <1>8, <2>1, ErrorTruthful, TakeStep
<1> QED BY Zenon, <1>6, <1>7, <1>8 DEF ServePart

LEMMA StateChange ==
  ASSUME NEW job \in Job, NEW s \in {"creating", "uploading", "completing", "ready", "canceled"}
  PROVE  LET new == [job EXCEPT !.state = s]
         IN new \in Job /\ new # None /\ new.declared = job.declared /\ new.parts = job.parts /\ new.state = s
<1>1. [job EXCEPT !.state = s] \in Job
  BY DEF Job
<1>2. [job EXCEPT !.state = s] # None
  BY Zenon, <1>1, Sets
<1> QED BY <1>1, <1>2 DEF Job

LEMMA TakeComplete ==
  ASSUME Inv, NEW q \in net, ServeComplete(q)
  PROVE  Inv'
<1> DEFINE job == IF jobs[q.job].state = "uploading" THEN [jobs[q.job] EXCEPT !.state = "completing"]
                  ELSE jobs[q.job]
<1>1. Types /\ q.op = "complete" /\ q.job \in Starts /\ Sent(q)
  BY Zenon DEF Inv, Sent, ServeComplete
<1>2. jobs[q.job] # None
  BY Zenon, <1>1 DEF Sent
<1>3. jobs[q.job] \in Job
  BY Zenon, <1>1, <1>2, JobTypes
<1>4. Take(q, job, Page(job, 0))
  BY Zenon DEF ServeComplete
<1>5. job \in Job /\ job # None /\ job.declared = jobs[q.job].declared /\ job.parts = jobs[q.job].parts
  BY Zenon, <1>2, <1>3, StateChange
<1>6. Follows(q, job)
  BY Zenon, <1>1, <1>2, <1>5, JobStays
<1>7. q.op # "part"
  BY <1>1
<1>8. Truthful(q, job, Page(job, 0))
  BY Zenon, <1>5, <1>7, PageTruthful
<1> QED BY Zenon, <1>4, <1>5, <1>6, <1>8, TakeStep

LEMMA TakeCancel ==
  ASSUME Inv, NEW q \in net, ServeCancel(q)
  PROVE  Inv'
<1> DEFINE job == IF jobs[q.job].state \in {"ready", "canceled"} THEN jobs[q.job]
                  ELSE [jobs[q.job] EXCEPT !.state = "canceled"]
<1>1. Types /\ q.op = "cancel" /\ q.job \in Starts
  BY Zenon DEF Inv, Sent, ServeCancel
<1>2. CASE jobs[q.job] = None
  <2>1. Take(q, None, Error("missing"))
    BY Zenon, <1>2 DEF ServeCancel
  <2>2. Follows(q, None)
    BY Zenon, <1>2 DEF Follows
  <2>3. "missing" # "ok"
    OBVIOUS
  <2>4. Truthful(q, None, Error("missing"))
    BY Zenon, <2>3, ErrorTruthful
  <2> QED BY Zenon, <2>1, <2>2, <2>4, TakeStep
<1>3. CASE jobs[q.job] # None
  <2>1. Take(q, job, Page(job, 0))
    BY Zenon, <1>3 DEF ServeCancel
  <2>2. jobs[q.job] \in Job
    BY Zenon, <1>1, <1>3, JobTypes
  <2>3. /\ job \in Job /\ job # None /\ job.declared = jobs[q.job].declared /\ job.parts = jobs[q.job].parts
        /\ job.state = jobs[q.job].state \/ job.state = "canceled"
    BY Zenon, <1>3, <2>2, StateChange
  <2>4. job.state \in {"completing", "ready"} => jobs[q.job].state \in {"completing", "ready"}
    BY <2>3
  <2>5. Follows(q, job)
    BY Zenon, <1>3, <2>3, <2>4, JobStays
  <2>6. q.op # "part"
    BY <1>1
  <2>7. Truthful(q, job, Page(job, 0))
    BY Zenon, <2>3, <2>6, PageTruthful
  <2> QED BY Zenon, <2>1, <2>3, <2>5, <2>7, TakeStep
<1> QED BY Zenon, <1>2, <1>3

LEMMA ProceedStep ==
  ASSUME Inv, NEW j \in Starts, Proceed(j)
  PROVE  Inv'
<1>1. Types /\ jobs[j] # None /\ jobs[j] \in Job
  BY Zenon, JobTypes DEF Inv, Proceed
<1>2. PICK s \in {"creating", "uploading", "completing", "ready", "canceled"} :
        /\ jobs' = [jobs EXCEPT ![j] = [jobs[j] EXCEPT !.state = s]]
        /\ s \in {"completing", "ready"} => jobs[j].state \in {"completing", "ready"}
  <2>1. CASE jobs[j].state = "creating" /\ jobs' = [jobs EXCEPT ![j].state = "uploading"]
    BY <2>1
  <2>2. CASE jobs[j].state = "completing" /\ jobs' = [jobs EXCEPT ![j].state = "ready"]
    BY <2>2
  <2> QED BY Zenon, <2>1, <2>2 DEF Proceed
<1> DEFINE new == [jobs[j] EXCEPT !.state = s]
<1>3. new \in Job /\ new # None /\ new.declared = jobs[j].declared /\ new.parts = jobs[j].parts /\ new.state = s
  BY Zenon, <1>1, StateChange
<1> HIDE DEF new
<1>4. jobs' = [jobs EXCEPT ![j] = new]
  BY Zenon, <1>2 DEF new
<1>5. jobs'[j] = new /\ \A k \in Starts : k # j => jobs'[k] = jobs[k]
  BY Zenon, <1>1, <1>4 DEF Types
<1>6. UNCHANGED <<source, held, early, journals, net, pc, id, declared, snap, received, after, polls, reply>>
  BY Zenon DEF Proceed, history, local
<1>7. Types'
  <2>1. jobs' \in [Starts -> Job \cup {None}]
    BY Zenon, <1>1, <1>3, <1>4 DEF Types
  <2> QED BY Zenon, <1>1, <1>6, <2>1 DEF Types
<1>8. ASSUME NEW k \in Starts, jobs'[k] # None
      PROVE  /\ jobs[k] # None /\ jobs'[k].declared = jobs[k].declared /\ jobs'[k].parts = jobs[k].parts
             /\ jobs[k].declared \in Contents
             /\ jobs'[k].state \in {"completing", "ready"} => jobs[k].state \in {"completing", "ready"}
  BY Zenon, <1>1, <1>2, <1>3, <1>5, <1>8, JobTypes
<1>9. \A k \in Starts : jobs[k] # None => jobs'[k] # None
  BY Zenon, <1>3, <1>5
<1>10. Grows
  <2>1. \A i \in Parts : source[i] <= source'[i]
    <3> SUFFICES ASSUME NEW i \in Parts PROVE source[i] <= source'[i]
      OBVIOUS
    <3>1. source[i] \in 0..MaxChanges /\ source'[i] = source[i]
      BY Zenon, <1>1, <1>6 DEF Types, Contents
    <3> QED BY ONLY <3>1, Sets
  <2>2. ASSUME NEW k \in Starts, NEW i \in Parts, Uploaded(k, i) PROVE Uploaded(k, i)'
    BY Zenon, <1>8, <1>9, <2>2 DEF Uploaded
  <2>3. \A k \in Starts : \A d \in Contents : Kept(k, d) => Kept(k, d)'
    BY Zenon, <1>6 DEF Kept
  <2> QED BY Zenon, <1>9, <2>1, <2>2, <2>3 DEF Grows
<1>11. \A x \in Runs : Same(x)
  BY Zenon, <1>6 DEF Same, Still
<1>12. ASSUME NEW x \in Uploads PROVE Placed(x)' /\ Told(x)'
  <2>1. Same(x) /\ Still(x) /\ JournalStays(x) /\ Placed(x) /\ Told(x)
    BY Zenon, <1>6, <1>11, Sets DEF Inv, Same, JournalStays, Placed
  <2> QED BY Zenon, <1>1, <1>7, <1>10, <2>1, PlacedKept, ToldKept
<1>13. ASSUME NEW q \in net' PROVE Sent(q)'
  <2>1. Sent(q) /\ q.run \in Runs
    BY Zenon, <1>6 DEF Inv, Sent
  <2> QED BY Zenon, <1>10, <1>11, <2>1, SentKept
<1>14. OneRequest'
  BY Zenon, <1>6 DEF Inv, OneRequest
<1>15. ASSUME NEW k \in Starts PROVE Served(k)' /\ OneDeclaration(k)' /\ Witnessed(k)'
  <2>1. Served(k) /\ OneDeclaration(k) /\ Witnessed(k)
    BY Zenon DEF Inv
  <2>2. \A d \in Contents : Says(k, d)' => Says(k, d)
    BY Zenon, <1>6, <1>8, SaysKept
  <2>3. Served(k)'
    BY Zenon, <1>8, <1>10, <2>1, ServedKept
  <2>4. OneDeclaration(k)'
    BY Zenon, <1>6, <2>1, <2>2, DeclarationKept
  <2>5. PartsStay(k) /\ held \subseteq held' /\ \A i \in Parts : source[i] <= source'[i]
    BY Zenon, <1>6, <1>8, <1>10 DEF PartsStay, Grows
  <2> QED BY Zenon, <1>1, <1>7, <2>1, <2>2, <2>3, <2>4, <2>5, WitnessKept
<1> QED BY Zenon, <1>7, <1>12, <1>13, <1>14, <1>15 DEF Inv

-----------------------------------------------------------------------------
(* An invocation goes on with its job.                                      *)

LEMMA Quiet ==
  ASSUME Inv, NEW r \in Runs,
         \/ reply[r] # None /\ pc[r] # "failed"
         \/ pc[r] \notin {"looked", "polled", "page", "declared", "sent", "completing", "canceling", "failed"}
  PROVE  \A q \in net : q.run # r
<1> SUFFICES ASSUME NEW q \in net, q.run = r PROVE FALSE
  OBVIOUS
<1>1. Sent(q)
  BY Zenon DEF Inv
<1>2. /\ q.op \in {"get", "declare", "part", "complete", "cancel"}
      /\ pc[r] = "failed" \/ Awaited(q)
  BY Zenon, <1>1 DEF Sent
<1>3. pc[r] # "failed"
  OBVIOUS
<1>4. reply[r] = None /\ pc[r] \in {"looked", "polled", "page", "declared", "sent", "completing", "canceling"}
  BY <1>2, <1>3 DEF Awaited
<1> QED BY <1>4

LEMMA Others ==
  ASSUME Types, NEW r \in Uploads, NEW p, pc' = [pc EXCEPT ![r] = p],
         \A x \in Runs : x # r => reply'[x] = reply[x],
         \A x \in Uploads : x # r =>
           /\ id'[x] = id[x] /\ declared'[x] = declared[x] /\ snap'[x] = snap[x]
           /\ received'[x] = received[x] /\ after'[x] = after[x]
  PROVE  pc'[r] = p /\ \A x \in Runs \ {r} : Same(x)
<1>1. r \in Runs
  BY Zenon, Sets
<1>2. pc'[r] = p /\ \A x \in Runs : x # r => pc'[x] = pc[x]
  BY Zenon, <1>1 DEF Types
<1> QED BY Zenon, <1>2 DEF Same, Still

\* r goes from one place of its work on the job to another.
Advances(r) ==
  /\ pc[r] \in Working /\ pc'[r] \in Working /\ \A x \in Runs \ {r} : Same(x)
  /\ UNCHANGED <<source, held, early, journals, jobs, id, declared, snap>>
  /\ pc'[r] \in Matched \cup {"rehash"} => jobs[id[r]] # None
  /\ pc'[r] \in Matched => snap[r] = declared[r]
  /\ pc'[r] \notin Matched => received'[r] = {}
  /\ pc'[r] \in {"page", "parts", "sent"} => \A i \in received'[r] : Uploaded(id[r], i)
  /\ pc'[r] \in {"parts", "sent"} => \A i \in 1..after'[r] : Uploaded(id[r], i)
  /\ pc'[r] = "sent" => after'[r] < N

LEMMA AdvancePlaced ==
  ASSUME Inv, NEW r \in Uploads, Advances(r)
  PROVE  /\ Placed(r)' /\ id[r] \in Starts /\ declared[r] \in Contents /\ Kept(id[r], declared[r])
         /\ pc'[r] \notin Unknown
<1>1. Placed(r)
  BY Zenon DEF Inv
<1>2. /\ pc[r] \in Working /\ pc'[r] \in Working
      /\ UNCHANGED <<source, held, early, journals, jobs, id, declared, snap>>
  BY Zenon DEF Advances
<1>3. id[r] \in Starts /\ declared[r] \in Contents /\ Kept(id[r], declared[r])
  BY Zenon, <1>1, <1>2 DEF Placed
<1>4. \A i \in 1..Len(snap[r]) : snap[r][i] <= source[i]
  BY Zenon, <1>1 DEF Placed
<1>5. pc'[r] \notin {"canceling", "hash", "save", "sync"} /\ pc'[r] \notin Unknown
  BY <1>2 DEF Working, Matched, Unknown
<1>6. (Kept(id[r], declared[r]))'
  BY Zenon, <1>2, <1>3 DEF Kept
<1>7. \A i : Uploaded(id[r], i) => (Uploaded(id[r], i))'
  BY Zenon, <1>2 DEF Uploaded
<1>8. (pc[r] # "canceling" /\ (pc[r] \in {"hash", "save", "sync"} => r \in Starts)
        /\ (pc[r] \in {"save", "sync"} => id[r] = r) /\ pc[r] \notin {"save", "sync"})'
  BY <1>5
<1>9. (/\ pc[r] \in Matched \cup {"rehash"} => jobs[id[r]] # None
       /\ pc[r] \in Matched => snap[r] = declared[r]
       /\ pc[r] \notin Matched => received[r] = {}
       /\ pc[r] \in {"page", "parts", "sent"} => \A i \in received[r] : Uploaded(id[r], i)
       /\ pc[r] \in {"parts", "sent"} => \A i \in 1..after[r] : Uploaded(id[r], i)
       /\ pc[r] = "sent" => after[r] < N
       /\ \A i \in 1..Len(snap[r]) : snap[r][i] <= source[i])'
  BY Zenon, <1>2, <1>4, <1>7 DEF Advances
<1>10. (pc[r] = "sync" =>
          journals[PathOf[r]] # None /\ journals[PathOf[r]].id = r /\ journals[PathOf[r]].declared = declared[r])'
  BY <1>5
<1>11. (pc[r] \notin {"save", "sync"} \cup Working => id[r] = None)'
  BY Zenon, <1>2
<1>12. (id[r] \in Starts /\ declared[r] \in Contents)'
  BY Zenon, <1>2, <1>3
<1> QED BY Zenon, <1>3, <1>5, <1>6, <1>8, <1>9, <1>10, <1>11, <1>12 DEF Placed

\* Nothing is sent.
LEMMA AdvanceLocal ==
  ASSUME Inv, Types', NEW r \in Uploads, Advances(r), net' = net,
         pc'[r] \notin {"looked", "declared", "polled", "page", "sent"}, \A q \in net : q.run # r
  PROVE  Inv'
<1>1. Placed(r)' /\ pc'[r] \notin Unknown
  BY Zenon, AdvancePlaced
<1>2. Told(r)'
  BY Zenon DEF Told
<1>3. /\ UNCHANGED <<source, held, early, journals, jobs, net>>
      /\ id'[r] = id[r] /\ declared'[r] = declared[r] /\ \A x \in Runs \ {r} : Same(x)
  BY Zenon DEF Advances
<1> QED BY Zenon, <1>1, <1>2, <1>3, LocalStep

\* What r sends to wait at `to`, and what it knows when it does.
Asks(r, op, part, bytes, to) ==
  /\ Send(r, Request(id[r], op, part, bytes), to)
  /\ \/ op = "get" /\ to \in {"looked", "polled", "page"}
     \/ op = "declare" /\ to = "declared"
     \/ op = "part" /\ to = "sent"
     \/ op = "complete" /\ to = "completing"
  /\ op = "declare" => bytes = declared[r]
  /\ op \in {"part", "complete"} => jobs[id[r]] # None
  /\ op = "part" => /\ part \in Parts /\ part \in 1..Len(snap[r]) /\ snap[r] = declared[r]
                    /\ bytes = source[part] /\ bytes = snap[r][part]
  /\ op = "complete" => \A i \in Parts : Uploaded(id[r], i)

LEMMA AdvanceAsks ==
  ASSUME Inv, Types', NEW r \in Uploads, Advances(r), \A q \in net : q.run # r,
         NEW op, NEW part, NEW bytes, NEW to, Asks(r, op, part, bytes, to)
  PROVE  Inv'
<1>0. PICK m : m = [Request(id[r], op, part, bytes) EXCEPT !.run = r]
  BY Zenon
<1>1. m.run = r /\ m.job = id[r] /\ m.op = op /\ m.part = part /\ m.bytes = bytes
  BY <1>0 DEF Request
<1>2. net' = net \cup {m} /\ pc' = [pc EXCEPT ![r] = to] /\ reply' = [reply EXCEPT ![r] = None]
  BY Zenon, <1>0 DEF Asks, Send
<1>3. r \in Runs /\ Types
  BY Zenon, Sets DEF Inv
<1>4. pc'[r] = to /\ reply'[r] = None
  BY Zenon, <1>2, <1>3 DEF Types
<1>5. /\ Placed(r)' /\ id[r] \in Starts /\ declared[r] \in Contents /\ Kept(id[r], declared[r])
      /\ pc'[r] \notin Unknown
  BY Zenon, AdvancePlaced
<1>6. /\ UNCHANGED <<source, held, early, journals, jobs, id, declared, snap>>
      /\ \A x \in Runs \ {r} : Same(x)
  BY Zenon DEF Advances
<1>7. op \in {"get", "declare", "part", "complete"}
  BY DEF Asks
<1>8. Sent(m)'
  <2>1. Awaited(m)'
    <3>1. /\ op = "get" => to \in {"looked", "polled", "page"}
          /\ op = "declare" => to = "declared"
          /\ op = "part" => to = "sent"
          /\ op = "complete" => to = "completing"
          /\ op = "cancel" => to = "canceling"
      BY <1>7 DEF Asks
    <3>2. id'[r] = id[r]
      BY Zenon, <1>6
    <3> QED BY Zenon, <1>1, <1>4, <3>1, <3>2 DEF Awaited
  <2>2. op = "declare" => bytes \in Contents /\ Kept(m.job, m.bytes)
    BY Zenon, <1>1, <1>5 DEF Asks
  <2>3. op = "declare" => Kept(m.job, m.bytes)'
    BY Zenon, <1>6, <2>2 DEF Kept
  <2>4. op = "part" => part \in Parts /\ bytes \in 0..MaxChanges
    <3>1. op = "part" => part \in Parts /\ bytes = source[part]
      BY Zenon DEF Asks
    <3> QED BY Zenon, <1>3, <3>1 DEF Types, Contents
  <2>5. op = "complete" => \A i \in Parts : jobs'[m.job] # None /\ jobs'[m.job].parts[i].state = "uploaded"
    BY Zenon, <1>1, <1>6 DEF Asks, Uploaded
  <2>6. op \in {"part", "complete"} => jobs'[m.job] # None
    BY Zenon, <1>1, <1>6 DEF Asks
  <2>7. op \in {"get", "declare", "part", "complete", "cancel"}
    BY <1>7
  <2> QED BY Zenon, <1>1, <1>3, <1>5, <2>1, <2>2, <2>3, <2>4, <2>5, <2>6, <2>7 DEF Sent, Uploaded
<1>9. Says(id[r], declared[r])
  BY Zenon DEF Says
<1>10. m.op = "declare" => Says(m.job, m.bytes)
  BY Zenon, <1>1, <1>9 DEF Asks
<1>11. ASSUME m.op = "part", NEW d \in Contents, NEW h \in held, Says(m.job, d), Fits(m.job, d, h)
       PROVE  m.bytes = d[m.part] /\ h[m.part] = d[m.part]
  <2>1. OneDeclaration(id[r])
    BY Zenon, <1>5 DEF Inv
  <2>2. d = declared[r]
    BY Zenon, <1>1, <1>5, <1>9, <1>11, <2>1 DEF OneDeclaration
  <2>3. part \in Parts /\ bytes = source[part] /\ bytes = d[part]
    BY Zenon, <1>1, <1>11, <2>2 DEF Asks
  <2>4. d[part] <= h[part] /\ h[part] <= source[part]
    BY Zenon, <1>1, <1>11, <2>3 DEF Fits
  <2>5. h[part] \in 0..MaxChanges /\ d[part] \in 0..MaxChanges /\ source[part] \in 0..MaxChanges
    BY <1>3, <2>3 DEF Types, Contents
  <2>6. h[part] = d[part]
    <3> DEFINE a == h[part] b == d[part] c == source[part]
    <3>1. a \in 0..MaxChanges /\ b \in 0..MaxChanges /\ b <= a /\ a <= c /\ c = b
      BY Zenon, <2>3, <2>4, <2>5
    <3> HIDE DEF a, b, c
    <3>2. a = b
      BY ONLY <3>1, Sets
    <3> QED BY Zenon, <3>2 DEF a, b
  <2> QED BY Zenon, <1>1, <2>3, <2>6
<1> QED
  <2>1. id'[r] = id[r] /\ declared'[r] = declared[r] /\ UNCHANGED <<source, held, early, journals, jobs>>
    BY Zenon, <1>6
  <2> QED BY Zenon, <1>1, <1>2, <1>3, <1>4, <1>5, <1>6, <1>8, <1>10, <1>11, <2>1, SendStep

-----------------------------------------------------------------------------
\* r moves to p and its answer is kept or dropped.
LEMMA Moved ==
  ASSUME Inv, NEW r \in Uploads, NEW p \in Places, pc' = [pc EXCEPT ![r] = p],
         reply' = reply \/ reply' = [reply EXCEPT ![r] = None],
         UNCHANGED <<source, held, early, journals, jobs, id, declared, snap>>,
         received' \in [Uploads -> SUBSET Parts], \A x \in Uploads : x # r => received'[x] = received[x],
         after' \in [Uploads -> 0..N], \A x \in Uploads : x # r => after'[x] = after[x],
         polls' \in [Uploads -> 0..MaxPolls]
  PROVE  Types' /\ pc'[r] = p /\ \A x \in Runs \ {r} : Same(x)
<1>1. Types /\ r \in Runs
  BY Zenon, Sets DEF Inv
<1>2. pc' \in [Runs -> Places] /\ DOMAIN reply' = Runs /\ \A x \in Runs : x # r => reply'[x] = reply[x]
  BY Zenon, <1>1 DEF Types
<1>3. Types'
  BY Zenon, <1>1, <1>2 DEF Types
<1> QED BY Zenon, <1>1, <1>2, <1>3, Others

\* The same when it only sends.
LEMMA Waits ==
  ASSUME Inv, NEW r \in Uploads, NEW q, NEW to \in Places, Send(r, q, to),
         UNCHANGED <<source, history, journals, jobs, id, declared, snap, received, after>>,
         polls' \in [Uploads -> 0..MaxPolls]
  PROVE  Types' /\ pc'[r] = to /\ \A x \in Runs \ {r} : Same(x)
<1>1. Types
  BY Zenon DEF Inv
<1>2. /\ pc' = [pc EXCEPT ![r] = to] /\ reply' = [reply EXCEPT ![r] = None]
      /\ UNCHANGED <<source, held, early, journals, jobs, id, declared, snap>>
  BY Zenon DEF Send, history
<1>3. /\ received' \in [Uploads -> SUBSET Parts] /\ \A x \in Uploads : x # r => received'[x] = received[x]
      /\ after' \in [Uploads -> 0..N] /\ \A x \in Uploads : x # r => after'[x] = after[x]
  BY Zenon, <1>1 DEF Types
<1> QED BY Zenon, <1>2, <1>3, Moved

LEMMA PollsStay ==
  ASSUME Inv, polls' = polls
  PROVE  polls' \in [Uploads -> 0..MaxPolls]
BY Zenon DEF Inv, Types

\* Whom a request of each kind concerns.
LEMMA AsksGet ==
  ASSUME NEW r, NEW cursor, NEW to \in {"looked", "polled", "page"}, Send(r, Request(id[r], "get", cursor, None), to)
  PROVE  Asks(r, "get", cursor, None, to)
<1>1. "get" \notin {"declare", "part", "complete"} /\ "get" # "declare" /\ "get" # "part" /\ "get" # "complete"
  OBVIOUS
<1>2. "get" \notin {"part", "complete"}
  OBVIOUS
<1> QED BY Zenon, <1>1, <1>2 DEF Asks

LEMMA LookStep ==
  ASSUME Inv, NEW r \in Uploads, Look(r)
  PROVE  Inv'
<1>1. /\ pc[r] = "upload" /\ Send(r, Request(id[r], "get", 0, None), "looked")
      /\ UNCHANGED <<source, history, journals, jobs, id, declared, snap, received, after, polls>>
  BY Zenon DEF Look, Get, local
<1>2. "looked" \in Places
  BY DEF Places
<1>3. Types' /\ pc'[r] = "looked" /\ \A x \in Runs \ {r} : Same(x)
  BY Zenon, <1>1, <1>2, PollsStay, Waits
<1>4. Advances(r)
  <2>1. /\ pc[r] \in Working /\ pc'[r] \in Working /\ pc'[r] \notin Matched \cup {"rehash"}
        /\ pc'[r] \notin {"page", "parts", "sent"} /\ pc[r] \notin Matched
    BY <1>1, <1>3 DEF Working, Matched
  <2>2. received'[r] = {}
    BY Zenon, <1>1, <2>1 DEF Inv, Placed
  <2> QED BY Zenon, <1>1, <1>3, <2>1, <2>2 DEF Advances, history
<1>5. Asks(r, "get", 0, None, "looked")
  <2>1. "looked" \in {"looked", "polled", "page"}
    OBVIOUS
  <2> QED BY Zenon, <1>1, <2>1, AsksGet
<1>6. \A q \in net : q.run # r
  <2>1. r \in Runs
    BY Zenon, Sets
  <2> QED BY <1>1, <2>1, Quiet
<1> QED BY Zenon, <1>3, <1>4, <1>5, <1>6, AdvanceAsks

\* An answer at one of these places has come, so nothing of r is under way.
LEMMA Heard ==
  ASSUME Inv, NEW r \in Uploads, reply[r] # None,
         pc[r] \in {"looked", "declared", "polled", "page", "sent", "completing"}
  PROVE  pc[r] \in Working /\ \A q \in net : q.run # r
<1>1. r \in Runs
  BY Zenon, Sets
<1>2. pc[r] # "failed" /\ pc[r] \in Working
  BY DEF Working, Matched
<1> QED BY Zenon, <1>1, <1>2, Quiet

\* Without a request, a move to a place that waits for none.
LEMMA Goes ==
  ASSUME Inv, NEW r \in Uploads, NEW p \in Working \ {"looked", "declared", "polled", "page", "sent"},
         pc' = [pc EXCEPT ![r] = p], pc[r] \in Working, \A q \in net : q.run # r,
         UNCHANGED <<source, history, journals, jobs, net, local, reply>>,
         p \in Matched <=> pc[r] \in Matched,
         p \in Matched \cup {"rehash"} => jobs[id[r]] # None,
         p = "parts" => pc[r] = "parts"
  PROVE  Inv'
<1>1. Types /\ Placed(r)
  BY Zenon DEF Inv
<1>2. p \in Places
  BY DEF Working, Matched, Places
<1>3. /\ received' \in [Uploads -> SUBSET Parts] /\ \A x \in Uploads : x # r => received'[x] = received[x]
      /\ after' \in [Uploads -> 0..N] /\ \A x \in Uploads : x # r => after'[x] = after[x]
      /\ polls' \in [Uploads -> 0..MaxPolls]
  BY Zenon, <1>1 DEF Types, local
<1>4. /\ UNCHANGED <<source, held, early, journals, jobs, id, declared, snap, received, after>>
      /\ reply' = reply /\ net' = net
  BY Zenon DEF history, local
<1>5. Types' /\ pc'[r] = p /\ \A x \in Runs \ {r} : Same(x)
  BY Zenon, <1>2, <1>3, <1>4, Moved
<1>6. p \notin {"page", "sent"} /\ (p = "parts" => pc[r] \in {"page", "parts", "sent"} /\ pc[r] \in {"parts", "sent"})
  OBVIOUS
<1>7. p \in {"page", "parts", "sent"} => p = "parts"
  BY <1>6
<1>8. Advances(r)
  <2>1. p \in Matched => snap[r] = declared[r]
    BY Zenon, <1>1 DEF Placed
  <2>2. p = "parts" => (\A i \in received'[r] : Uploaded(id[r], i)) /\ \A i \in 1..after'[r] : Uploaded(id[r], i)
    BY Zenon, <1>1, <1>4, <1>6 DEF Placed
  <2>3. (p \in {"parts", "sent"} => p = "parts") /\ p # "sent"
    BY <1>6
  <2>4. p \in Working /\ (p \notin Matched => received'[r] = {})
    BY Zenon, <1>1, <1>4 DEF Placed
  <2> QED BY Zenon, <1>4, <1>5, <1>7, <2>1, <2>2, <2>3, <2>4 DEF Advances
<1>9. pc'[r] \notin {"looked", "declared", "polled", "page", "sent"}
  BY <1>5
<1> QED BY Zenon, <1>4, <1>5, <1>8, <1>9, AdvanceLocal

LEMMA MissingStep ==
  ASSUME Inv, NEW r \in Uploads, Missing(r)
  PROVE  Inv'
<1>1. /\ pc[r] = "looked" /\ reply[r] # None /\ pc' = [pc EXCEPT ![r] = "hash_missing"]
      /\ UNCHANGED <<source, history, journals, jobs, net, local, reply>>
  BY Zenon DEF Missing, Answered, Go
<1>2. pc[r] \in Working /\ \A q \in net : q.run # r
  BY <1>1, Heard
<1>3. /\ "hash_missing" \in Working \ {"looked", "declared", "polled", "page", "sent"} /\ pc[r] \notin Matched
      /\ "hash_missing" \notin Matched \cup {"rehash"} /\ "hash_missing" # "parts"
  BY <1>1 DEF Working, Matched
<1> QED BY Zenon, <1>1, <1>2, <1>3, Goes

LEMMA OpenStep ==
  ASSUME Inv, NEW r \in Uploads, Open(r)
  PROVE  Inv'
<1>1. /\ pc[r] \in {"looked", "declared", "polled"} /\ reply[r] # None /\ Verified(r)
      /\ pc' = [pc EXCEPT ![r] = "rehash"] /\ UNCHANGED <<source, history, journals, jobs, net, local, reply>>
  BY Zenon DEF Open
<1>2. pc[r] \in Working /\ \A q \in net : q.run # r
  BY <1>1, Heard
<1>3. /\ "rehash" \in Working \ {"looked", "declared", "polled", "page", "sent"}
      /\ "rehash" \notin Matched /\ "rehash" # "parts" /\ pc[r] \notin Matched
  BY <1>1 DEF Working, Matched
<1>4. Told(r)
  BY Zenon DEF Inv
<1>5. jobs[id[r]] # None
  BY Zenon, <1>1, <1>4 DEF Told, Verified, Ok
<1> QED BY Zenon, <1>1, <1>2, <1>3, <1>5, Goes

\* A request from a place where the file was found as declared.
LEMMA DeclareStep ==
  ASSUME Inv, NEW r \in Uploads, Declare(r)
  PROVE  Inv'
<1>1. /\ pc[r] = "hash_missing" /\ Send(r, Request(id[r], "declare", None, declared[r]), "declared")
      /\ UNCHANGED <<source, history, journals, jobs, id, declared, snap, received, after, polls>>
  BY Zenon DEF Declare, local
<1>2. "declared" \in Places
  BY DEF Places
<1>3. Types' /\ pc'[r] = "declared" /\ \A x \in Runs \ {r} : Same(x)
  BY Zenon, <1>1, <1>2, PollsStay, Waits
<1>4. Advances(r)
  <2>1. /\ pc[r] \in Working /\ pc'[r] \in Working /\ pc'[r] \notin Matched \cup {"rehash"}
        /\ pc'[r] \notin {"page", "parts", "sent"} /\ pc[r] \notin Matched
    BY <1>1, <1>3 DEF Working, Matched
  <2>2. received'[r] = {}
    BY Zenon, <1>1, <2>1 DEF Inv, Placed
  <2> QED BY Zenon, <1>1, <1>3, <2>1, <2>2 DEF Advances, history
<1>5. Asks(r, "declare", None, declared[r], "declared")
  <2>1. "declare" # "get" /\ "declare" # "part" /\ "declare" # "complete" /\ "declare" \notin {"part", "complete"}
    OBVIOUS
  <2> QED BY Zenon, <1>1, <2>1 DEF Asks
<1>6. \A q \in net : q.run # r
  <2>1. r \in Runs
    BY Zenon, Sets
  <2> QED BY <1>1, <2>1, Quiet
<1>7. PICK d : d = declared[r]
  BY Zenon
<1> QED BY Zenon, <1>3, <1>4, <1>5, <1>6, <1>7, AdvanceAsks

LEMMA PollStep ==
  ASSUME Inv, NEW r \in Uploads, Poll(r)
  PROVE  Inv'
<1>1. /\ pc[r] \in {"looked", "declared", "polled"} /\ reply[r] # None /\ polls[r] < MaxPolls
      /\ polls' = [polls EXCEPT ![r] = @ + 1] /\ Send(r, Request(id[r], "get", 0, None), "polled")
      /\ UNCHANGED <<source, history, journals, jobs, id, declared, snap, received, after>>
  BY Zenon DEF Poll, Get, MorePolls
<1>2. "polled" \in Places
  BY DEF Places
<1>3. polls' \in [Uploads -> 0..MaxPolls]
  <2>1. polls \in [Uploads -> 0..MaxPolls] /\ MaxPolls \in Nat
    BY Zenon, Sets DEF Inv, Types
  <2>2. polls[r] + 1 \in 0..MaxPolls
    BY <1>1, <2>1
  <2> QED BY <1>1, <2>1, <2>2
<1>4. Types' /\ pc'[r] = "polled" /\ \A x \in Runs \ {r} : Same(x)
  BY Zenon, <1>1, <1>2, <1>3, Waits
<1>5. Advances(r)
  <2>1. /\ pc[r] \in Working /\ pc'[r] \in Working /\ pc'[r] \notin Matched \cup {"rehash"}
        /\ pc'[r] \notin {"page", "parts", "sent"} /\ pc[r] \notin Matched
    BY <1>1, <1>4 DEF Working, Matched
  <2>2. received'[r] = {}
    BY Zenon, <1>1, <2>1 DEF Inv, Placed
  <2> QED BY Zenon, <1>1, <1>4, <2>1, <2>2 DEF Advances, history
<1>6. Asks(r, "get", 0, None, "polled")
  <2>1. "polled" \in {"looked", "polled", "page"}
    OBVIOUS
  <2> QED BY Zenon, <1>1, <2>1, AsksGet
<1>7. \A q \in net : q.run # r
  BY <1>1, Heard
<1> QED BY Zenon, <1>4, <1>5, <1>6, <1>7, AdvanceAsks

LEMMA AskReceiptsStep ==
  ASSUME Inv, NEW r \in Uploads, AskReceipts(r)
  PROVE  Inv'
<1>1. /\ pc[r] = "rehash" /\ snap[r] = declared[r] /\ Send(r, Request(id[r], "get", 0, None), "page")
      /\ UNCHANGED <<source, history, journals, jobs, id, declared, snap, received, after, polls>>
  BY Zenon DEF AskReceipts, Get, MatchSource, local
<1>2. "page" \in Places
  BY DEF Places
<1>3. Types' /\ pc'[r] = "page" /\ \A x \in Runs \ {r} : Same(x)
  BY Zenon, <1>1, <1>2, PollsStay, Waits
<1>4. Advances(r)
  <2>1. /\ pc[r] \in Working /\ pc'[r] \in Working /\ pc'[r] \in Matched /\ pc[r] \notin Matched
        /\ pc[r] \in Matched \cup {"rehash"} /\ pc'[r] \notin {"parts", "sent"} /\ pc'[r] # "sent"
    BY <1>1, <1>3 DEF Working, Matched
  <2>2. jobs[id[r]] # None /\ received'[r] = {}
    BY Zenon, <1>1, <2>1 DEF Inv, Placed
  <2> QED BY Zenon, <1>1, <1>3, <2>1, <2>2 DEF Advances, history
<1>5. Asks(r, "get", 0, None, "page")
  <2>1. "page" \in {"looked", "polled", "page"}
    OBVIOUS
  <2> QED BY Zenon, <1>1, <2>1, AsksGet
<1>6. \A q \in net : q.run # r
  <2>1. r \in Runs
    BY Zenon, Sets
  <2> QED BY <1>1, <2>1, Quiet
<1> QED BY Zenon, <1>3, <1>4, <1>5, <1>6, AdvanceAsks

\* Only receipts of uploaded parts are counted as received.
LEMMA ConfirmedUploaded ==
  ASSUME Inv, NEW r \in Uploads, pc[r] = "page", reply[r] # None, reply[r].kind = "ok"
  PROVE  \A i \in received[r] \cup Confirmed(reply[r].page) : i \in Parts /\ Uploaded(id[r], i)
<1>1. Types /\ Placed(r) /\ Told(r)
  BY Zenon DEF Inv
<1>2. ASSUME NEW i \in Confirmed(reply[r].page) PROVE i \in Parts /\ Uploaded(id[r], i)
  <2>1. PICK p \in reply[r].page : p.state = "uploaded" /\ i = p.number
    BY Zenon, <1>2 DEF Confirmed
  <2> QED BY Zenon, <1>1, <2>1 DEF Told
<1>3. ASSUME NEW i \in received[r] PROVE i \in Parts /\ Uploaded(id[r], i)
  <2>1. pc[r] \in {"page", "parts", "sent"} /\ received[r] \in SUBSET Parts
    BY <1>1 DEF Types
  <2> QED BY Zenon, <1>1, <1>3, <2>1 DEF Placed
<1> QED BY Zenon, <1>2, <1>3

LEMMA ReadPageStep ==
  ASSUME Inv, NEW r \in Uploads, ReadPage(r)
  PROVE  Inv'
<1>1. /\ pc[r] = "page" /\ reply[r] # None /\ reply[r].kind = "ok"
      /\ received' = [received EXCEPT ![r] = @ \cup Confirmed(reply[r].page)]
      /\ UNCHANGED <<source, held, early, journals, jobs, id, declared, snap, polls>>
  BY Zenon DEF ReadPage, Answered, Verified, Ok, history
<1>2. Types /\ Placed(r) /\ Told(r)
  BY Zenon DEF Inv
<1>3. pc[r] \in Working /\ pc[r] \in Matched /\ \A q \in net : q.run # r
  BY <1>1, Heard DEF Matched
<1>4. \A i \in received[r] \cup Confirmed(reply[r].page) : i \in Parts /\ Uploaded(id[r], i)
  BY Zenon, <1>1, ConfirmedUploaded
<1>5. /\ received' \in [Uploads -> SUBSET Parts] /\ \A x \in Uploads : x # r => received'[x] = received[x]
      /\ \A i \in received'[r] : Uploaded(id[r], i)
  <2>1. received'[r] = received[r] \cup Confirmed(reply[r].page)
    BY Zenon, <1>1, <1>2 DEF Types
  <2>2. received'[r] \in SUBSET Parts
    BY Zenon, <1>4, <2>1
  <2> QED BY Zenon, <1>1, <1>2, <1>4, <2>1, <2>2 DEF Types
<1>6. jobs[id[r]] # None /\ snap[r] = declared[r]
  BY Zenon, <1>2, <1>3 DEF Placed
<1>7. CASE reply[r].next = None
  <2>1. /\ pc' = [pc EXCEPT ![r] = "parts"] /\ after' = [after EXCEPT ![r] = 0] /\ net' = net /\ reply' = reply
    BY Zenon, <1>7 DEF ReadPage
  <2>2. /\ after' \in [Uploads -> 0..N] /\ after'[r] = 0 /\ polls' \in [Uploads -> 0..MaxPolls]
        /\ \A x \in Uploads : x # r => after'[x] = after[x]
    <3>1. 0 \in 0..N
      BY Sets
    <3> QED BY Zenon, <1>1, <1>2, <2>1, <3>1 DEF Types
  <2>3. "parts" \in Places
    BY DEF Places
  <2>4. Types' /\ pc'[r] = "parts" /\ \A x \in Runs \ {r} : Same(x)
    BY Zenon, <1>1, <1>5, <2>1, <2>2, <2>3, Moved
  <2>5. Advances(r)
    <3>1. pc'[r] \in Working /\ pc'[r] \in Matched /\ pc'[r] # "sent" /\ pc'[r] \notin {"looked", "declared", "polled", "page", "sent"}
      BY <2>4 DEF Working, Matched
    <3>2. \A i \in 1..after'[r] : Uploaded(id[r], i)
      BY <2>2
    <3> QED BY Zenon, <1>1, <1>3, <1>5, <1>6, <2>4, <3>1, <3>2 DEF Advances
  <2>6. pc'[r] \notin {"looked", "declared", "polled", "page", "sent"}
    BY <2>4
  <2> QED BY Zenon, <1>3, <2>1, <2>4, <2>5, <2>6, AdvanceLocal
<1>8. CASE reply[r].next # None
  <2>1. PICK cursor : cursor = reply[r].next
    BY Zenon
  <2>2. /\ after' = [after EXCEPT ![r] = cursor] /\ Send(r, Request(id[r], "get", cursor, None), "page")
        /\ \E p \in reply[r].page : p.number = cursor
    BY Zenon, <1>8, <2>1 DEF ReadPage, Get, Cursor
  <2>3. cursor \in Parts
    BY Zenon, <1>1, <1>2, <2>2 DEF Told
  <2>4. /\ after' \in [Uploads -> 0..N] /\ polls' \in [Uploads -> 0..MaxPolls]
        /\ \A x \in Uploads : x # r => after'[x] = after[x]
    <3>1. cursor \in 0..N
      BY <2>3, Sets DEF Parts
    <3> QED BY Zenon, <1>1, <1>2, <2>2, <3>1 DEF Types
  <2>5. "page" \in Places /\ "page" \in {"looked", "polled", "page"}
    BY DEF Places
  <2>6. Types' /\ pc'[r] = "page" /\ \A x \in Runs \ {r} : Same(x)
    BY Zenon, <1>1, <1>5, <2>2, <2>4, <2>5, Moved DEF Send
  <2>7. Advances(r)
    <3>1. pc'[r] \in Working /\ pc'[r] \in Matched /\ pc'[r] # "sent" /\ pc'[r] \notin {"parts", "sent"}
      BY <2>6 DEF Working, Matched
    <3> QED BY Zenon, <1>1, <1>3, <1>5, <1>6, <2>6, <3>1 DEF Advances
  <2>8. Asks(r, "get", cursor, None, "page")
    BY Zenon, <2>2, <2>5, AsksGet
  <2> QED BY Zenon, <1>3, <2>6, <2>7, <2>8, AdvanceAsks
<1> QED BY Zenon, <1>7, <1>8

\* The part after the last one is there as well.
LEMMA OneMore ==
  ASSUME Inv, NEW r \in Uploads, pc[r] \in {"parts", "sent"}, Uploaded(id[r], after[r] + 1), after[r] + 1 \in Parts,
         pc' = [pc EXCEPT ![r] = "parts"], after' = [after EXCEPT ![r] = @ + 1], \A q \in net : q.run # r,
         UNCHANGED <<source, held, early, journals, jobs, net, id, declared, snap, received, polls, reply>>
  PROVE  Inv'
<1>1. Types /\ Placed(r)
  BY Zenon DEF Inv
<1>2. after[r] \in 0..N /\ N \in Nat
  BY Zenon, <1>1, Sets DEF Types
<1>3. /\ after' \in [Uploads -> 0..N] /\ after'[r] = after[r] + 1
      /\ \A x \in Uploads : x # r => after'[x] = after[x]
  <2>1. after[r] + 1 \in 0..N
    BY <1>2 DEF Parts
  <2> QED BY Zenon, <1>1, <2>1 DEF Types
<1>4. /\ received' \in [Uploads -> SUBSET Parts] /\ polls' \in [Uploads -> 0..MaxPolls]
      /\ \A x \in Uploads : x # r => received'[x] = received[x]
  BY Zenon, <1>1 DEF Types
<1>5. "parts" \in Places
  BY DEF Places
<1>6. Types' /\ pc'[r] = "parts" /\ \A x \in Runs \ {r} : Same(x)
  BY Zenon, <1>3, <1>4, <1>5, Moved
<1>7. Advances(r)
  <2>1. /\ pc[r] \in Working /\ pc[r] \in Matched /\ pc'[r] \in Working /\ pc'[r] \in Matched
        /\ pc'[r] # "sent" /\ pc[r] \in {"page", "parts", "sent"}
    BY <1>6 DEF Working, Matched
  <2>2. jobs[id[r]] # None /\ snap[r] = declared[r] /\ \A i \in received'[r] : Uploaded(id[r], i)
    BY Zenon, <1>1, <2>1 DEF Placed
  <2>3. ASSUME NEW i \in 1..after'[r] PROVE Uploaded(id[r], i)
    <3>1. i \in 1..after[r] \/ i = after[r] + 1
      BY <1>2, <1>3, <2>3
    <3> QED BY Zenon, <1>1, <3>1 DEF Placed
  <2> QED BY Zenon, <1>6, <2>1, <2>2, <2>3 DEF Advances
<1>8. pc'[r] \notin {"looked", "declared", "polled", "page", "sent"}
  BY <1>6
<1> QED BY Zenon, <1>6, <1>7, <1>8, AdvanceLocal

LEMMA SkipStep ==
  ASSUME Inv, NEW r \in Uploads, Skip(r)
  PROVE  Inv'
<1>1. /\ pc[r] = "parts" /\ after[r] + 1 \in received[r] /\ after' = [after EXCEPT ![r] = @ + 1] /\ pc' = pc
      /\ UNCHANGED <<source, held, early, journals, jobs, net, id, declared, snap, received, polls, reply>>
  BY Zenon DEF Skip, history
<1>2. Types /\ Placed(r) /\ r \in Runs
  BY Zenon, Sets DEF Inv
<1>3. pc[r] \in {"parts", "sent"} /\ pc[r] \in {"page", "parts", "sent"} /\ \A q \in net : q.run # r
  BY <1>1, <1>2, Quiet
<1>4. Uploaded(id[r], after[r] + 1) /\ after[r] + 1 \in Parts
  BY Zenon, <1>1, <1>2, <1>3 DEF Placed, Types
<1>5. pc' = [pc EXCEPT ![r] = "parts"]
  BY <1>1, <1>2 DEF Types
<1> QED BY Zenon, <1>1, <1>3, <1>4, <1>5, OneMore

LEMMA PartConfirmedStep ==
  ASSUME Inv, NEW r \in Uploads, PartConfirmed(r)
  PROVE  Inv'
<1>1. /\ pc[r] = "sent" /\ reply[r] # None /\ reply[r].kind = "ok" /\ reply[r].number = after[r] + 1
      /\ pc' = [pc EXCEPT ![r] = "parts"] /\ after' = [after EXCEPT ![r] = @ + 1]
      /\ UNCHANGED <<source, held, early, journals, jobs, net, id, declared, snap, received, polls, reply>>
  BY Zenon DEF PartConfirmed, Answered, Ok, Go, history
<1>2. Told(r)
  BY Zenon DEF Inv
<1>3. Uploaded(id[r], after[r] + 1) /\ after[r] + 1 \in Parts
  BY Zenon, <1>1, <1>2 DEF Told
<1>4. pc[r] \in {"parts", "sent"} /\ \A q \in net : q.run # r
  BY <1>1, Heard
<1> QED BY Zenon, <1>1, <1>3, <1>4, OneMore

LEMMA SendPartStep ==
  ASSUME Inv, NEW r \in Uploads, SendPart(r)
  PROVE  Inv'
<1>1. PICK i : i = after[r] + 1
  BY Zenon
<1>2. /\ pc[r] = "parts" /\ after[r] < N /\ source[i] = snap[r][i]
      /\ Send(r, Request(id[r], "part", i, source[i]), "sent")
      /\ UNCHANGED <<source, history, journals, jobs, id, declared, snap, received, after, polls>>
  BY Zenon, <1>1 DEF SendPart, ReadPart, local
<1>3. Types /\ Placed(r) /\ r \in Runs
  BY Zenon, Sets DEF Inv
<1>4. "sent" \in Places
  BY DEF Places
<1>5. Types' /\ pc'[r] = "sent" /\ \A x \in Runs \ {r} : Same(x)
  BY Zenon, <1>2, <1>4, PollsStay, Waits
<1>6. /\ pc[r] \in Working /\ pc'[r] \in Working /\ pc[r] \in Matched /\ pc'[r] \in Matched
      /\ pc[r] \in {"page", "parts", "sent"} /\ pc[r] \in {"parts", "sent"}
  BY <1>2, <1>5 DEF Working, Matched
<1>7. /\ jobs[id[r]] # None /\ snap[r] = declared[r] /\ declared[r] \in Contents
      /\ \A k \in received[r] : Uploaded(id[r], k)
      /\ \A k \in 1..after[r] : Uploaded(id[r], k)
  BY Zenon, <1>3, <1>6 DEF Placed
<1>8. Advances(r)
  BY Zenon, <1>2, <1>5, <1>6, <1>7 DEF Advances, history
<1>9. i \in Parts /\ i \in 1..Len(snap[r])
  <2>1. after[r] \in 0..N /\ N \in Nat
    BY Zenon, <1>3, Sets DEF Types
  <2>2. i \in Parts
    BY <1>1, <1>2, <2>1 DEF Parts
  <2>3. snap[r] \in Seq(0..MaxChanges) /\ DOMAIN snap[r] = Parts
    BY Zenon, <1>3, <1>7 DEF Types, Contents
  <2>4. Parts = 1..Len(snap[r])
    BY <2>3
  <2> QED BY Zenon, <2>2, <2>4
<1>10. PICK b : b = source[i]
  BY Zenon
<1>11. Asks(r, "part", i, b, "sent")
  <2>1. "part" # "get" /\ "part" # "declare" /\ "part" # "complete"
    OBVIOUS
  <2> QED BY Zenon, <1>2, <1>7, <1>9, <1>10, <2>1 DEF Asks
<1>12. \A q \in net : q.run # r
  BY <1>2, <1>3, Quiet
<1> QED BY Zenon, <1>5, <1>8, <1>11, <1>12, AdvanceAsks

LEMMA CompleteStep ==
  ASSUME Inv, NEW r \in Uploads, Complete(r)
  PROVE  Inv'
<1>1. /\ pc[r] = "parts" /\ after[r] = N /\ Send(r, Request(id[r], "complete", None, None), "completing")
      /\ UNCHANGED <<source, history, journals, jobs, id, declared, snap, received, after, polls>>
  BY Zenon DEF Complete, local
<1>2. Types /\ Placed(r) /\ r \in Runs
  BY Zenon, Sets DEF Inv
<1>3. "completing" \in Places
  BY DEF Places
<1>4. Types' /\ pc'[r] = "completing" /\ \A x \in Runs \ {r} : Same(x)
  BY Zenon, <1>1, <1>3, PollsStay, Waits
<1>5. /\ pc[r] \in Working /\ pc'[r] \in Working /\ pc[r] \in Matched /\ pc'[r] \in Matched
      /\ pc[r] \in {"parts", "sent"} /\ pc'[r] \notin {"page", "parts", "sent"}
      /\ pc'[r] \notin {"parts", "sent"} /\ pc'[r] # "sent"
  BY <1>1, <1>4 DEF Working, Matched
<1>6. jobs[id[r]] # None /\ snap[r] = declared[r] /\ \A k \in Parts : Uploaded(id[r], k)
  BY Zenon, <1>1, <1>2, <1>5 DEF Placed, Parts
<1>7. Advances(r)
  BY Zenon, <1>1, <1>4, <1>5, <1>6 DEF Advances, history
<1>8. Asks(r, "complete", None, None, "completing")
  <2>1. "complete" # "get" /\ "complete" # "declare" /\ "complete" # "part"
    OBVIOUS
  <2> QED BY Zenon, <1>1, <1>6, <2>1 DEF Asks
<1>9. \A q \in net : q.run # r
  BY <1>1, <1>2, Quiet
<1> QED BY Zenon, <1>4, <1>7, <1>8, <1>9, AdvanceAsks

-----------------------------------------------------------------------------
(* The file, its hash and the journal.                                      *)

LEMMA SourceStep ==
  ASSUME Inv, SourceChanges
  PROVE  Inv'
<1>1. Types
  BY Zenon DEF Inv
<1>2. PICK w \in 1..MaxChanges, i \in Parts :
        (\A k \in Parts : source[k] < w) /\ source' = [source EXCEPT ![i] = w]
  BY Zenon DEF SourceChanges
<1>3. /\ held' = held \cup {source'}
      /\ UNCHANGED <<early, journals, jobs, net, pc, id, declared, snap, received, after, polls, reply>>
  BY Zenon DEF SourceChanges, local
<1>4. source' \in Contents /\ \A k \in Parts : source[k] <= source'[k]
  <2>1. w \in 0..MaxChanges /\ source \in [Parts -> 0..MaxChanges]
    BY <1>1, <1>2, Sets DEF Types, Contents
  <2>2. source' \in [Parts -> 0..MaxChanges]
    BY Zenon, <1>2, <2>1
  <2>3. ASSUME NEW k \in Parts PROVE source[k] <= source'[k]
    <3> DEFINE a == source[k] b == source'[k]
    <3>1. a \in 0..MaxChanges /\ a < w /\ (b = w \/ b = a)
      BY Zenon, <1>2, <2>1
    <3> HIDE DEF a, b
    <3>2. a <= b
      BY ONLY <3>1, <2>1, Sets
    <3> QED BY Zenon, <3>2 DEF a, b
  <2> QED BY Zenon, <2>2, <2>3 DEF Contents
<1>5. Types'
  BY Zenon, <1>1, <1>3, <1>4 DEF Types
<1>6. Grows
  <2>1. \A j \in Starts : \A d \in Contents : Kept(j, d) => Kept(j, d)'
    BY Zenon, <1>3 DEF Kept
  <2> QED BY Zenon, <1>3, <1>4, <2>1 DEF Grows, Uploaded
<1>7. \A x \in Runs : Same(x)
  BY Zenon, <1>3 DEF Same, Still
<1>8. ASSUME NEW x \in Uploads PROVE Placed(x)' /\ Told(x)'
  <2>1. Same(x) /\ Still(x) /\ JournalStays(x) /\ Placed(x) /\ Told(x)
    BY Zenon, <1>3, <1>7, Sets DEF Inv, Same, JournalStays, Placed
  <2> QED BY Zenon, <1>1, <1>5, <1>6, <2>1, PlacedKept, ToldKept
<1>9. ASSUME NEW q \in net' PROVE Sent(q)'
  <2>1. Sent(q) /\ q.run \in Runs
    BY Zenon, <1>3 DEF Inv, Sent
  <2> QED BY Zenon, <1>6, <1>7, <2>1, SentKept
<1>10. OneRequest'
  BY Zenon, <1>3 DEF Inv, OneRequest
<1>11. ASSUME NEW j \in Starts PROVE Served(j)' /\ OneDeclaration(j)' /\ Witnessed(j)'
  <2>1. \A d \in Contents : Says(j, d)' => Says(j, d)
    BY Zenon, <1>3 DEF Says
  <2> QED BY Zenon, <1>3, <1>5, <1>6, <2>1, JobKept
<1> QED BY Zenon, <1>5, <1>8, <1>9, <1>10, <1>11 DEF Inv

\* What is left to show of a step of r that sends nothing.
LEMMA OwnStep ==
  ASSUME Inv, Types', NEW r \in Uploads, \A x \in Runs \ {r} : Same(x), Grows,
         \A x \in Uploads \ {r} : JournalStays(x), UNCHANGED <<held, jobs, net>>,
         \A q \in net : q.run # r, pc'[r] \notin {"looked", "declared", "polled", "page", "sent"},
         Placed(r)', \A j \in Starts : Served(j)' /\ OneDeclaration(j)' /\ Witnessed(j)'
  PROVE  Inv'
<1>1. Types
  BY Zenon DEF Inv
<1>2. ASSUME NEW x \in Uploads PROVE Placed(x)' /\ Told(x)'
  <2>1. CASE x = r
    BY Zenon, <2>1 DEF Told
  <2>2. CASE x # r
    <3>1. Same(x) /\ Still(x) /\ JournalStays(x) /\ Placed(x) /\ Told(x)
      BY Zenon, <2>2, Sets DEF Inv, Same
    <3> QED BY Zenon, <1>1, <3>1, PlacedKept, ToldKept
  <2> QED BY Zenon, <2>1, <2>2
<1>3. ASSUME NEW q \in net' PROVE Sent(q)'
  <2>1. Sent(q) /\ q.run \in Runs /\ q.run # r
    BY Zenon DEF Inv, Sent
  <2> QED BY Zenon, <2>1, SentKept
<1>4. OneRequest'
  <2> SUFFICES ASSUME NEW q \in net, NEW o \in net, q.run = o.run, pc'[q.run] # "failed" PROVE q = o
    BY Zenon DEF OneRequest
  <2>1. q.run \in Runs /\ q.run # r
    BY Zenon DEF Inv, Sent
  <2>2. pc'[q.run] = pc[q.run]
    BY Zenon, <2>1 DEF Same
  <2> QED BY Zenon, <2>2 DEF Inv, OneRequest
<1> QED BY Zenon, <1>2, <1>3, <1>4 DEF Inv

\* At these places nothing has been asked.
LEMMA Before ==
  ASSUME Inv, NEW r \in Uploads, pc[r] \in {"start", "hash", "save", "sync"} \cup {"rehash", "hash_missing"}
  PROVE  r \in Runs /\ \A q \in net : q.run # r
<1>1. r \in Runs
  BY Zenon, Sets
<1> QED BY <1>1, Quiet

LEMMA HashStep ==
  ASSUME Inv, NEW r \in Uploads, Hash(r)
  PROVE  Inv'
<1>1. /\ pc[r] \in {"hash", "rehash", "hash_missing"} /\ Len(snap[r]) < N
      /\ snap' = [snap EXCEPT ![r] = Append(@, source[Len(@) + 1])]
      /\ UNCHANGED <<source, held, early, journals, jobs, net, pc, id, declared, received, after, polls, reply>>
  BY Zenon DEF Hash, history
<1>2. Types /\ Placed(r)
  BY Zenon DEF Inv
<1>3. /\ snap[r] \in Seq(0..MaxChanges) /\ N \in Nat /\ MaxChanges \in Nat
      /\ source \in [1..N -> 0..MaxChanges]
  BY Zenon, <1>2, Sets DEF Types, Contents, Parts
<1> DEFINE s == snap[r] t == snap'[r]
<1>4. t = Append(s, source[Len(s) + 1]) /\ \A x \in Uploads : x # r => snap'[x] = snap[x]
  BY Zenon, <1>1, <1>2 DEF Types
<1>5. /\ t \in Seq(0..MaxChanges) /\ Len(t) = Len(s) + 1 /\ Len(t) <= N
      /\ \A i \in 1..Len(t) : (i \in 1..Len(s) /\ t[i] = s[i]) \/ (i = Len(s) + 1 /\ t[i] = source[i])
  <2>1. Len(s) < N /\ s \in Seq(0..MaxChanges)
    BY Zenon, <1>1, <1>3
  <2> HIDE DEF s, t
  <2>2. Len(s) + 1 \in 1..N
    BY <1>3, <2>1
  <2>3. source[Len(s) + 1] \in 0..MaxChanges
    BY Zenon, <1>3, <2>2
  <2>4. PICK v \in 0..MaxChanges : v = source[Len(s) + 1]
    BY Zenon, <2>3
  <2>5. t = Append(s, v)
    BY Zenon, <1>4, <2>4
  <2>6. t \in Seq(0..MaxChanges) /\ Len(t) = Len(s) + 1 /\ Len(s) \in Nat
    BY ONLY <2>1, <2>5, v \in 0..MaxChanges
  <2>7. \A i \in 1..Len(s) : t[i] = s[i]
    BY ONLY <2>1, <2>5, v \in 0..MaxChanges
  <2>8. t[Len(s) + 1] = v
    BY ONLY <2>1, <2>5, v \in 0..MaxChanges
  <2>9. Len(t) <= N
    BY <1>3, <2>1, <2>6
  <2>10. ASSUME NEW i \in 1..Len(t)
         PROVE  (i \in 1..Len(s) /\ t[i] = s[i]) \/ (i = Len(s) + 1 /\ t[i] = source[i])
    <3>1. i \in 1..Len(s) \/ i = Len(s) + 1
      BY <2>6
    <3> QED BY Zenon, <2>4, <2>7, <2>8, <3>1
  <2> QED BY Zenon, <2>6, <2>9, <2>10
<1>6. Types'
  <2>1. \A x \in Uploads : snap'[x] \in Seq(0..MaxChanges) /\ Len(snap'[x]) <= N
    BY Zenon, <1>2, <1>4, <1>5 DEF Types
  <2>2. snap' \in [Uploads -> Seq(0..MaxChanges)]
    <3>1. DOMAIN snap' = Uploads /\ snap' = [x \in Uploads |-> snap'[x]]
      BY Zenon, <1>1, <1>2 DEF Types
    <3> QED BY Zenon, <2>1, <3>1
  <2> QED BY Zenon, <1>1, <1>2, <2>1, <2>2 DEF Types
<1>7. \A x \in Runs \ {r} : Same(x)
  BY Zenon, <1>1, <1>4 DEF Same, Still
<1>8. \A i \in 1..Len(snap'[r]) : snap'[r][i] <= source'[i]
  <2> SUFFICES ASSUME NEW i \in 1..Len(t) PROVE t[i] <= source[i]
    BY Zenon, <1>1
  <2>1. CASE i \in 1..Len(s) /\ t[i] = s[i]
    BY Zenon, <1>2, <2>1 DEF Placed
  <2>2. CASE i = Len(s) + 1 /\ t[i] = source[i]
    <3>1. i \in 1..N
      BY <1>1, <1>3, <2>2
    <3>2. source[i] \in 0..MaxChanges
      BY Zenon, <1>3, <3>1
    <3> DEFINE a == t[i] b == source[i]
    <3>3. a = b /\ b \in 0..MaxChanges
      BY Zenon, <2>2, <3>2
    <3> HIDE DEF a, b
    <3>4. a <= b
      BY ONLY <3>3, Sets
    <3> QED BY Zenon, <3>4 DEF a, b
  <2> QED BY Zenon, <1>5, <2>1, <2>2
<1>9. Placed(r)'
  <2>1. pc'[r] = pc[r] /\ pc[r] \notin Matched /\ pc[r] \notin {"page", "parts", "sent"} /\ pc[r] \notin {"parts", "sent"}
        /\ pc[r] # "sync" /\ pc[r] # "sent"
    BY <1>1 DEF Matched
  <2>2. pc[r] \in Working => Kept(id[r], declared[r])'
    BY Zenon, <1>1, <1>2 DEF Placed, Kept
  <2> QED BY Zenon, <1>1, <1>2, <1>8, <2>1, <2>2 DEF Placed
<1>10. Told(r)'
  <2>1. pc'[r] \notin {"looked", "declared", "polled"} /\ pc'[r] # "page" /\ pc'[r] # "sent"
    BY <1>1
  <2> QED BY Zenon, <2>1 DEF Told
<1>11. \A q \in net : q.run # r
  BY <1>1, Before
<1> QED BY Zenon, <1>1, <1>6, <1>7, <1>9, <1>10, <1>11, LocalStep

LEMMA StartStep ==
  ASSUME Inv, NEW r \in Uploads, Start(r)
  PROVE  Inv'
<1>1. /\ r \in Starts /\ pc[r] = "start" /\ pc' = [pc EXCEPT ![r] = "hash"]
      /\ UNCHANGED <<source, held, early, journals, jobs, net, id, declared, snap, received, after, polls, reply>>
  BY Zenon DEF Start, Go, history, local
<1>2. Types /\ Placed(r) /\ r \in Runs /\ \A q \in net : q.run # r
  BY <1>1, Before DEF Inv
<1>3. Types'
  <2>1. "hash" \in Places
    BY DEF Places
  <2>2. pc' \in [Runs -> Places]
    BY Zenon, <1>1, <1>2, <2>1 DEF Types
  <2> QED BY Zenon, <1>1, <1>2, <2>2 DEF Types
<1>4. pc'[r] = "hash" /\ \A x \in Runs \ {r} : Same(x)
  BY Zenon, <1>1, <1>2, Others
<1>5. Placed(r)'
  <2>1. id[r] = None /\ received[r] = {} /\ \A i \in 1..Len(snap[r]) : snap[r][i] <= source[i]
    <3>1. pc[r] \notin {"save", "sync"} \cup Working /\ pc[r] \notin Matched
      BY <1>1 DEF Working, Matched
    <3> QED BY Zenon, <1>2, <3>1 DEF Placed
  <2>2. pc'[r] \notin {"canceling", "save", "sync", "rehash", "page", "parts", "sent"} \cup Working \cup Matched
    BY <1>4 DEF Working, Matched
  <2> QED BY <1>1, <2>1, <2>2 DEF Placed
<1>6. Told(r)'
  BY <1>4 DEF Told
<1>7. pc[r] \in Unknown
  BY <1>1 DEF Unknown
<1> QED BY Zenon, <1>1, <1>2, <1>3, <1>4, <1>5, <1>6, <1>7, LocalStep

LEMMA IdentifyStep ==
  ASSUME Inv, NEW r \in Uploads, Identify(r)
  PROVE  Inv'
<1>1. /\ r \in Starts /\ Len(snap[r]) = N /\ pc[r] = "hash" /\ pc' = [pc EXCEPT ![r] = "save"]
      /\ id' = [id EXCEPT ![r] = r] /\ declared' = [declared EXCEPT ![r] = snap[r]]
      /\ UNCHANGED <<source, held, early, journals, jobs, net, snap, received, after, polls, reply>>
  BY Zenon DEF Identify, Hashed, Go, history
<1>2. Types /\ Placed(r) /\ r \in Runs /\ \A q \in net : q.run # r
  BY <1>1, Before DEF Inv
<1>3. /\ id'[r] = r /\ declared'[r] = snap[r]
      /\ \A x \in Uploads : x # r => id'[x] = id[x] /\ declared'[x] = declared[x]
  BY Zenon, <1>1, <1>2 DEF Types
<1>4. Types'
  <2>1. "save" \in Places
    BY DEF Places
  <2>2. pc' \in [Runs -> Places] /\ id' \in [Uploads -> Starts \cup {None}] /\ DOMAIN declared' = Uploads
    BY Zenon, <1>1, <1>2, <2>1 DEF Types
  <2> QED BY Zenon, <1>1, <1>2, <2>2 DEF Types
<1>5. pc'[r] = "save" /\ \A x \in Runs \ {r} : Same(x)
  BY Zenon, <1>1, <1>2, <1>3, Others
<1>6. snap[r] \in Contents
  <2>1. snap[r] \in Seq(0..MaxChanges)
    BY Zenon, <1>2 DEF Types
  <2>2. snap[r] \in [1..Len(snap[r]) -> 0..MaxChanges]
    BY <2>1, Sets
  <2> QED BY Zenon, <1>1, <2>2 DEF Contents, Parts
<1>7. Placed(r)'
  <2>1. received[r] = {} /\ \A i \in 1..Len(snap[r]) : snap[r][i] <= source[i]
    <3>1. pc[r] \notin Matched
      BY <1>1 DEF Matched
    <3> QED BY Zenon, <1>2, <3>1 DEF Placed
  <2>2. pc'[r] \notin {"canceling", "sync", "rehash", "page", "parts", "sent"} \cup Working \cup Matched
    BY <1>5 DEF Working, Matched
  <2> QED BY <1>1, <1>3, <1>5, <1>6, <2>1, <2>2 DEF Placed
<1>8. Grows
  BY Zenon, <1>1, <1>2, Unchanged
<1>9. pc[r] \in Unknown /\ pc'[r] \notin Unknown /\ pc'[r] \notin {"looked", "declared", "polled", "page", "sent"}
  BY <1>1, <1>5 DEF Unknown
<1>10. ASSUME NEW j \in Starts, j # r PROVE Served(j)' /\ OneDeclaration(j)' /\ Witnessed(j)'
  <2>1. \A d \in Contents : Says(j, d)' => Says(j, d)
    BY Zenon, <1>1, <1>3, <1>10 DEF Says
  <2>2. pc'[j] = pc[j]
    BY Zenon, <1>5, <1>10, Sets DEF Same
  <2> QED BY Zenon, <1>1, <1>4, <1>8, <2>1, <2>2, JobKept
<1>11. \A d \in Contents : ~Says(r, d)
  BY Zenon, <1>1, <1>9 DEF Inv, OneDeclaration
<1>12. jobs[r] = None
  <2> SUFFICES ASSUME jobs[r] # None PROVE FALSE
    OBVIOUS
  <2>1. jobs[r].declared \in Contents /\ Says(r, jobs[r].declared)
    BY Zenon, <1>1, <1>2, JobTypes DEF Says
  <2> QED BY Zenon, <1>11, <2>1
<1>13. ASSUME NEW d \in Contents, Says(r, d)' PROVE d = snap[r]
  <2>1. ~Says(r, d)
    BY Zenon, <1>11, <1>13
  <2>2. \/ \E x \in Uploads : id'[x] = r /\ declared'[x] = d
        \/ \E p \in Paths : journals[p] # None /\ journals[p].id = r /\ journals[p].declared = d
        \/ \E q \in net : q.op = "declare" /\ q.job = r /\ q.bytes = d
        \/ jobs[r] # None /\ jobs[r].declared = d
    BY Zenon, <1>1, <1>13 DEF Says
  <2>3. PICK x \in Uploads : id'[x] = r /\ declared'[x] = d
    BY Zenon, <2>1, <2>2 DEF Says
  <2>4. x = r
    BY Zenon, <1>3, <2>1, <2>3 DEF Says
  <2> QED BY Zenon, <1>3, <2>3, <2>4
<1>14. Witnessed(r)'
  <2> SUFFICES ASSUME NEW d \in Contents, Says(r, d)' PROVE \E h \in held' : Fits(r, d, h)'
    BY Zenon DEF Witnessed
  <2>1. d = snap[r] /\ source \in held /\ source \in Contents /\ Parts = 1..Len(snap[r])
    BY Zenon, <1>1, <1>2, <1>13 DEF Types, Parts
  <2>2. \A q \in net : ~(q.op = "part" /\ q.job = r)
    <3> SUFFICES ASSUME NEW q \in net, q.op = "part", q.job = r PROVE FALSE
      BY Zenon
    <3>1. Sent(q) /\ q.op \in {"part", "complete"}
      BY DEF Inv
    <3> QED BY Zenon, <1>12, <3>1 DEF Sent
  <2>3. \A i \in Parts : d[i] <= source[i] /\ source[i] <= source[i]
    <3> SUFFICES ASSUME NEW i \in Parts PROVE d[i] <= source[i] /\ source[i] <= source[i]
      OBVIOUS
    <3>1. d[i] <= source[i]
      BY Zenon, <1>2, <2>1 DEF Placed
    <3>2. source[i] \in 0..MaxChanges
      BY Zenon, <2>1 DEF Contents
    <3>3. source[i] <= source[i]
      BY ONLY <3>2, Sets
    <3> QED BY Zenon, <3>1, <3>3
  <2>4. PICK h : h = source
    BY Zenon
  <2>5. Fits(r, d, h)'
    BY Zenon, <1>1, <1>12, <2>2, <2>3, <2>4 DEF Fits
  <2> QED BY Zenon, <1>1, <2>1, <2>4, <2>5
<1>15. Served(r)' /\ OneDeclaration(r)'
  BY Zenon, <1>1, <1>9, <1>12, <1>13 DEF Served, OneDeclaration
<1>16. ASSUME NEW x \in Uploads \ {r} PROVE JournalStays(x)
  BY Zenon, <1>1 DEF Inv, JournalStays, Placed
<1> QED BY Zenon, <1>1, <1>2, <1>4, <1>5, <1>7, <1>8, <1>9, <1>10, <1>14, <1>15, <1>16, OwnStep

\* What the journals' records are, and that r's record is one.
LEMMA JournalTypes ==
  ASSUME Types, NEW p \in Paths, journals[p] # None
  PROVE  /\ journals[p] \in Journal /\ journals[p].id \in Starts /\ journals[p].declared \in Contents
         /\ journals[p].synced \in BOOLEAN
<1>1. journals[p] \in Journal
  BY Zenon DEF Types
<1> QED BY <1>1 DEF Journal

LEMMA SaveStep ==
  ASSUME Inv, NEW r \in Uploads, Save(r)
  PROVE  Inv'
<1> DEFINE p == PathOf[r]
           new == [id |-> id[r], declared |-> declared[r], synced |-> FALSE]
<1>1. /\ pc[r] = "save" /\ pc' = [pc EXCEPT ![r] = "sync"] /\ journals[p] = None
      /\ journals' = [journals EXCEPT ![p] = new]
      /\ UNCHANGED <<source, held, early, jobs, net, id, declared, snap, received, after, polls, reply>>
  BY Zenon DEF Save, Go, history, local
<1>2. Types /\ Placed(r) /\ r \in Runs /\ p \in Paths /\ \A q \in net : q.run # r
  BY <1>1, Before, Parameters DEF Inv
<1>3. id[r] = r /\ r \in Starts /\ declared[r] \in Contents
  BY <1>1, <1>2 DEF Placed
<1>4. new \in Journal /\ new.id = r /\ new.declared = declared[r] /\ new # None
  <2>1. new \in Journal
    BY <1>3 DEF Journal
  <2>2. new # None
    BY Zenon, <2>1, Sets
  <2> QED BY <1>3, <2>1, <2>2
<1> HIDE DEF new
<1>5. journals'[p] = new /\ \A o \in Paths : o # p => journals'[o] = journals[o]
  BY Zenon, <1>1, <1>2 DEF Types
<1> HIDE DEF p
<1>6. Types'
  <2>1. "sync" \in Places
    BY DEF Places
  <2>2. pc' \in [Runs -> Places] /\ journals' \in [Paths -> Journal \cup {None}]
    BY Zenon, <1>1, <1>2, <1>4, <2>1 DEF Types
  <2> QED BY Zenon, <1>1, <1>2, <2>2 DEF Types
<1>7. pc'[r] = "sync" /\ \A x \in Runs \ {r} : Same(x)
  BY Zenon, <1>1, <1>2, Others
<1>8. Placed(r)'
  <2>1. received[r] = {} /\ \A i \in 1..Len(snap[r]) : snap[r][i] <= source[i]
    <3>1. pc[r] \notin Matched
      BY <1>1 DEF Matched
    <3> QED BY Zenon, <1>2, <3>1 DEF Placed
  <2>2. pc'[r] \notin {"canceling", "rehash", "page", "parts", "sent"} \cup Working \cup Matched
    BY <1>7 DEF Working, Matched
  <2>3. journals'[PathOf[r]] # None /\ journals'[PathOf[r]].id = r /\ journals'[PathOf[r]].declared = declared'[r]
    BY Zenon, <1>1, <1>4, <1>5 DEF p
  <2>4. id'[r] = r /\ declared'[r] \in Contents /\ received'[r] = {}
        /\ \A i \in 1..Len(snap'[r]) : snap'[r][i] <= source'[i]
    BY Zenon, <1>1, <1>3, <2>1
  <2> QED BY <1>3, <1>7, <2>2, <2>3, <2>4 DEF Placed
<1>9. Grows
  <2>1. \A i \in Parts : source[i] <= source'[i]
    <3> SUFFICES ASSUME NEW i \in Parts PROVE source[i] <= source'[i]
      OBVIOUS
    <3>1. source[i] \in 0..MaxChanges /\ source'[i] = source[i]
      BY Zenon, <1>1, <1>2 DEF Types, Contents
    <3> QED BY ONLY <3>1, Sets
  <2>2. \A j \in Starts : \A d \in Contents : Kept(j, d) => Kept(j, d)'
    BY Zenon, <1>1, <1>5 DEF Kept
  <2> QED BY Zenon, <1>1, <2>1, <2>2 DEF Grows, Uploaded
<1>10. ASSUME NEW x \in Uploads \ {r} PROVE JournalStays(x)
  <2> SUFFICES ASSUME pc[x] = "sync" PROVE journals'[PathOf[x]] = journals[PathOf[x]] /\ journals[PathOf[x]] # None
    BY Zenon DEF JournalStays
  <2>1. journals[PathOf[x]] # None
    BY Zenon DEF Inv, Placed
  <2>2. PathOf[x] \in Paths /\ PathOf[x] # p
    BY Zenon, <1>1, <2>1, Parameters
  <2> QED BY Zenon, <1>5, <2>1, <2>2
<1>11. ASSUME NEW j \in Starts PROVE Served(j)' /\ OneDeclaration(j)' /\ Witnessed(j)'
  <2>1. ASSUME NEW d \in Contents, Says(j, d)' PROVE Says(j, d)
    <3>1. CASE \E o \in Paths : journals'[o] # None /\ journals'[o].id = j /\ journals'[o].declared = d
      <4>1. PICK o \in Paths : journals'[o] # None /\ journals'[o].id = j /\ journals'[o].declared = d
        BY Zenon, <3>1
      <4>2. CASE o = p
        BY Zenon, <1>3, <1>4, <1>5, <4>1, <4>2 DEF Says
      <4>3. CASE o # p
        BY Zenon, <1>5, <4>1, <4>3 DEF Says
      <4> QED BY Zenon, <4>2, <4>3
    <3> QED BY Zenon, <1>1, <2>1, <3>1 DEF Says
  <2>2. pc'[j] \in Unknown => pc[j] \in Unknown
    <3>1. pc'[r] \notin Unknown
      BY <1>7 DEF Unknown
    <3> QED BY Zenon, <1>7, <3>1, Sets DEF Same
  <2> QED BY Zenon, <1>1, <1>6, <1>9, <2>1, <2>2, JobKept
<1>12. pc'[r] \notin {"looked", "declared", "polled", "page", "sent"}
  BY <1>7
<1> QED BY Zenon, <1>1, <1>2, <1>6, <1>7, <1>8, <1>9, <1>10, <1>11, <1>12, OwnStep

LEMMA SyncStep ==
  ASSUME Inv, NEW r \in Uploads, Sync(r)
  PROVE  Inv'
<1> DEFINE p == PathOf[r]
           new == [journals[p] EXCEPT !.synced = TRUE]
<1>1. /\ pc[r] = "sync" /\ pc' = [pc EXCEPT ![r] = "upload"] /\ journals' = [journals EXCEPT ![p] = new]
      /\ UNCHANGED <<source, held, early, jobs, net, id, declared, snap, received, after, polls, reply>>
  BY Zenon DEF Sync, Go, history, local
<1>2. Types /\ Placed(r) /\ r \in Runs /\ p \in Paths /\ \A q \in net : q.run # r
  BY <1>1, Before, Parameters DEF Inv
<1>3. /\ id[r] = r /\ r \in Starts /\ declared[r] \in Contents
      /\ journals[p] # None /\ journals[p].id = r /\ journals[p].declared = declared[r]
  BY <1>1, <1>2 DEF Placed
<1>4. new \in Journal /\ new.id = journals[p].id /\ new.declared = journals[p].declared /\ new.synced /\ new # None
  <2>1. journals[p] \in Journal
    BY Zenon, <1>2, <1>3, JournalTypes
  <2>2. new \in Journal /\ new.id = journals[p].id /\ new.declared = journals[p].declared /\ new.synced
    BY <2>1 DEF Journal
  <2>3. new # None
    BY Zenon, <2>2, Sets
  <2> QED BY Zenon, <2>2, <2>3
<1> HIDE DEF new
<1>5. journals'[p] = new /\ \A o \in Paths : o # p => journals'[o] = journals[o]
  BY Zenon, <1>1, <1>2 DEF Types
<1> HIDE DEF p
<1>6. Types'
  <2>1. "upload" \in Places
    BY DEF Places
  <2>2. pc' \in [Runs -> Places] /\ journals' \in [Paths -> Journal \cup {None}]
    BY Zenon, <1>1, <1>2, <1>4, <2>1 DEF Types
  <2> QED BY Zenon, <1>1, <1>2, <2>2 DEF Types
<1>7. pc'[r] = "upload" /\ \A x \in Runs \ {r} : Same(x)
  BY Zenon, <1>1, <1>2, Others
<1>8. \A o \in Paths : journals'[o] # None =>
        /\ journals[o] # None /\ journals'[o].id = journals[o].id /\ journals'[o].declared = journals[o].declared
  BY Zenon, <1>3, <1>4, <1>5
<1>9. \A o \in Paths : journals[o] # None =>
        /\ journals'[o] # None /\ journals'[o].id = journals[o].id /\ journals'[o].declared = journals[o].declared
        /\ journals[o].synced => journals'[o].synced
  BY Zenon, <1>4, <1>5
<1>10. Placed(r)'
  <2>1. received[r] = {} /\ \A i \in 1..Len(snap[r]) : snap[r][i] <= source[i]
    <3>1. pc[r] \notin Matched
      BY <1>1 DEF Matched
    <3> QED BY Zenon, <1>2, <3>1 DEF Placed
  <2>2. pc'[r] \notin {"canceling", "hash", "save", "sync", "rehash", "page", "parts", "sent"} \cup Matched
    BY <1>7 DEF Matched
  <2>3. Kept(id[r], declared[r])'
    BY Zenon, <1>1, <1>2, <1>3, <1>4, <1>5 DEF Kept
  <2>4. id'[r] = r /\ declared'[r] \in Contents /\ received'[r] = {}
        /\ \A i \in 1..Len(snap'[r]) : snap'[r][i] <= source'[i]
    BY Zenon, <1>1, <1>3, <2>1
  <2>5. pc'[r] \in Working
    BY <1>7 DEF Working
  <2> QED BY <1>3, <2>2, <2>3, <2>4, <2>5 DEF Placed
<1>11. Grows
  <2>1. \A i \in Parts : source[i] <= source'[i]
    <3> SUFFICES ASSUME NEW i \in Parts PROVE source[i] <= source'[i]
      OBVIOUS
    <3>1. source[i] \in 0..MaxChanges /\ source'[i] = source[i]
      BY Zenon, <1>1, <1>2 DEF Types, Contents
    <3> QED BY ONLY <3>1, Sets
  <2>2. \A j \in Starts : \A d \in Contents : Kept(j, d) => Kept(j, d)'
    BY Zenon, <1>1, <1>9 DEF Kept
  <2> QED BY Zenon, <1>1, <2>1, <2>2 DEF Grows, Uploaded
<1>12. ASSUME NEW x \in Uploads \ {r} PROVE JournalStays(x)
  <2> SUFFICES ASSUME pc[x] = "sync"
               PROVE  /\ journals'[PathOf[x]] # None /\ journals'[PathOf[x]].id = journals[PathOf[x]].id
                      /\ journals'[PathOf[x]].declared = journals[PathOf[x]].declared
    BY Zenon DEF JournalStays
  <2>1. journals[PathOf[x]] # None /\ PathOf[x] \in Paths
    BY Zenon, Parameters DEF Inv, Placed
  <2> QED BY Zenon, <1>9, <2>1
<1>13. ASSUME NEW j \in Starts PROVE Served(j)' /\ OneDeclaration(j)' /\ Witnessed(j)'
  <2>1. \A d \in Contents : Says(j, d)' => Says(j, d)
    BY Zenon, <1>1, <1>8, SaysKept
  <2>2. pc'[j] \in Unknown => pc[j] \in Unknown
    <3>1. pc'[r] \notin Unknown
      BY <1>7 DEF Unknown
    <3> QED BY Zenon, <1>7, <3>1, Sets DEF Same
  <2> QED BY Zenon, <1>1, <1>6, <1>11, <2>1, <2>2, JobKept
<1>14. pc'[r] \notin {"looked", "declared", "polled", "page", "sent"}
  BY <1>7
<1> QED BY Zenon, <1>1, <1>2, <1>6, <1>7, <1>10, <1>11, <1>12, <1>13, <1>14, OwnStep

LEMMA ResumeStep ==
  ASSUME Inv, NEW r \in Uploads, Resume(r)
  PROVE  Inv'
<1> DEFINE p == PathOf[r]
<1>1. /\ pc[r] = "start" /\ pc' = [pc EXCEPT ![r] = "upload"] /\ journals[p] # None
      /\ id' = [id EXCEPT ![r] = journals[p].id] /\ declared' = [declared EXCEPT ![r] = journals[p].declared]
      /\ early' = IF journals[p].synced THEN early ELSE early \cup {journals[p].id}
      /\ UNCHANGED <<source, held, journals, jobs, net, snap, received, after, polls, reply>>
  BY Zenon DEF Resume, Go
<1>2. Types /\ Placed(r) /\ r \in Runs /\ p \in Paths /\ \A q \in net : q.run # r
  BY <1>1, Before, Parameters DEF Inv
<1> HIDE DEF p
<1>3. journals[p].id \in Starts /\ journals[p].declared \in Contents
  BY Zenon, <1>1, <1>2, JournalTypes
<1>4. /\ id'[r] = journals[p].id /\ declared'[r] = journals[p].declared
      /\ \A x \in Uploads : x # r => id'[x] = id[x] /\ declared'[x] = declared[x]
  BY Zenon, <1>1, <1>2 DEF Types
<1>5. Types'
  <2>1. "upload" \in Places
    BY DEF Places
  <2>2. pc' \in [Runs -> Places] /\ id' \in [Uploads -> Starts \cup {None}] /\ DOMAIN declared' = Uploads
    BY Zenon, <1>1, <1>2, <1>3, <2>1 DEF Types
  <2> QED BY Zenon, <1>1, <1>2, <2>2 DEF Types
<1>6. pc'[r] = "upload" /\ \A x \in Runs \ {r} : Same(x)
  BY Zenon, <1>1, <1>2, <1>4, Others
<1>7. Placed(r)'
  <2>1. received[r] = {} /\ \A i \in 1..Len(snap[r]) : snap[r][i] <= source[i]
    <3>1. pc[r] \notin Matched
      BY <1>1 DEF Matched
    <3> QED BY Zenon, <1>2, <3>1 DEF Placed
  <2>2. pc'[r] \notin {"canceling", "hash", "save", "sync", "rehash", "page", "parts", "sent"} \cup Matched
    BY <1>6 DEF Matched
  <2>3. Kept(id[r], declared[r])'
    <3>1. CASE journals[p].synced
      BY Zenon, <1>1, <1>2, <1>4, <3>1 DEF Kept
    <3>2. CASE ~journals[p].synced
      <4>1. early' = early \cup {journals[p].id}
        BY Zenon, <1>1, <3>2
      <4>2. id'[r] \in early'
        BY Zenon, <1>4, <4>1
      <4> QED BY Zenon, <4>2 DEF Kept
    <3> QED BY Zenon, <3>1, <3>2
  <2>4. id'[r] \in Starts /\ declared'[r] \in Contents /\ received'[r] = {}
        /\ \A i \in 1..Len(snap'[r]) : snap'[r][i] <= source'[i]
    BY Zenon, <1>1, <1>3, <1>4, <2>1
  <2>5. pc'[r] \in Working
    BY <1>6 DEF Working
  <2> QED BY <2>2, <2>3, <2>4, <2>5 DEF Placed
<1>8. Grows
  <2>1. \A i \in Parts : source[i] <= source'[i]
    <3> SUFFICES ASSUME NEW i \in Parts PROVE source[i] <= source'[i]
      OBVIOUS
    <3>1. source[i] \in 0..MaxChanges /\ source'[i] = source[i]
      BY Zenon, <1>1, <1>2 DEF Types, Contents
    <3> QED BY ONLY <3>1, Sets
  <2>2. early \subseteq early'
    BY Zenon, <1>1
  <2>3. \A j \in Starts : \A d \in Contents : Kept(j, d) => Kept(j, d)'
    BY Zenon, <1>1, <2>2 DEF Kept
  <2> QED BY Zenon, <1>1, <2>1, <2>3 DEF Grows, Uploaded
<1>9. ASSUME NEW x \in Uploads \ {r} PROVE JournalStays(x)
  BY Zenon, <1>1 DEF Inv, JournalStays, Placed
<1>10. ASSUME NEW j \in Starts PROVE Served(j)' /\ OneDeclaration(j)' /\ Witnessed(j)'
  <2>1. ASSUME NEW d \in Contents, Says(j, d)' PROVE Says(j, d)
    <3>1. CASE \E x \in Uploads : id'[x] = j /\ declared'[x] = d
      <4>1. PICK x \in Uploads : id'[x] = j /\ declared'[x] = d
        BY Zenon, <3>1
      <4>2. CASE x = r
        BY Zenon, <1>1, <1>2, <1>4, <4>1, <4>2 DEF Says
      <4>3. CASE x # r
        BY Zenon, <1>4, <4>1, <4>3 DEF Says
      <4> QED BY Zenon, <4>2, <4>3
    <3> QED BY Zenon, <1>1, <2>1, <3>1 DEF Says
  <2>2. pc'[j] \in Unknown => pc[j] \in Unknown
    <3>1. pc'[r] \notin Unknown
      BY <1>6 DEF Unknown
    <3> QED BY Zenon, <1>6, <3>1, Sets DEF Same
  <2> QED BY Zenon, <1>1, <1>5, <1>8, <2>1, <2>2, JobKept
<1>11. pc'[r] \notin {"looked", "declared", "polled", "page", "sent"}
  BY <1>6
<1> QED BY Zenon, <1>1, <1>2, <1>5, <1>6, <1>7, <1>8, <1>9, <1>10, <1>11, OwnStep

-----------------------------------------------------------------------------
(* Cancel, and the ends of an invocation.                                   *)

LEMMA CancelStep ==
  ASSUME Inv, NEW r \in Cancels, Cancel(r)
  PROVE  Inv'
<1>1. PICK j \in Starts : Send(r, Request(j, "cancel", None, None), "canceling")
  BY Zenon DEF Cancel
<1>2. PICK m : m = [Request(j, "cancel", None, None) EXCEPT !.run = r]
  BY Zenon
<1>3. m.run = r /\ m.job = j /\ m.op = "cancel"
  BY <1>2 DEF Request
<1>4. /\ pc[r] = "start" /\ pc' = [pc EXCEPT ![r] = "canceling"] /\ net' = net \cup {m}
      /\ reply' = [reply EXCEPT ![r] = None]
      /\ UNCHANGED <<source, held, early, journals, jobs, id, declared, snap, received, after, polls>>
  BY Zenon, <1>1, <1>2 DEF Cancel, Send, history, local
<1>5. Types /\ r \in Runs /\ r \notin Uploads
  BY Zenon, Sets DEF Inv
<1>6. /\ pc'[r] = "canceling" /\ reply'[r] = None
      /\ \A x \in Runs : x # r => pc'[x] = pc[x] /\ reply'[x] = reply[x]
  BY Zenon, <1>4, <1>5 DEF Types
<1>7. \A x \in Runs \ {r} : Same(x)
  BY Zenon, <1>4, <1>6 DEF Same, Still
<1>8. Types'
  <2>1. "canceling" \in Places
    BY DEF Places
  <2>2. pc' \in [Runs -> Places] /\ DOMAIN reply' = Runs
    BY Zenon, <1>4, <1>5, <2>1 DEF Types
  <2> QED BY Zenon, <1>4, <1>5, <2>2 DEF Types
<1>9. \A q \in net : q.run # r
  BY <1>4, <1>5, Quiet
<1>10. Sent(m)'
  <2>1. "cancel" \notin {"get", "declare", "part", "complete"}
    OBVIOUS
  <2> QED BY <1>3, <1>5, <1>6, <2>1 DEF Sent, Awaited
<1>11. pc'[r] \notin Unknown /\ m.op # "declare" /\ m.op # "part"
  BY <1>3, <1>6 DEF Unknown
<1> QED BY Zenon, <1>3, <1>4, <1>5, <1>6, <1>7, <1>8, <1>9, <1>10, <1>11, SendStep

\* Some invocations end, each for its own reason.
LEMMA Ends ==
  ASSUME Inv, NEW dead \in SUBSET Runs, Forget(dead), pc' \in [Runs -> Places],
         \A x \in Runs : x \notin dead => pc'[x] = pc[x],
         \A x \in dead : pc'[x] \in {"done", "failed"} /\ (pc'[x] = "done" => \A q \in net : q.run # x),
         UNCHANGED <<source, history, jobs>>, journals' \in [Paths -> Journal \cup {None}],
         \A p \in Paths : journals'[p] # None =>
           /\ journals[p] # None /\ journals'[p].id = journals[p].id
           /\ journals'[p].declared = journals[p].declared,
         \A p \in Paths : journals[p] # None /\ journals[p].synced =>
           journals'[p] # None /\ journals'[p].synced,
         \A x \in Runs \ dead : pc[x] = "sync" => journals' = journals
  PROVE  Inv'
<1>1. Types
  BY Zenon DEF Inv
<1> DEFINE clear(f, empty) == [r \in DOMAIN f |-> IF r \in dead THEN empty ELSE f[r]]
<1>2. /\ id' = clear(id, None) /\ declared' = clear(declared, None) /\ snap' = clear(snap, <<>>)
      /\ received' = clear(received, {}) /\ after' = clear(after, 0) /\ polls' = clear(polls, 0)
      /\ reply' = clear(reply, None) /\ net' = {q \in net : q.run \in dead => q.op # "get"}
  BY Zenon DEF Forget
<1>3. /\ DOMAIN id = Uploads /\ DOMAIN declared = Uploads /\ DOMAIN snap = Uploads /\ DOMAIN received = Uploads
      /\ DOMAIN after = Uploads /\ DOMAIN polls = Uploads /\ DOMAIN reply = Runs
  BY Zenon, <1>1 DEF Types
<1>4. /\ id' = [r \in Uploads |-> IF r \in dead THEN None ELSE id[r]]
      /\ declared' = [r \in Uploads |-> IF r \in dead THEN None ELSE declared[r]]
      /\ snap' = [r \in Uploads |-> IF r \in dead THEN <<>> ELSE snap[r]]
      /\ received' = [r \in Uploads |-> IF r \in dead THEN {} ELSE received[r]]
      /\ after' = [r \in Uploads |-> IF r \in dead THEN 0 ELSE after[r]]
      /\ polls' = [r \in Uploads |-> IF r \in dead THEN 0 ELSE polls[r]]
      /\ reply' = [r \in Runs |-> IF r \in dead THEN None ELSE reply[r]]
  BY Zenon, <1>2, <1>3
<1>5. Types'
  <2>1. id' \in [Uploads -> Starts \cup {None}] /\ DOMAIN declared' = Uploads /\ DOMAIN reply' = Runs
    BY Zenon, <1>1, <1>4 DEF Types
  <2>2. <<>> \in Seq(0..MaxChanges) /\ Len(<<>>) <= N /\ 0 \in 0..N /\ 0 \in 0..MaxPolls
    BY Sets
  <2>3. \A x \in Uploads : snap'[x] \in Seq(0..MaxChanges) /\ Len(snap'[x]) <= N
    <3> SUFFICES ASSUME NEW x \in Uploads PROVE snap'[x] \in Seq(0..MaxChanges) /\ Len(snap'[x]) <= N
      OBVIOUS
    <3>1. snap'[x] = IF x \in dead THEN <<>> ELSE snap[x]
      BY Zenon, <1>4
    <3> QED BY Zenon, <1>1, <2>2, <3>1 DEF Types
  <2>4. snap' \in [Uploads -> Seq(0..MaxChanges)]
    <3>1. snap' = [x \in Uploads |-> snap'[x]]
      BY Zenon, <1>4
    <3> QED BY Zenon, <2>3, <3>1
  <2>5. received' \in [Uploads -> SUBSET Parts]
    BY Zenon, <1>1, <1>4 DEF Types
  <2>6. after' \in [Uploads -> 0..N] /\ polls' \in [Uploads -> 0..MaxPolls]
    BY Zenon, <1>1, <1>4, <2>2 DEF Types
  <2>7. source' = source /\ held' = held /\ jobs' = jobs
    BY Zenon DEF history
  <2> QED BY Zenon, <1>1, <2>1, <2>3, <2>4, <2>5, <2>6, <2>7 DEF Types
<1>6. ASSUME NEW x \in Runs \ dead PROVE Same(x)
  BY Zenon, <1>4, <1>6 DEF Same, Still
<1>7. ASSUME NEW x \in dead
      PROVE  reply'[x] = None /\ (x \in Uploads => id'[x] = None /\ Len(snap'[x]) = 0 /\ received'[x] = {})
  <2>1. reply'[x] = None /\ (x \in Uploads => id'[x] = None /\ snap'[x] = <<>> /\ received'[x] = {})
    BY Zenon, <1>4, <1>7
  <2>2. Len(<<>>) = 0
    OBVIOUS
  <2> QED BY Zenon, <2>1, <2>2
<1>8. net' \subseteq net /\ UNCHANGED <<source, held, early, jobs>>
  BY Zenon, <1>2 DEF history
<1>9. \A x \in dead :
        /\ pc'[x] \in {"done", "failed"} /\ reply'[x] = None
        /\ x \in Uploads => id'[x] = None /\ Len(snap'[x]) = 0 /\ received'[x] = {}
        /\ pc'[x] = "done" => \A q \in net : q.run # x
  BY Zenon, <1>7
<1>10. \A x \in Runs \ dead : Same(x)
  BY Zenon, <1>6
<1> HIDE DEF clear
<1> QED BY Zenon, <1>5, <1>8, <1>9, <1>10, ForgetStep

\* One invocation ends; it is done only when its answer has come.
LEMMA FinishStep ==
  ASSUME Inv, NEW r \in Runs, NEW end \in {"done", "failed"}, Finish(r, end),
         end = "done" => reply[r] # None /\ pc[r] # "failed",
         UNCHANGED <<source, history, journals, jobs>>
  PROVE  Inv'
<1>1. Types /\ end \in Places
  BY DEF Inv, Places
<1>2. pc' = [pc EXCEPT ![r] = end] /\ Forget({r}) /\ {r} \in SUBSET Runs
  BY Zenon DEF Finish
<1>3. pc' \in [Runs -> Places] /\ pc'[r] = end /\ \A x \in Runs : x \notin {r} => pc'[x] = pc[x]
  BY Zenon, <1>1, <1>2 DEF Types
<1>4. end = "done" => \A q \in net : q.run # r
  BY Zenon, Quiet
<1>5. journals' \in [Paths -> Journal \cup {None}] /\ journals' = journals
  BY Zenon, <1>1 DEF Types
<1> HIDE DEF Inv
<1> QED BY Zenon, <1>2, <1>3, <1>4, <1>5, Ends

LEMMA CanceledStep ==
  ASSUME Inv, NEW r \in Cancels, Canceled(r)
  PROVE  Inv'
<1>1. /\ r \in Runs /\ "done" \in {"done", "failed"} /\ pc[r] = "canceling" /\ reply[r] # None
      /\ Finish(r, "done") /\ UNCHANGED <<source, history, journals, jobs>>
  BY Zenon, Sets DEF Canceled, Answered
<1>2. pc[r] # "failed"
  BY <1>1
<1> QED BY Zenon, <1>1, <1>2, FinishStep

LEMMA ReportStep ==
  ASSUME Inv, NEW r \in Uploads, Report(r)
  PROVE  Inv'
<1>1. /\ r \in Runs /\ "done" \in {"done", "failed"} /\ reply[r] # None
      /\ pc[r] \in {"looked", "declared", "polled", "page"}
      /\ Finish(r, "done") /\ UNCHANGED <<source, history, journals, jobs>>
  BY Zenon, Sets DEF Report
<1>2. pc[r] # "failed"
  BY <1>1
<1> QED BY Zenon, <1>1, <1>2, FinishStep

LEMMA CompletedStep ==
  ASSUME Inv, NEW r \in Uploads, Completed(r)
  PROVE  Inv'
<1>1. /\ r \in Runs /\ "done" \in {"done", "failed"} /\ pc[r] = "completing" /\ reply[r] # None
      /\ Finish(r, "done") /\ UNCHANGED <<source, history, journals, jobs>>
  BY Zenon, Sets DEF Completed, Answered
<1>2. pc[r] # "failed"
  BY <1>1
<1> QED BY Zenon, <1>1, <1>2, FinishStep

LEMMA FailStep ==
  ASSUME Inv, NEW r \in Runs, Fail(r)
  PROVE  Inv'
<1>1. "failed" \in {"done", "failed"} /\ "failed" # "done"
  OBVIOUS
<1>2. Finish(r, "failed") /\ UNCHANGED <<source, history, journals, jobs>>
  BY Zenon DEF Fail
<1> QED BY Zenon, <1>1, <1>2, FinishStep

LEMMA PowerFailureStep ==
  ASSUME Inv, PowerFailure
  PROVE  Inv'
<1>1. Types
  BY Zenon DEF Inv
<1>2. PICK lost \in SUBSET {p \in Paths : journals[p] # None /\ ~journals[p].synced} :
        journals' = [p \in Paths |-> IF p \in lost \/ journals[p] = None THEN None
                                     ELSE [journals[p] EXCEPT !.synced = TRUE]]
  BY Zenon DEF PowerFailure
<1>3. PICK dead \in SUBSET Runs : dead = {r \in Runs : pc'[r] = "failed"}
  BY Zenon
<1>4. /\ Forget(dead) /\ UNCHANGED <<source, history, jobs>>
      /\ pc' = [r \in Runs |-> IF pc[r] \in {"absent", "start", "done"} THEN pc[r] ELSE "failed"]
  BY Zenon, <1>3 DEF PowerFailure
<1>5. pc' \in [Runs -> Places] /\ \A x \in Runs : x \notin dead => pc'[x] = pc[x] /\ pc[x] \in {"absent", "start", "done"}
  <2>1. "failed" \in Places
    BY DEF Places
  <2>2. pc' \in [Runs -> Places]
    BY Zenon, <1>1, <1>4, <2>1 DEF Types
  <2> QED BY Zenon, <1>3, <1>4, <2>2
<1>6. ASSUME NEW p \in Paths, journals[p] # None, p \notin lost
      PROVE  /\ journals'[p] \in Journal /\ journals'[p] # None /\ journals'[p].id = journals[p].id
             /\ journals'[p].declared = journals[p].declared /\ journals'[p].synced
  <2> DEFINE new == [journals[p] EXCEPT !.synced = TRUE]
  <2>1. journals[p] \in Journal
    BY Zenon, <1>1, <1>6, JournalTypes
  <2>2. new \in Journal /\ new.id = journals[p].id /\ new.declared = journals[p].declared /\ new.synced
    BY <2>1 DEF Journal
  <2>3. new # None
    BY Zenon, <2>2, Sets
  <2>4. journals'[p] = new
    BY Zenon, <1>2, <1>6
  <2> QED BY Zenon, <2>2, <2>3, <2>4
<1>7. \A p \in Paths : p \in lost \/ journals[p] = None => journals'[p] = None
  BY Zenon, <1>2
<1>8. journals' \in [Paths -> Journal \cup {None}]
  <2>1. \A p \in Paths : journals'[p] \in Journal \cup {None}
    BY Zenon, <1>6, <1>7
  <2>2. journals' = [p \in Paths |-> journals'[p]]
    BY Zenon, <1>2
  <2> QED BY Zenon, <2>1, <2>2
<1>9. \A p \in Paths : journals'[p] # None =>
        /\ journals[p] # None /\ journals'[p].id = journals[p].id
        /\ journals'[p].declared = journals[p].declared
  BY Zenon, <1>6, <1>7
<1>10. \A p \in Paths : journals[p] # None /\ journals[p].synced => journals'[p] # None /\ journals'[p].synced
  BY Zenon, <1>2, <1>6
<1>11. \A x \in dead : pc'[x] \in {"done", "failed"} /\ (pc'[x] = "done" => \A q \in net : q.run # x)
  BY <1>3
<1>12. \A x \in Runs \ dead : pc[x] = "sync" => journals' = journals
  <2> SUFFICES ASSUME NEW x \in Runs \ dead, pc[x] = "sync" PROVE FALSE
    BY Zenon
  <2>1. pc[x] \in {"absent", "start", "done"}
    BY Zenon, <1>5
  <2> QED BY <2>1
<1> QED BY Zenon, <1>4, <1>5, <1>8, <1>9, <1>10, <1>11, <1>12, Ends

-----------------------------------------------------------------------------
(* The theorems.                                                            *)

LEMMA InitInv == Init => Inv
<1> SUFFICES ASSUME Init PROVE Inv
  OBVIOUS
<1>1. /\ source = [i \in Parts |-> 0] /\ held = {source} /\ early = {} /\ journals = [p \in Paths |-> None]
      /\ jobs = [j \in Starts |-> None] /\ net = {} /\ id = [r \in Uploads |-> None]
      /\ declared = [r \in Uploads |-> None] /\ snap = [r \in Uploads |-> <<>>]
      /\ received = [r \in Uploads |-> {}] /\ after = [r \in Uploads |-> 0] /\ polls = [r \in Uploads |-> 0]
      /\ reply = [r \in Runs |-> None]
  BY Zenon DEF Init
<1>2. PICK cast \in Casts : pc = [r \in Runs |-> IF r \in cast.runs THEN "start" ELSE "absent"]
  BY Zenon DEF Init
<1>3. /\ 0 \in 0..MaxChanges /\ 0 \in 0..N /\ 0 \in 0..MaxPolls
      /\ <<>> \in Seq(0..MaxChanges) /\ Len(<<>>) <= N /\ Len(<<>>) = 0
      /\ "start" \in Places /\ "absent" \in Places
  BY Sets DEF Places
<1>4. Types
  <2>1. source \in Contents /\ source \in held /\ held \subseteq Contents
    BY Zenon, <1>1, <1>3 DEF Contents
  <2>2. pc \in [Runs -> Places] /\ DOMAIN reply = Runs /\ id \in [Uploads -> Starts \cup {None}]
        /\ DOMAIN declared = Uploads
    BY Zenon, <1>1, <1>2, <1>3
  <2>3. snap \in [Uploads -> Seq(0..MaxChanges)] /\ \A r \in Uploads : snap[r] = <<>>
    BY Zenon, <1>1, <1>3
  <2>4. received \in [Uploads -> SUBSET Parts]
    BY Zenon, <1>1
  <2>5. after \in [Uploads -> 0..N] /\ polls \in [Uploads -> 0..MaxPolls]
    BY Zenon, <1>1, <1>3
  <2>6. journals \in [Paths -> Journal \cup {None}] /\ jobs \in [Starts -> Job \cup {None}]
    BY Zenon, <1>1
  <2> QED BY Zenon, <1>3, <2>1, <2>2, <2>3, <2>4, <2>5, <2>6 DEF Types
<1>5. ASSUME NEW r \in Uploads PROVE Placed(r) /\ Told(r)
  <2>1. pc[r] \in {"start", "absent"} /\ id[r] = None /\ received[r] = {} /\ reply[r] = None /\ snap[r] = <<>>
    <3>1. pc[r] = (IF r \in cast.runs THEN "start" ELSE "absent") /\ r \in Runs
      BY Zenon, <1>2, Sets
    <3> QED BY Zenon, <1>1, <3>1
  <2>2. \A i \in 1..Len(snap[r]) : snap[r][i] <= source[i]
    BY <1>3, <2>1
  <2>3. pc[r] \notin {"canceling", "hash", "save", "sync", "rehash", "page", "parts", "sent"} \cup Working \cup Matched
    BY <2>1 DEF Working, Matched
  <2> QED BY <2>1, <2>2, <2>3 DEF Placed, Told
<1>6. ASSUME NEW j \in Starts PROVE Served(j) /\ OneDeclaration(j) /\ Witnessed(j)
  <2>1. jobs[j] = None /\ \A r \in Uploads : id[r] # j
    BY Zenon, <1>1, Sets
  <2>2. \A d : ~Says(j, d)
    BY Zenon, <1>1, <2>1 DEF Says
  <2> QED BY Zenon, <2>1, <2>2 DEF Served, OneDeclaration, Witnessed
<1> QED BY Zenon, <1>1, <1>4, <1>5, <1>6 DEF Inv, OneRequest

LEMMA NextInv == Inv /\ [Next]_vars => Inv'
<1> SUFFICES ASSUME Inv, [Next]_vars PROVE Inv'
  OBVIOUS
<1>1. CASE SourceChanges
  BY Zenon, <1>1, SourceStep
<1>2. CASE PowerFailure
  BY Zenon, <1>2, PowerFailureStep
<1>3. ASSUME NEW r \in Uploads, Advance(r) PROVE Inv'
  BY Zenon, <1>3, HashStep, StartStep, IdentifyStep, SaveStep, SyncStep, ResumeStep, LookStep, MissingStep,
     DeclareStep, PollStep, ReportStep, OpenStep, AskReceiptsStep, ReadPageStep, SkipStep, SendPartStep,
     PartConfirmedStep, CompleteStep, CompletedStep DEF Advance
<1>4. ASSUME NEW r \in Cancels, Cancel(r) \/ Canceled(r) PROVE Inv'
  BY Zenon, <1>4, CancelStep, CanceledStep
<1>5. ASSUME NEW r \in Runs, Fail(r) PROVE Inv'
  BY Zenon, <1>5, FailStep
<1>6. ASSUME NEW q \in net, Serve(q) PROVE Inv'
  BY Zenon, <1>6, TakeGet, TakeDeclare, TakePart, TakeComplete, TakeCancel DEF Serve
<1>7. ASSUME NEW j \in Starts, Proceed(j) PROVE Inv'
  BY Zenon, <1>7, ProceedStep
<1>8. CASE UNCHANGED vars
  <2>1. UNCHANGED <<source, held, early, journals, jobs, net, pc, id, declared, snap, received, after, polls, reply>>
    BY Zenon, <1>8 DEF vars, history, local
  <2>2. Types /\ Types'
    BY Zenon, <2>1 DEF Inv, Types
  <2>3. Grows
    BY Zenon, <2>1, <2>2, Unchanged
  <2>4. \A x \in Runs : Same(x)
    BY Zenon, <2>1 DEF Same, Still
  <2>5. ASSUME NEW x \in Uploads PROVE Placed(x)' /\ Told(x)'
    <3>1. Same(x) /\ Still(x) /\ JournalStays(x) /\ Placed(x) /\ Told(x)
      BY Zenon, <2>1, <2>4, Sets DEF Inv, Same, JournalStays, Placed
    <3> QED BY Zenon, <2>2, <2>3, <3>1, PlacedKept, ToldKept
  <2>6. ASSUME NEW q \in net' PROVE Sent(q)'
    <3>1. Sent(q) /\ q.run \in Runs
      BY Zenon, <2>1 DEF Inv, Sent
    <3> QED BY Zenon, <2>3, <2>4, <3>1, SentKept
  <2>7. OneRequest'
    BY Zenon, <2>1 DEF Inv, OneRequest
  <2>8. ASSUME NEW j \in Starts PROVE Served(j)' /\ OneDeclaration(j)' /\ Witnessed(j)'
    <3>1. \A d \in Contents : Says(j, d)' => Says(j, d)
      BY Zenon, <2>1 DEF Says
    <3> QED BY Zenon, <2>1, <2>2, <2>3, <3>1, JobKept
  <2> QED BY Zenon, <2>2, <2>5, <2>6, <2>7, <2>8 DEF Inv
<1> QED BY Zenon, <1>1, <1>2, <1>3, <1>4, <1>5, <1>6, <1>7, <1>8 DEF Next

\* The invariant holds of every state of the import.
THEOREM CloudImportInvariant == Spec => []Inv
BY InitInv, NextInv, PTL DEF Spec

LEMMA InvTypeOK == Inv => TypeOK
<1> SUFFICES ASSUME Inv PROVE TypeOK
  OBVIOUS
<1>1. Types
  BY Zenon DEF Inv
<1>2. snap \in [Uploads -> Snapshots]
  <2>1. ASSUME NEW r \in Uploads PROVE snap[r] \in Snapshots
    <3>1. snap[r] \in Seq(0..MaxChanges) /\ Len(snap[r]) <= N /\ N \in Nat
      BY Zenon, <1>1, Sets DEF Types
    <3>2. snap[r] \in [1..Len(snap[r]) -> 0..MaxChanges] /\ Len(snap[r]) \in 0..N
      BY <3>1, Sets
    <3> QED BY Zenon, <3>2 DEF Snapshots
  <2>2. snap = [r \in Uploads |-> snap[r]]
    BY Zenon, <1>1 DEF Types
  <2> QED BY Zenon, <2>1, <2>2
<1>3. ASSUME NEW q \in net PROVE pc[q.run] # "done"
  <2>1. Sent(q)
    BY Zenon DEF Inv
  <2> QED BY <2>1 DEF Sent, Awaited
<1> QED BY Zenon, <1>1, <1>2, <1>3 DEF Types, TypeOK, Contents

\* While a job exists at the service, a journal names it with its declaration and
\* its name outlives a power failure, except when a resume took it over from a start
\* that had not synced it yet (journal.rs, save and load; imports.rs, start): for any
\* number of starts, resumes, cancels, journals, losses and power failures.
THEOREM ImportRecorded == Spec => []JobHasJournal
<1>1. Inv => JobHasJournal
  <2> SUFFICES ASSUME Inv PROVE JobHasJournal
    OBVIOUS
  <2>1. ASSUME NEW j \in Starts, jobs[j] # None
        PROVE  j \in early \/ \E p \in Paths : Recorded(j, p) /\ journals[p].synced
    <3>1. Kept(j, jobs[j].declared)
      BY Zenon, <2>1 DEF Inv, Served
    <3> QED BY Zenon, <3>1 DEF Kept, Recorded
  <2> QED BY Zenon, <2>1, InvTypeOK DEF JobHasJournal
<1> QED BY <1>1, CloudImportInvariant, PTL

\* A job that is completing or ready holds every part of its declaration, and the
\* declaration is a content that the file had as a whole at one moment, although it
\* is hashed chunk by chunk under no lock (imports.rs, upload; journal.rs, Snapshot):
\* for any number of parts, receipts per page, invocations, late requests and writes.
THEOREM ImportComplete == Spec => []CompleteWhole
<1>1. Inv => CompleteWhole
  <2> SUFFICES ASSUME Inv, NEW j \in Starts, jobs[j] # None, jobs[j].state \in {"completing", "ready"}
               PROVE  /\ \A i \in Parts : jobs[j].parts[i] = [state |-> "uploaded", bytes |-> jobs[j].declared[i]]
                      /\ [i \in Parts |-> jobs[j].declared[i]] \in held
    BY Zenon DEF CompleteWhole
  <2> DEFINE d == jobs[j].declared
  <2>1. /\ Types /\ d \in Contents
        /\ jobs[j].parts \in [Parts -> [state : {"none", "uploading", "uploaded"}, bytes : 0..MaxChanges \cup {None}]]
    BY Zenon, JobTypes DEF Inv
  <2>2. \A i \in Parts : jobs[j].parts[i].state = "uploaded"
    BY Zenon DEF Inv, Served, Uploaded
  <2>3. PICK h \in held : Fits(j, d, h)
    BY Zenon, <2>1 DEF Inv, Witnessed, Says
  <2>4. ASSUME NEW i \in Parts PROVE jobs[j].parts[i].bytes = d[i] /\ h[i] = d[i]
    <3>1. jobs[j].parts[i].state # "none"
      BY <2>2
    <3> QED BY Zenon, <2>3, <3>1 DEF Fits
  <2>5. ASSUME NEW i \in Parts PROVE jobs[j].parts[i] = [state |-> "uploaded", bytes |-> d[i]]
    <3>1. PICK part \in [state : {"none", "uploading", "uploaded"}, bytes : 0..MaxChanges \cup {None}] :
            part = jobs[j].parts[i]
      BY Zenon, <2>1
    <3>2. part.state = "uploaded" /\ part.bytes = d[i]
      BY Zenon, <2>2, <2>4, <3>1
    <3> HIDE DEF d
    <3>3. part = [state |-> "uploaded", bytes |-> d[i]]
      BY <3>2
    <3> QED BY Zenon, <3>1, <3>3
  <2>6. [i \in Parts |-> d[i]] = h
    <3>1. h \in [Parts -> 0..MaxChanges]
      BY Zenon, <2>1 DEF Types, Contents
    <3> HIDE DEF d
    <3> QED BY Zenon, <2>4, <3>1
  <2> QED BY Zenon, <2>5, <2>6
<1> QED BY <1>1, CloudImportInvariant, PTL
=============================================================================
