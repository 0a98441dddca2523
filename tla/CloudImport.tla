------------------------------ MODULE CloudImport ------------------------------
(***************************************************************************)
(* `fastdb cloud import` (cli/src/cloud/imports.rs, journal.rs): a local   *)
(* snapshot is hashed, its identity is put into a durable journal, and     *)
(* only then is the import job declared, its parts uploaded and its        *)
(* completion posted.  Any invocation may be killed, lose a reply or lose  *)
(* the machine; another one resumes from the journal.                      *)
(*                                                                         *)
(* A request that its sender stopped waiting for can still reach the       *)
(* service later.  The service is not part of the repository.  It is       *)
(* assumed to keep a part it has confirmed, and is permissive otherwise:   *)
(* in particular it takes a completion without looking at the parts.       *)
(***************************************************************************)
EXTENDS Naturals, Sequences, FiniteSets

CONSTANTS
  Starts,       \* invocations of import start; each draws a fresh job id, itself
  Resumes,      \* invocations of import resume
  Cancels,      \* invocations of import cancel
  Paths,        \* journal files
  PathOf,       \* PathOf[r]: the journal named on the command line
  N,            \* parts of the snapshot
  PageSize,     \* receipts per page (100)
  MaxPolls,     \* polls of a job that is still creating (30)
  MaxChanges,   \* how often somebody writes the snapshot file
  Casts,        \* who takes part, and how often the machine stops
  None

Uploads == Starts \cup Resumes
Runs == Uploads \cup Cancels
Parts == 1..N

\* A request that nobody has sent yet.
Request(job, op, part, bytes) == [run |-> None, job |-> job, op |-> op, part |-> part, bytes |-> bytes]

\* A content of the snapshot file, what a journal says, and a job of the service.
Contents == [Parts -> 0..MaxChanges]
Journal == [id : Starts, declared : Contents, synced : BOOLEAN]
Job == [declared : Contents, state : {"creating", "uploading", "completing", "ready", "canceled"},
        parts : [Parts -> [state : {"none", "uploading", "uploaded"},
                           bytes : 0..MaxChanges \cup {None}]]]

ASSUME Parameters ==
  /\ N \in Nat \ {0} /\ PageSize \in Nat \ {0}
  /\ {MaxPolls, MaxChanges} \subseteq Nat
  /\ \A cast \in Casts : cast.runs \subseteq Runs /\ cast.crashes \in Nat
  /\ DOMAIN PathOf = Uploads /\ \A r \in Uploads : PathOf[r] \in Paths
  /\ Uploads \cap Cancels = {}
  /\ None \notin Nat \cup Runs \cup Journal \cup Job

VARIABLES
  source,     \* source[i]: the bytes of part i of the snapshot file
  held,       \* every content the file has had as a whole (history)
  early,      \* jobs resumed from a journal whose name was not synced yet (history)
  journals,   \* journals[p]: None, or the identity in it and whether it is synced
  jobs,       \* jobs[id]: None, or the service's job
  net,        \* requests that the service may still receive
  pc,
  crashes,    \* how often the machine may still stop
  id,         \* id[r]: the job that r works on
  declared,   \* declared[r]: the hash in r's journal
  snap,       \* snap[r]: the parts that Snapshot::open has read so far
  received,   \* received[r]: parts that need no upload
  after,      \* after[r]: the receipt cursor, then the last part sent
  polls,
  reply       \* reply[r]: None, or the answer to r's request

history == <<held, early>>
local == <<id, declared, snap, received, after, polls>>
vars == <<source, history, journals, jobs, net, pc, crashes, local, reply>>

Init ==
  /\ source = [i \in Parts |-> 0] /\ held = {source} /\ early = {}
  /\ journals = [p \in Paths |-> None]
  /\ jobs = [j \in Starts |-> None]
  /\ net = {}
  /\ \E cast \in Casts :
       /\ pc = [r \in Runs |-> IF r \in cast.runs THEN "start" ELSE "absent"]
       /\ crashes = cast.crashes
  /\ id = [r \in Uploads |-> None] /\ declared = [r \in Uploads |-> None]
  /\ snap = [r \in Uploads |-> <<>>]
  /\ received = [r \in Uploads |-> {}]
  /\ after = [r \in Uploads |-> 0] /\ polls = [r \in Uploads |-> 0]
  /\ reply = [r \in Runs |-> None]

Go(r, from, to) == pc[r] = from /\ pc' = [pc EXCEPT ![r] = to]
\* The memory of these invocations is gone, and nobody waits for what they asked.
Forget(dead) ==
  LET clear(f, empty) == [r \in DOMAIN f |-> IF r \in dead THEN empty ELSE f[r]]
  IN /\ id' = clear(id, None) /\ declared' = clear(declared, None)
     /\ snap' = clear(snap, <<>>) /\ received' = clear(received, {})
     /\ after' = clear(after, 0) /\ polls' = clear(polls, 0)
     /\ reply' = clear(reply, None)
     /\ net' = {q \in net : q.run \in dead => q.op # "get"}

Finish(r, end) == pc' = [pc EXCEPT ![r] = end] /\ Forget({r})

\* Cloud::request: the caller waits at `to`; at most one request of a run is awaited.
Send(r, q, to) ==
  /\ pc' = [pc EXCEPT ![r] = to]
  /\ net' = net \cup {[q EXCEPT !.run = r]}
  /\ reply' = [reply EXCEPT ![r] = None]

Answered(r, at) == pc[r] = at /\ reply[r] # None
Ok(r) == reply[r].kind = "ok"

(***************************************************************************)
(* The snapshot file and Snapshot.                                         *)
(***************************************************************************)
\* No content of a part comes back once it was overwritten.
SourceChanges ==
  /\ \E w \in 1..MaxChanges, i \in Parts :
       /\ \A k \in Parts : source[k] < w
       /\ \E k \in Parts : source[k] + 1 = w
       /\ source' = [source EXCEPT ![i] = w]
  /\ held' = held \cup {source'}
  /\ UNCHANGED <<early, journals, jobs, net, pc, crashes, local, reply>>

\* Snapshot::open reads the file chunk by chunk, under no lock.
Hash(r) ==
  /\ pc[r] \in {"hash", "rehash", "hash_missing"}
  /\ Len(snap[r]) < N
  /\ snap' = [snap EXCEPT ![r] = Append(@, source[Len(@) + 1])]
  /\ UNCHANGED <<source, history, journals, jobs, net, pc, crashes, id, declared, received, after, polls, reply>>

Hashed(r) == Len(snap[r]) = N
MatchSource(r) == snap[r] = declared[r]

(***************************************************************************)
(* start and resume, up to upload.                                         *)
(***************************************************************************)
Start(r) ==
  /\ r \in Starts
  /\ Go(r, "start", "hash")
  /\ journals[PathOf[r]] = None
  /\ UNCHANGED <<source, history, journals, jobs, net, crashes, local, reply>>

Identify(r) ==
  /\ r \in Starts /\ Hashed(r)
  /\ Go(r, "hash", "save")
  /\ id' = [id EXCEPT ![r] = r]
  /\ declared' = [declared EXCEPT ![r] = snap[r]]
  /\ UNCHANGED <<source, history, journals, jobs, net, crashes, snap, received, after, polls, reply>>

\* persist_noclobber: a whole file appears, or an existing one stays.
Save(r) ==
  /\ Go(r, "save", "sync")
  /\ journals[PathOf[r]] = None
  /\ journals' = [journals EXCEPT ![PathOf[r]] =
                    [id |-> id[r], declared |-> declared[r], synced |-> FALSE]]
  /\ UNCHANGED <<source, history, jobs, net, crashes, local, reply>>

\* Fault: the directory is not synced.
SyncLater(r) ==
  /\ Go(r, "sync", "upload")
  /\ UNCHANGED <<source, history, journals, jobs, net, crashes, local, reply>>

Sync(r) ==
  /\ Go(r, "sync", "upload")
  /\ journals' = [journals EXCEPT ![PathOf[r]].synced = TRUE]
  /\ UNCHANGED <<source, history, jobs, net, crashes, local, reply>>

\* load; a journal can be read before its writer has synced its name.
Resume(r) ==
  /\ r \in Resumes
  /\ Go(r, "start", "upload")
  /\ journals[PathOf[r]] # None
  /\ id' = [id EXCEPT ![r] = journals[PathOf[r]].id]
  /\ declared' = [declared EXCEPT ![r] = journals[PathOf[r]].declared]
  /\ early' = IF journals[PathOf[r]].synced THEN early ELSE early \cup {journals[PathOf[r]].id}
  /\ UNCHANGED <<source, held, journals, jobs, net, crashes, snap, received, after, polls, reply>>

Cancel(r) ==
  /\ r \in Cancels /\ pc[r] = "start"
  /\ \E j \in Starts : Send(r, Request(j, "cancel", None, None), "canceling")
  /\ UNCHANGED <<source, history, journals, jobs, crashes, local>>

Canceled(r) ==
  /\ r \in Cancels /\ Answered(r, "canceling") /\ Ok(r)
  /\ Finish(r, "done")
  /\ UNCHANGED <<source, history, journals, jobs, crashes>>

(***************************************************************************)
(* upload: the job.                                                        *)
(***************************************************************************)
Get(r, cursor, to) == Send(r, Request(id[r], "get", cursor, None), to)

Look(r) ==
  /\ pc[r] = "upload" /\ Get(r, 0, "looked")
  /\ UNCHANGED <<source, history, journals, jobs, crashes, local>>

\* 404: the declaration of the journal is replayed, from the exact snapshot.
Missing(r) ==
  /\ Answered(r, "looked") /\ reply[r].kind = "missing"
  /\ Go(r, "looked", "hash_missing")
  /\ UNCHANGED <<source, history, journals, jobs, net, crashes, local, reply>>

Declare(r) ==
  /\ pc[r] = "hash_missing" /\ Hashed(r) /\ MatchSource(r)
  /\ Send(r, Request(id[r], "declare", None, declared[r]), "declared")
  /\ UNCHANGED <<source, history, journals, jobs, crashes, local>>

\* verify: the answer has this journal's declaration and a known state.
Verified(r) == Ok(r) /\ reply[r].declared = declared[r]

MorePolls(r) == polls[r] < MaxPolls

\* Waiting for capacity; the last poll's answer stands whatever it is.
Poll(r) ==
  /\ pc[r] \in {"looked", "declared", "polled"} /\ reply[r] # None /\ Verified(r)
  /\ reply[r].state = "creating" /\ MorePolls(r)
  /\ polls' = [polls EXCEPT ![r] = @ + 1]
  /\ Get(r, 0, "polled")
  /\ UNCHANGED <<source, history, journals, jobs, crashes, id, declared, snap, received, after>>

\* Nothing to upload: the job is reported as it is.
Report(r) ==
  /\ pc[r] \in {"looked", "declared", "polled", "page"} /\ reply[r] # None /\ Verified(r)
  /\ reply[r].state # "uploading"
  /\ reply[r].state = "creating" => pc[r] = "page" \/ ~MorePolls(r)
  /\ Finish(r, "done")
  /\ UNCHANGED <<source, history, journals, jobs, crashes>>

Open(r) ==
  /\ pc[r] \in {"looked", "declared", "polled"} /\ reply[r] # None /\ Verified(r)
  /\ reply[r].state = "uploading"
  /\ pc' = [pc EXCEPT ![r] = "rehash"]
  /\ UNCHANGED <<source, history, journals, jobs, net, crashes, local, reply>>

\* "GET is authoritative for resume."
AskReceipts(r) ==
  /\ pc[r] = "rehash" /\ Hashed(r) /\ MatchSource(r)
  /\ Get(r, 0, "page")
  /\ UNCHANGED <<source, history, journals, jobs, crashes, local>>

(***************************************************************************)
(* upload: the receipts, page by page, and then the parts that lack one.   *)
(***************************************************************************)
\* Fault: a part counts as received once its upload began.
ConfirmedBegun(page) == {p.number : p \in page}

Confirmed(page) == {p.number : p \in {q \in page : q.state = "uploaded"}}

Cursor(r) == reply[r].next

ReadPage(r) ==
  /\ Answered(r, "page") /\ Verified(r) /\ reply[r].state = "uploading"
  /\ \A p \in reply[r].page : p.number > after[r] /\ p.bytes = snap[r][p.number]
  /\ received' = [received EXCEPT ![r] = @ \cup Confirmed(reply[r].page)]
  /\ reply[r].next # None =>
       /\ reply[r].next > after[r]
       /\ \E p \in reply[r].page : p.number = reply[r].next
       /\ \A p \in reply[r].page : p.number <= reply[r].next
  /\ IF reply[r].next = None
     THEN /\ pc' = [pc EXCEPT ![r] = "parts"]
          /\ after' = [after EXCEPT ![r] = 0]
          /\ UNCHANGED <<net, reply>>
     ELSE /\ after' = [after EXCEPT ![r] = Cursor(r)]
          /\ Get(r, Cursor(r), "page")
  /\ UNCHANGED <<source, history, journals, jobs, crashes, id, declared, snap, polls>>

Skip(r) ==
  /\ pc[r] = "parts" /\ after[r] + 1 \in received[r]
  /\ after' = [after EXCEPT ![r] = @ + 1]
  /\ UNCHANGED <<source, history, journals, jobs, net, pc, crashes, id, declared, snap, received, polls, reply>>

\* Snapshot::part reads the bytes again.
ReadPart(r, i) == source[i]

SendPart(r) ==
  /\ pc[r] = "parts" /\ after[r] < N /\ after[r] + 1 \notin received[r]
  /\ LET i == after[r] + 1
     IN /\ ReadPart(r, i) = snap[r][i]
        /\ Send(r, Request(id[r], "part", i, ReadPart(r, i)), "sent")
  /\ UNCHANGED <<source, history, journals, jobs, crashes, local>>

PartConfirmed(r) ==
  /\ Answered(r, "sent") /\ Ok(r)
  /\ reply[r].number = after[r] + 1 /\ reply[r].bytes = snap[r][after[r] + 1]
  /\ Go(r, "sent", "parts")
  /\ after' = [after EXCEPT ![r] = @ + 1]
  /\ UNCHANGED <<source, history, journals, jobs, net, crashes, id, declared, snap, received, polls, reply>>

Complete(r) ==
  /\ pc[r] = "parts" /\ after[r] = N
  /\ Send(r, Request(id[r], "complete", None, None), "completing")
  /\ UNCHANGED <<source, history, journals, jobs, crashes, local>>

Completed(r) ==
  /\ Answered(r, "completing") /\ Verified(r)
  /\ Finish(r, "done")
  /\ UNCHANGED <<source, history, journals, jobs, crashes>>

Running(r) == pc[r] \notin {"done", "failed", "absent"}

\* Any error ends the invocation, as do a timeout and a kill; an answer that the
\* code rejects leaves nothing else to do.
Fail(r) ==
  /\ Running(r)
  /\ Finish(r, "failed")
  /\ UNCHANGED <<source, history, journals, jobs, crashes>>

\* The machine stops: a journal whose directory was not synced may be gone.
PowerFailure ==
  /\ crashes > 0 /\ crashes' = crashes - 1
  /\ \E lost \in SUBSET {p \in Paths : journals[p] # None /\ ~journals[p].synced} :
       journals' = [p \in Paths |-> IF p \in lost \/ journals[p] = None THEN None
                                    ELSE [journals[p] EXCEPT !.synced = TRUE]]
  /\ pc' = [r \in Runs |-> IF pc[r] \in {"absent", "start", "done"} THEN pc[r] ELSE "failed"]
  /\ Forget({r \in Runs : pc'[r] = "failed"})
  /\ UNCHANGED <<source, history, jobs>>

(***************************************************************************)
(* The service, as the client uses it.                                     *)
(***************************************************************************)
NewJob(d) == [declared |-> d, state |-> "creating",
              parts |-> [i \in Parts |-> [state |-> "none", bytes |-> None]]]

Error(kind) == [kind |-> kind]

\* A job as GET shows it: the receipts beyond a cursor, PageSize at most.
Page(job, cursor) ==
  LET begun == {i \in Parts : i > cursor /\ job.parts[i].state # "none"}
      shown == {i \in begun : Cardinality({k \in begun : k < i}) < PageSize}
  IN [kind |-> "ok", declared |-> job.declared, state |-> job.state,
      page |-> {[number |-> i, state |-> job.parts[i].state, bytes |-> job.parts[i].bytes] : i \in shown},
      next |-> IF shown = begun THEN None ELSE CHOOSE i \in shown : \A k \in shown : k <= i]

\* The service takes q with this effect on its job; the answer arrives if its
\* sender still waits for it.
Take(q, job, answer) ==
  /\ net' = net \ {q}
  /\ jobs' = [jobs EXCEPT ![q.job] = job]
  /\ reply' = IF pc[q.run] = "failed" THEN reply
              ELSE [reply EXCEPT ![q.run] = answer]
  /\ UNCHANGED <<source, history, journals, pc, crashes, local>>

ServeGet(q) ==
  /\ q.op = "get"
  /\ IF jobs[q.job] = None THEN Take(q, None, Error("missing"))
     ELSE Take(q, jobs[q.job], Page(jobs[q.job], q.part))

ServeDeclare(q) ==
  /\ q.op = "declare"
  /\ LET job == IF jobs[q.job] = None THEN NewJob(q.bytes) ELSE jobs[q.job]
     IN Take(q, job, IF job.declared = q.bytes THEN Page(job, 0) ELSE Error("refused"))

\* The receipt exists from the first byte on; the part can stay unfinished.
ServePart(q) ==
  /\ q.op = "part"
  /\ LET job == jobs[q.job]
         part(s) == [job EXCEPT !.parts[q.part] = [state |-> s, bytes |-> q.bytes]]
     IN IF job.state # "uploading" THEN Take(q, job, Error("refused"))
        ELSE \/ Take(q, part("uploaded"), [kind |-> "ok", number |-> q.part, bytes |-> q.bytes])
             \/ job.parts[q.part].state = "none" /\ Take(q, part("uploading"), Error("refused"))

ServeComplete(q) ==
  /\ q.op = "complete"
  /\ LET job == IF jobs[q.job].state = "uploading" THEN [jobs[q.job] EXCEPT !.state = "completing"]
                ELSE jobs[q.job]
     IN Take(q, job, Page(job, 0))

ServeCancel(q) ==
  /\ q.op = "cancel"
  /\ IF jobs[q.job] = None THEN Take(q, None, Error("missing"))
     ELSE LET job == IF jobs[q.job].state \in {"ready", "canceled"} THEN jobs[q.job]
                     ELSE [jobs[q.job] EXCEPT !.state = "canceled"]
          IN Take(q, job, Page(job, 0))

\* Capacity is reserved; a completed job is published.
Proceed(j) ==
  /\ jobs[j] # None
  /\ \/ jobs[j].state = "creating" /\ jobs' = [jobs EXCEPT ![j].state = "uploading"]
     \/ jobs[j].state = "completing" /\ jobs' = [jobs EXCEPT ![j].state = "ready"]
  /\ UNCHANGED <<source, history, journals, net, pc, crashes, local, reply>>

Serve(q) == ServeGet(q) \/ ServeDeclare(q) \/ ServePart(q) \/ ServeComplete(q) \/ ServeCancel(q)

Advance(r) ==
  \/ Hash(r) \/ Start(r) \/ Identify(r) \/ Save(r) \/ Sync(r) \/ Resume(r)
  \/ Look(r) \/ Missing(r) \/ Declare(r) \/ Poll(r) \/ Report(r) \/ Open(r) \/ AskReceipts(r)
  \/ ReadPage(r) \/ Skip(r) \/ SendPart(r) \/ PartConfirmed(r) \/ Complete(r) \/ Completed(r)

Next ==
  \/ SourceChanges \/ PowerFailure
  \/ \E r \in Uploads : Advance(r)
  \/ \E r \in Cancels : Cancel(r) \/ Canceled(r)
  \/ \E r \in Runs : Fail(r)
  \/ \E q \in net : Serve(q)
  \/ \E j \in Starts : Proceed(j)

Spec == Init /\ [][Next]_vars

(***************************************************************************)
(* Properties.                                                             *)
(***************************************************************************)
Snapshots == UNION {[1..k -> 0..MaxChanges] : k \in 0..N}
Places ==
  {"start", "hash", "save", "sync", "upload", "looked", "hash_missing", "declared", "polled", "rehash",
   "page", "parts", "sent", "completing", "canceling", "done", "failed", "absent"}

TypeOK ==
  /\ source \in [Parts -> 0..MaxChanges] /\ source \in held
  /\ pc \in [Runs -> Places]
  /\ snap \in [Uploads -> Snapshots]
  /\ received \in [Uploads -> SUBSET Parts] /\ after \in [Uploads -> 0..N]
  /\ polls \in [Uploads -> 0..MaxPolls]
  /\ \A q \in net : pc[q.run] # "done"

Recorded(j, p) == journals[p] # None /\ journals[p].id = j /\ journals[p].declared = jobs[j].declared

\* No replacement job is ever needed: while a job exists at the service, a journal
\* names it with its declaration, and its name outlives a power failure; except
\* when a resume took the job over from a start that had not yet synced it
\* (journal.rs, save).  Two invocations never replace each other's journal.
JobHasJournal ==
  /\ TypeOK
  /\ \A j \in Starts : jobs[j] # None =>
       j \in early \/ \E p \in Paths : Recorded(j, p) /\ journals[p].synced

\* A job is completed only when the service holds every part of what was declared,
\* whatever replies were lost, pages raced with uploads, or requests came late
\* (the receipts and the confirmations of upload); and that is a content the file
\* had at one moment, although it is hashed chunk by chunk under no lock: "Each
\* chunk is checked again before sending". The second clause rests on two
\* assumptions: content that was overwritten never comes back (SourceChanges), and
\* the service keeps a part it has confirmed (ServePart).
CompleteWhole ==
  \A j \in Starts : jobs[j] # None /\ jobs[j].state \in {"completing", "ready"} =>
    /\ \A i \in Parts : jobs[j].parts[i] = [state |-> "uploaded", bytes |-> jobs[j].declared[i]]
    /\ [i \in Parts |-> jobs[j].declared[i]] \in held

(***************************************************************************)
(* What a comment says, and a resume with a power failure refutes (see the *)
(* README).                                                                *)
(***************************************************************************)
\* "Sync contents and directory before any request that could execute work".
SyncedBeforeWork ==
  \A j \in Starts : jobs[j] # None => \E p \in Paths : Recorded(j, p) /\ journals[p].synced
================================================================================
