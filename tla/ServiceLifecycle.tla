-------------------------- MODULE ServiceLifecycle --------------------------
(***************************************************************************)
(* How the FastDB service admits requests and how it stops                 *)
(* (fastdb/service/src/http.rs and admission.rs).                          *)
(*                                                                         *)
(* A connection carries one request.  Once its body is read the request    *)
(* becomes a database job on a thread of its own, which may outlive the    *)
(* connection.  A job passes Admission, where it may sleep on a condition  *)
(* variable, runs, and returns its permits in two steps.  `serve` accepts  *)
(* connections until it is told to stop, then drains connections, waits    *)
(* for the jobs and checkpoints.                                           *)
(***************************************************************************)
EXTENDS Integers, FiniteSets

CONSTANTS
    Conns,      \* connections, and with them the jobs
    MaxConns,   \* permits of the connection semaphore: 64
    MaxJobs,    \* MAX_DATABASE_JOBS: 36
    MaxActive,  \* requests that Admission lets run: 4
    MaxQueued   \* requests that Admission lets wait: 32

VARIABLES
    phase,     \* where serve is
    conn,      \* the connection tasks
    job,       \* the blocking jobs
    active,    \* Admission State::active
    queued,    \* Admission State::queued
    closing,   \* Admission State::closing
    fenced,    \* DatabaseService::fenced
    logged     \* the engine's log holds commits that a restart would replay

admission == <<active, queued, closing>>
database == <<fenced, logged>>
vars == <<phase, conn, job, admission, database>>

ASSUME CapacityAssumption ==
    /\ IsFiniteSet(Conns)
    /\ MaxConns \in Nat /\ MaxJobs \in Nat
    /\ MaxActive \in Nat \ {0} /\ MaxQueued \in Nat
\* The jobs of the HTTP layer fit into Admission: 36 = 4 + 32.
ASSUME FitAssumption == MaxJobs <= MaxActive + MaxQueued

Phases == {"serving", "unbound", "stopped", "draining", "waiting", "checkpoint", "exited"}
ConnStates == {"closed", "reading", "awaiting", "writing"}
JobStates == {"none", "spawned", "asleep", "awake", "running", "passed", "returning"}

Open == {c \in Conns : conn[c] # "closed"}
Live == {c \in Conns : job[c] # "none"}
Waiting == {c \in Conns : job[c] \in {"asleep", "awake"}}
Running == {c \in Conns : job[c] \in {"running", "passed"}}

-----------------------------------------------------------------------------
(* Connections.                                                             *)

\* serve: a stream is accepted if a connection permit is free
Accept(c) ==
    /\ phase = "serving"
    /\ conn[c] = "closed" /\ job[c] = "none"
    /\ Cardinality(Open) < MaxConns
    /\ conn' = [conn EXCEPT ![c] = "reading"]
    /\ UNCHANGED <<phase, job, admission, database>>

\* Fault: the request becomes a job whether or not there is a permit.
DispatchUncounted(c) ==
    /\ conn[c] = "reading"
    /\ job' = [job EXCEPT ![c] = "spawned"]
    /\ conn' = [conn EXCEPT ![c] = "awaiting"]
    /\ UNCHANGED <<phase, admission, database>>

\* process: the body is read; the job starts, or there is no permit for it, or
\* the request is invalid
Dispatch(c) ==
    /\ conn[c] = "reading"
    /\ \/ /\ Cardinality(Live) < MaxJobs
          /\ job' = [job EXCEPT ![c] = "spawned"]
          /\ conn' = [conn EXCEPT ![c] = "awaiting"]
       \/ /\ conn' = [conn EXCEPT ![c] = "writing"]
          /\ UNCHANGED job
    /\ UNCHANGED <<phase, admission, database>>

\* The response is written, with "connection: close"
Respond(c) ==
    /\ conn[c] = "writing"
    /\ conn' = [conn EXCEPT ![c] = "closed"]
    /\ UNCHANGED <<phase, job, admission, database>>

\* The client is gone, a read deadline expired, or the drain deadline did
Drop(c) ==
    /\ conn[c] \in {"reading", "awaiting", "writing"}
    /\ conn' = [conn EXCEPT ![c] = "closed"]
    /\ UNCHANGED <<phase, job, admission, database>>

-----------------------------------------------------------------------------
(* Jobs.                                                                    *)

\* The fence is up, the request does not parse, or the deadline has passed.
Reject(c) ==
    /\ job[c] = "spawned"
    /\ job' = [job EXCEPT ![c] = "returning"]
    /\ UNCHANGED <<phase, conn, admission, database>>

\* Admission::acquire up to its first wait
Acquire(c) ==
    /\ job[c] = "spawned"
    /\ \/ /\ \/ closing
             \/ active >= MaxActive /\ queued >= MaxQueued
          /\ job' = [job EXCEPT ![c] = "returning"]
          /\ UNCHANGED admission
       \/ /\ ~closing /\ active >= MaxActive /\ queued < MaxQueued
          /\ queued' = queued + 1
          /\ job' = [job EXCEPT ![c] = "asleep"]
          /\ UNCHANGED <<active, closing>>
       \/ /\ ~closing /\ active < MaxActive
          /\ active' = active + 1
          /\ job' = [job EXCEPT ![c] = "running"]
          /\ UNCHANGED <<queued, closing>>
    /\ UNCHANGED <<phase, conn, database>>

\* wait_timeout returns without a notification
Wake(c) ==
    /\ job[c] = "asleep"
    /\ job' = [job EXCEPT ![c] = "awake"]
    /\ UNCHANGED <<phase, conn, admission, database>>

\* acquire: still no room, wait again
Sleep(c) ==
    /\ job[c] = "awake" /\ active >= MaxActive /\ ~closing
    /\ job' = [job EXCEPT ![c] = "asleep"]
    /\ UNCHANGED <<phase, conn, admission, database>>

\* Fault: an expired wait keeps its place in the queue.
ExpireQueued(c) ==
    /\ job[c] = "awake"
    /\ job' = [job EXCEPT ![c] = "returning"]
    /\ UNCHANGED <<phase, conn, admission, database>>

\* Fault: a wait does not expire.
ExpireIfClosing(c) ==
    /\ job[c] = "awake" /\ closing
    /\ queued' = queued - 1
    /\ job' = [job EXCEPT ![c] = "returning"]
    /\ UNCHANGED <<phase, conn, active, closing, database>>

\* acquire: the deadline passed in the queue or the service is stopping
Expire(c) ==
    /\ job[c] = "awake"
    /\ queued' = queued - 1
    /\ job' = [job EXCEPT ![c] = "returning"]
    /\ UNCHANGED <<phase, conn, active, closing, database>>

\* Fault: a waiter does not look whether the service is stopping.
AdmitWhileClosing(c) ==
    /\ job[c] = "awake" /\ active < MaxActive
    /\ queued' = queued - 1
    /\ active' = active + 1
    /\ job' = [job EXCEPT ![c] = "running"]
    /\ UNCHANGED <<phase, conn, closing, database>>

\* acquire: there is room
Admit(c) ==
    /\ job[c] = "awake" /\ active < MaxActive /\ ~closing
    /\ queued' = queued - 1
    /\ active' = active + 1
    /\ job' = [job EXCEPT ![c] = "running"]
    /\ UNCHANGED <<phase, conn, closing, database>>

\* lock_before: the publication lock is taken after a last look at the fence,
\* which another job may raise from now on.
Pass(c) ==
    /\ job[c] = "running" /\ ~fenced
    /\ job' = [job EXCEPT ![c] = "passed"]
    /\ UNCHANGED <<phase, conn, admission, database>>

\* The COMMIT appends to the log; when the log has grown enough the same COMMIT
\* checkpoints it (CommitState::Checkpoint), other jobs running or not.
Write(c) ==
    /\ job[c] = "passed"
    /\ logged' \in BOOLEAN
    /\ job' = [job EXCEPT ![c] = "running"]
    /\ UNCHANGED <<phase, conn, admission, fenced>>

\* A storage error, or a commit whose outcome is uncertain, raises the fence (see
\* ServicePublication).
Fence(c) ==
    /\ c \in Running
    /\ fenced' = TRUE
    /\ logged' \in IF job[c] = "passed" THEN {logged, TRUE} ELSE {logged}
    /\ job' = [job EXCEPT ![c] = "running"]
    /\ UNCHANGED <<phase, conn, admission>>

\* notify_all
Woken(jobs) == [c \in Conns |-> IF jobs[c] = "asleep" THEN "awake" ELSE jobs[c]]

\* Fault: nobody is notified of the room.
FinishSilently(c) ==
    /\ c \in Running
    /\ active' = active - 1
    /\ job' = [job EXCEPT ![c] = "returning"]
    /\ UNCHANGED <<phase, conn, queued, closing, database>>

\* The operation ends, or panics: Permit::drop
Finish(c) ==
    /\ c \in Running
    /\ active' = active - 1
    /\ job' = Woken([job EXCEPT ![c] = "returning"])
    /\ UNCHANGED <<phase, conn, queued, closing, database>>

\* Fault: the permit comes back only through the connection.
ReturnIfAwaited(c) ==
    /\ job[c] = "returning" /\ conn[c] = "awaiting"
    /\ job' = [job EXCEPT ![c] = "none"]
    /\ conn' = [conn EXCEPT ![c] = "writing"]
    /\ UNCHANGED <<phase, admission, database>>

\* The job returns its permit; if the connection still awaits it, it answers.
Return(c) ==
    /\ job[c] = "returning"
    /\ job' = [job EXCEPT ![c] = "none"]
    /\ conn' = [conn EXCEPT ![c] = IF @ = "awaiting" THEN "writing" ELSE @]
    /\ UNCHANGED <<phase, admission, database>>

-----------------------------------------------------------------------------
(* Stopping.                                                                *)

To(here, there) == phase = here /\ phase' = there

\* A signal, a failed accept or a failed connection task ends the loop; the
\* listener is dropped.
Unbind ==
    /\ To("serving", "unbound")
    /\ UNCHANGED <<conn, job, admission, database>>

\* begin_shutdown: Admission::stop
BeginShutdown ==
    /\ To("unbound", "stopped")
    /\ closing' = TRUE
    /\ job' = Woken(job)
    /\ UNCHANGED <<conn, active, queued, database>>

\* stopping.send: connections finish what they are doing
Drain ==
    /\ To("stopped", "draining")
    /\ UNCHANGED <<conn, job, admission, database>>

\* every connection task has been joined
Joined ==
    /\ To("draining", "waiting")
    /\ Open = {}
    /\ UNCHANGED <<conn, job, admission, database>>

\* Fault: the jobs of closed connections are not waited for.
ForgetJobs ==
    /\ To("waiting", "checkpoint")
    /\ UNCHANGED <<conn, job, admission, database>>

\* acquire_many: every job permit is back
JobsDone ==
    /\ To("waiting", "checkpoint")
    /\ Live = {}
    /\ UNCHANGED <<conn, job, admission, database>>

\* checkpoint_for_shutdown: skipped when fenced; an error is reported and the log
\* is kept
Checkpoint ==
    /\ To("checkpoint", "exited")
    /\ logged' \in IF fenced THEN {logged} ELSE {FALSE, logged}
    /\ UNCHANGED <<conn, job, admission, fenced>>

Clear ==
    /\ conn' = [c \in Conns |-> "closed"]
    /\ job' = [c \in Conns |-> "none"]
    /\ active' = 0 /\ queued' = 0 /\ closing' = FALSE /\ fenced' = FALSE

\* The process is killed.
Crash ==
    /\ phase # "exited"
    /\ phase' = "exited"
    /\ Clear
    /\ UNCHANGED logged

\* The service is started again on the same file; opening it completes a checkpoint
\* that was interrupted.
Restart ==
    /\ To("exited", "serving")
    /\ Clear
    /\ logged' \in {logged, FALSE}

Init ==
    /\ phase = "serving"
    /\ conn = [c \in Conns |-> "closed"]
    /\ job = [c \in Conns |-> "none"]
    /\ active = 0 /\ queued = 0 /\ closing = FALSE
    /\ fenced = FALSE /\ logged = FALSE

Job(c) ==
    \/ Reject(c) \/ Acquire(c) \/ Wake(c) \/ Sleep(c) \/ Expire(c) \/ Admit(c)
    \/ Finish(c) \/ Return(c)

Stop == BeginShutdown \/ Drain \/ Joined \/ JobsDone \/ Checkpoint

Next ==
    \/ \E c \in Conns :
          Accept(c) \/ Dispatch(c) \/ Respond(c) \/ Drop(c) \/ Job(c)
          \/ Pass(c) \/ Write(c) \/ Fence(c)
    \/ Unbind \/ Stop \/ Crash \/ Restart

Spec == Init /\ [][Next]_vars

\* Threads and tasks are scheduled, and the deadlines end what waits: an operation
\* finishes, a wait in the queue expires, and each connection that outlasts the
\* drain is dropped.  While serving, a client may hold its connection for ever.
Fairness ==
    /\ \A c \in Conns :
          /\ WF_vars(Job(c)) /\ WF_vars(Finish(c)) /\ SF_vars(Expire(c))
          /\ WF_vars(phase = "draining" /\ Drop(c))
    /\ WF_vars(Stop)
FairSpec == Spec /\ Fairness

-----------------------------------------------------------------------------
(* Properties.                                                              *)

\* The types of the service's state.
TypeOK ==
    /\ phase \in Phases
    /\ conn \in [Conns -> ConnStates]
    /\ job \in [Conns -> JobStates]
    /\ active \in 0..MaxActive /\ queued \in 0..MaxQueued
    /\ closing \in BOOLEAN /\ fenced \in BOOLEAN /\ logged \in BOOLEAN

\* Admission's counters count: whatever way a request leaves (served, expired,
\* refused, panicked, disconnected), it gives back exactly what it took.
Accounting ==
    /\ active = Cardinality(Running)
    /\ queued = Cardinality(Waiting)

\* No lost wakeup: a request sleeps in Admission only while there is no room and
\* the service is not stopping (every change that could end its wait notifies).
NoLostWakeup ==
    (\E c \in Conns : job[c] = "asleep") => active >= MaxActive /\ ~closing

\* The job limit of the HTTP layer protects Admission's queue: a job that arrives
\* there always finds room to run or to wait ("service queue is full" is never
\* answered over HTTP; the client sees "request capacity is full" instead).
QueueNeverFull ==
    (\E c \in Conns : job[c] = "spawned") => active < MaxActive \/ queued < MaxQueued

\* From begin_shutdown on no request starts to run.
NothingStartsAfterStop == [][closing => Running' \subseteq Running]_vars

\* serve leaves behind the log its checkpoint found or made: from acquire_many until
\* the next start nothing touches the log but checkpoint_for_shutdown, which finds no
\* job (those of disconnected clients included), no connection and no fence.  While
\* jobs run, their COMMITs append to the log and checkpoint it themselves.
CheckpointAlone ==
    [][(phase \in {"checkpoint", "exited"} /\ phase' # "serving" /\ logged' # logged)
         => /\ To("checkpoint", "exited") /\ ~logged'
            /\ Live = {} /\ Open = {} /\ ~fenced]_vars

\* Every job ends, whether its connection waits for it or not.
EveryJobReturns == \A c \in Conns : job[c] # "none" ~> job[c] = "none"

\* Told to stop, the service exits.
Stops == phase = "unbound" ~> phase = "exited"
=============================================================================
