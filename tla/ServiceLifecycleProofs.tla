----------------------- MODULE ServiceLifecycleProofs -----------------------
(***************************************************************************)
(* Proofs, for every set of connections and every capacity with            *)
(* MaxJobs <= MaxActive + MaxQueued, of the safety properties of           *)
(* ServiceLifecycle.                                                       *)
(***************************************************************************)
EXTENDS ServiceLifecycle, FiniteSetTheorems, TLAPS

\* The job semaphore never hands out more than its permits.
JobsBounded == Cardinality(Live) <= MaxJobs

\* What serve has waited for stays gone.
Drained ==
    /\ phase \in {"waiting", "checkpoint", "exited"} => Open = {}
    /\ phase \in {"checkpoint", "exited"} => Live = {}

\* A connection that is still reading has no job.
Fresh == \A c \in Conns : conn[c] = "reading" => job[c] = "none"

Inv == TypeOK /\ Accounting /\ NoLostWakeup /\ JobsBounded /\ Drained /\ Fresh

\* The sets that are counted are finite, and their sizes are numbers.
LEMMA Finite ==
    /\ IsFiniteSet(Live) /\ Cardinality(Live) \in Nat
    /\ IsFiniteSet(Running) /\ Cardinality(Running) \in Nat
    /\ IsFiniteSet(Waiting) /\ Cardinality(Waiting) \in Nat
<1>1. Live \subseteq Conns /\ Running \subseteq Conns /\ Waiting \subseteq Conns
  BY DEF Live, Running, Waiting
<1>2. IsFiniteSet(Live) /\ IsFiniteSet(Running) /\ IsFiniteSet(Waiting)
  BY <1>1, FS_Subset, CapacityAssumption
<1> QED BY <1>2, FS_CardinalityType

\* Adding and removing one element.
LEMMA OneMore ==
    ASSUME NEW S, NEW x, IsFiniteSet(S), x \notin S
    PROVE  Cardinality(S \cup {x}) = Cardinality(S) + 1
BY FS_AddElement

LEMMA OneLess ==
    ASSUME NEW S, NEW x, IsFiniteSet(S), x \in S
    PROVE  Cardinality(S \ {x}) = Cardinality(S) - 1 /\ Cardinality(S) >= 1
<1>1. IsFiniteSet(S \ {x}) /\ Cardinality(S \ {x}) = Cardinality(S) - 1
  BY FS_RemoveElement
<1>2. Cardinality(S \ {x}) \in Nat /\ Cardinality(S) \in Nat
  BY <1>1, FS_CardinalityType
<1> QED BY <1>1, <1>2

\* A job that arrives at Admission is one of the MaxJobs, and the others cannot
\* fill both the active and the waiting places.
LEMMA RoomForOne == Inv => QueueNeverFull
<1> SUFFICES ASSUME Inv, NEW c \in Conns, job[c] = "spawned",
                    active >= MaxActive, queued >= MaxQueued
             PROVE  FALSE
  BY CapacityAssumption DEF QueueNeverFull, Inv, TypeOK
<1>1. Running \cap Waiting = {}
  BY DEF Running, Waiting
<1>2. /\ IsFiniteSet(Running \cup Waiting)
      /\ Cardinality(Running \cup Waiting) = Cardinality(Running) + Cardinality(Waiting)
  <2>1. Cardinality(Running \cap Waiting) = 0
    BY <1>1, FS_EmptySet
  <2>2. IsFiniteSet(Running \cup Waiting)
    BY Finite, FS_Union
  <2>3. Cardinality(Running \cup Waiting)
          = Cardinality(Running) + Cardinality(Waiting) - Cardinality(Running \cap Waiting)
    BY Finite, FS_Union
  <2> QED BY <2>1, <2>2, <2>3, Finite
<1>3. c \notin Running \cup Waiting
  BY DEF Running, Waiting
<1>4. Cardinality((Running \cup Waiting) \cup {c}) = Cardinality(Running \cup Waiting) + 1
  BY <1>2, <1>3, OneMore
<1>5. (Running \cup Waiting) \cup {c} \subseteq Live
  BY DEF Running, Waiting, Live
<1>6. Cardinality((Running \cup Waiting) \cup {c}) <= Cardinality(Live)
  BY <1>5, Finite, FS_Subset
<1>7. active + queued + 1 <= MaxJobs
  BY <1>2, <1>4, <1>6, Finite, CapacityAssumption DEF Inv, Accounting, JobsBounded
<1> QED BY <1>7, CapacityAssumption, FitAssumption DEF Inv, TypeOK

-----------------------------------------------------------------------------
LEMMA InitInv == Init => Inv
<1> SUFFICES ASSUME Init PROVE Inv
  OBVIOUS
<1>1. Live = {} /\ Running = {} /\ Waiting = {} /\ Open = {}
  BY DEF Init, Live, Running, Waiting, Open
<1>2. Cardinality({}) = 0
  BY FS_EmptySet
<1>3. 0 \in 0..MaxActive /\ 0 \in 0..MaxQueued /\ 0 <= MaxJobs
  BY CapacityAssumption
<1>4. TypeOK
  BY <1>3 DEF Init, TypeOK, Phases, ConnStates, JobStates
<1>5. Accounting /\ JobsBounded
  BY <1>1, <1>2, <1>3 DEF Init, Accounting, JobsBounded
<1>6. NoLostWakeup /\ Drained /\ Fresh
  BY DEF Init, NoLostWakeup, Drained, Fresh
<1> QED BY <1>4, <1>5, <1>6 DEF Inv

\* A step that changes no job, opens no connection and keeps Admission.
LEMMA QuietStep ==
    ASSUME Inv, UNCHANGED <<job, admission>>, conn' \in [Conns -> ConnStates],
           phase' \in Phases, fenced' \in BOOLEAN, logged' \in BOOLEAN, Drained', Fresh'
    PROVE  Inv'
<1>1. Live' = Live /\ Running' = Running /\ Waiting' = Waiting
  BY DEF Live, Running, Waiting
<1>2. TypeOK'
  BY DEF Inv, TypeOK, admission
<1>3. Accounting' /\ NoLostWakeup' /\ JobsBounded'
  BY <1>1 DEF Inv, Accounting, NoLostWakeup, JobsBounded, admission
<1> QED BY <1>2, <1>3 DEF Inv

\* A step of one job that stays alive, in the terms of the counted sets.
LEMMA JobStep ==
    ASSUME Inv, UNCHANGED <<phase, conn, closing, database>>,
           job' \in [Conns -> JobStates], Live' = Live,
           active' \in 0..MaxActive, queued' \in 0..MaxQueued,
           active' = Cardinality(Running'), queued' = Cardinality(Waiting'),
           NoLostWakeup', \A c \in Conns : job[c] = "none" => job'[c] = "none"
    PROVE  Inv'
<1>1. TypeOK'
  BY DEF Inv, TypeOK, database
<1>2. Open' = Open
  BY DEF Open
<1> QED BY <1>1, <1>2 DEF Inv, Accounting, JobsBounded, Drained, Fresh

LEMMA StepInv == Inv /\ [Next]_vars => Inv'
<1> SUFFICES ASSUME Inv, [Next]_vars PROVE Inv'
  OBVIOUS
<1>t. /\ job \in [Conns -> JobStates] /\ conn \in [Conns -> ConnStates]
      /\ active \in 0..MaxActive /\ queued \in 0..MaxQueued /\ closing \in BOOLEAN
      /\ active = Cardinality(Running) /\ queued = Cardinality(Waiting)
      /\ MaxActive \in Nat /\ MaxQueued \in Nat
  BY CapacityAssumption DEF Inv, TypeOK, Accounting
<1>1. ASSUME NEW c \in Conns, Accept(c) PROVE Inv'
  <2>1. conn' \in [Conns -> ConnStates]
    BY <1>1, <1>t DEF Accept, ConnStates
  <2>2. Drained' /\ Fresh'
    BY <1>1, <1>t DEF Accept, Inv, Drained, Fresh
  <2> QED BY <1>1, <2>1, <2>2, QuietStep DEF Accept, database, Inv, TypeOK
<1>2. ASSUME NEW c \in Conns, Dispatch(c) PROVE Inv'
  <2>1. conn' \in [Conns -> ConnStates] /\ c \in Open /\ job[c] = "none"
    BY <1>2, <1>t DEF Dispatch, ConnStates, Open, Inv, Fresh
  <2>2. Drained'
    BY <1>2, <2>1 DEF Dispatch, Inv, Drained
  <2>3. Fresh'
    BY <1>2, <1>t DEF Dispatch, Inv, Fresh
  <2>4. CASE job' = job
    BY <1>2, <2>1, <2>2, <2>3, <2>4, QuietStep DEF Dispatch, database, Inv, TypeOK
  <2>5. CASE Cardinality(Live) < MaxJobs /\ job' = [job EXCEPT ![c] = "spawned"]
    <3>1. Live' = Live \cup {c} /\ Running' = Running /\ Waiting' = Waiting /\ c \notin Live
      BY <2>1, <2>5, <1>t DEF Live, Running, Waiting
    <3>2. JobsBounded'
      BY <2>5, <3>1, Finite, OneMore, CapacityAssumption DEF JobsBounded
    <3>3. TypeOK'
      BY <1>2, <2>1, <2>5, <1>t DEF Dispatch, Inv, TypeOK, JobStates, admission, database
    <3>4. Accounting' /\ NoLostWakeup'
      BY <1>2, <2>5, <3>1, <1>t
         DEF Dispatch, Inv, Accounting, NoLostWakeup, admission
    <3> QED BY <2>2, <2>3, <3>2, <3>3, <3>4 DEF Inv
  <2> QED BY <1>2, <2>4, <2>5 DEF Dispatch
<1>3. ASSUME NEW c \in Conns, Respond(c) \/ Drop(c) PROVE Inv'
  <2>1. /\ conn' = [conn EXCEPT ![c] = "closed"]
        /\ UNCHANGED <<phase, job, admission, database>>
    BY <1>3 DEF Respond, Drop
  <2>2. conn' \in [Conns -> ConnStates]
    BY <2>1, <1>t DEF ConnStates
  <2>3. Open' \subseteq Open /\ Live' = Live
    BY <2>1, <1>t DEF Open, Live
  <2>4. Drained' /\ Fresh'
    BY <2>1, <2>3, <1>t DEF Inv, Drained, Fresh
  <2> QED BY <2>1, <2>2, <2>4, QuietStep DEF database, Inv, TypeOK
<1>4. ASSUME NEW c \in Conns, Reject(c) PROVE Inv'
  <2>1. Live' = Live /\ Running' = Running /\ Waiting' = Waiting
    BY <1>4, <1>t DEF Reject, Live, Running, Waiting
  <2> QED BY <1>4, <2>1, <1>t, JobStep DEF Reject, JobStates, Inv, NoLostWakeup, admission
<1>5. ASSUME NEW c \in Conns, Acquire(c) PROVE Inv'
  <2>1. CASE job' = [job EXCEPT ![c] = "returning"] /\ UNCHANGED admission
    <3>1. Live' = Live /\ Running' = Running /\ Waiting' = Waiting
      BY <1>5, <2>1, <1>t DEF Acquire, Live, Running, Waiting
    <3> QED BY <1>5, <2>1, <3>1, <1>t, JobStep
            DEF Acquire, JobStates, Inv, NoLostWakeup, admission
  <2>2. CASE /\ ~closing /\ active >= MaxActive /\ queued < MaxQueued
             /\ queued' = queued + 1
             /\ job' = [job EXCEPT ![c] = "asleep"]
             /\ UNCHANGED <<active, closing>>
    <3>1. /\ Live' = Live /\ Running' = Running /\ Waiting' = Waiting \cup {c}
          /\ c \notin Waiting
      BY <1>5, <2>2, <1>t DEF Acquire, Live, Running, Waiting
    <3>2. Cardinality(Waiting') = queued + 1
      BY <3>1, <1>t, Finite, OneMore
    <3>3. queued' \in 0..MaxQueued
      BY <2>2, <1>t
    <3> QED BY <1>5, <2>2, <3>1, <3>2, <3>3, <1>t, JobStep
            DEF Acquire, JobStates, NoLostWakeup
  <2>3. CASE /\ ~closing /\ active < MaxActive
             /\ active' = active + 1
             /\ job' = [job EXCEPT ![c] = "running"]
             /\ UNCHANGED <<queued, closing>>
    <3>1. /\ Live' = Live /\ Waiting' = Waiting /\ Running' = Running \cup {c}
          /\ c \notin Running
      BY <1>5, <2>3, <1>t DEF Acquire, Live, Running, Waiting
    <3>2. Cardinality(Running') = active + 1
      BY <3>1, <1>t, Finite, OneMore
    <3>3. active' \in 0..MaxActive
      BY <2>3, <1>t
    <3>4. NoLostWakeup'
      BY <2>3, <1>t DEF Inv, NoLostWakeup
    <3> QED BY <1>5, <2>3, <3>1, <3>2, <3>3, <3>4, <1>t, JobStep DEF Acquire, JobStates
  <2> QED BY <1>5, <2>1, <2>2, <2>3 DEF Acquire
<1>6. ASSUME NEW c \in Conns, Wake(c) \/ Sleep(c) PROVE Inv'
  <2>1. /\ \E x \in {"asleep", "awake"} : job' = [job EXCEPT ![c] = x]
        /\ job[c] \in {"asleep", "awake"}
        /\ UNCHANGED <<phase, conn, admission, database>>
    BY <1>6 DEF Wake, Sleep
  <2>2. Live' = Live /\ Running' = Running /\ Waiting' = Waiting
    BY <2>1, <1>t DEF Live, Running, Waiting
  <2>3. NoLostWakeup'
    BY <1>6, <1>t DEF Wake, Sleep, Inv, NoLostWakeup, admission
  <2> QED BY <2>1, <2>2, <2>3, <1>t, JobStep DEF JobStates, admission
<1>7. ASSUME NEW c \in Conns, Expire(c) PROVE Inv'
  <2>1. /\ Live' = Live /\ Running' = Running /\ Waiting' = Waiting \ {c} /\ c \in Waiting
    BY <1>7, <1>t DEF Expire, Live, Running, Waiting
  <2>2. Cardinality(Waiting') = queued - 1 /\ queued >= 1
    BY <2>1, <1>t, Finite, OneLess
  <2>3. queued' \in 0..MaxQueued /\ queued' = Cardinality(Waiting')
    BY <1>7, <2>2, <1>t DEF Expire
  <2>4. NoLostWakeup'
    BY <1>7, <1>t DEF Expire, Inv, NoLostWakeup
  <2> QED BY <1>7, <2>1, <2>3, <2>4, <1>t, JobStep DEF Expire, JobStates
<1>8. ASSUME NEW c \in Conns, Admit(c) PROVE Inv'
  <2>1. /\ Live' = Live /\ Running' = Running \cup {c} /\ Waiting' = Waiting \ {c}
        /\ c \in Waiting /\ c \notin Running
    BY <1>8, <1>t DEF Admit, Live, Running, Waiting
  <2>2. Cardinality(Waiting') = queued - 1 /\ queued >= 1
    BY <2>1, <1>t, Finite, OneLess
  <2>3. Cardinality(Running') = active + 1
    BY <2>1, <1>t, Finite, OneMore
  <2>4. /\ queued' \in 0..MaxQueued /\ queued' = Cardinality(Waiting')
        /\ active' \in 0..MaxActive /\ active' = Cardinality(Running')
    BY <1>8, <2>2, <2>3, <1>t DEF Admit
  <2>5. NoLostWakeup'
    BY <1>8, <1>t DEF Admit, Inv, NoLostWakeup
  <2> QED BY <1>8, <2>1, <2>4, <2>5, <1>t, JobStep DEF Admit, JobStates
<1>9. ASSUME NEW c \in Conns, Pass(c) \/ Write(c) \/ Fence(c) PROVE Inv'
  <2>1. /\ UNCHANGED <<phase, conn, admission>> /\ fenced' \in BOOLEAN /\ logged' \in BOOLEAN
        /\ c \in Running /\ \E x \in {"running", "passed"} : job' = [job EXCEPT ![c] = x]
    BY <1>9 DEF Pass, Write, Fence, Inv, TypeOK, database, Running
  <2>2. Live' = Live /\ Running' = Running /\ Waiting' = Waiting /\ Open' = Open
    BY <2>1, <1>t DEF Live, Running, Waiting, Open
  <2>3. job' \in [Conns -> JobStates]
    BY <2>1, <1>t DEF JobStates
  <2>4. TypeOK' /\ Accounting' /\ JobsBounded'
    BY <2>1, <2>2, <2>3 DEF Inv, TypeOK, Accounting, JobsBounded, admission
  <2>5. NoLostWakeup' /\ Drained' /\ Fresh'
    BY <2>1, <2>2, <1>t DEF Inv, NoLostWakeup, Drained, Fresh, admission, Running
  <2> QED BY <2>4, <2>5 DEF Inv
<1>10. ASSUME NEW c \in Conns, Finish(c) PROVE Inv'
  <2>1. job' = [x \in Conns |-> IF x = c THEN "returning"
                                ELSE IF job[x] = "asleep" THEN "awake" ELSE job[x]]
    BY <1>10, <1>t DEF Finish, Woken
  <2>2. job' \in [Conns -> JobStates]
    BY <2>1, <1>t DEF JobStates
  <2>3. /\ Live' = Live /\ Running' = Running \ {c} /\ Waiting' = Waiting /\ c \in Running
    BY <1>10, <2>1 DEF Finish, Live, Running, Waiting
  <2>4. Cardinality(Running') = active - 1 /\ active >= 1
    BY <2>3, <1>t, Finite, OneLess
  <2>5. active' \in 0..MaxActive /\ active' = Cardinality(Running')
    BY <1>10, <2>4, <1>t DEF Finish
  <2>6. NoLostWakeup'
    BY <2>1 DEF NoLostWakeup
  <2>7. \A x \in Conns : job[x] = "none" => job'[x] = "none"
    BY <1>10, <2>1 DEF Finish, Running
  <2> QED BY <1>10, <2>2, <2>3, <2>5, <2>6, <2>7, <1>t, JobStep DEF Finish
<1>11. ASSUME NEW c \in Conns, Return(c) PROVE Inv'
  <2>1. /\ Live' = Live \ {c} /\ Running' = Running /\ Waiting' = Waiting /\ c \in Live
    BY <1>11, <1>t DEF Return, Live, Running, Waiting
  <2>2. JobsBounded'
    BY <2>1, Finite, OneLess, CapacityAssumption DEF Inv, JobsBounded
  <2>3. conn' \in [Conns -> ConnStates] /\ job' \in [Conns -> JobStates]
    BY <1>11, <1>t DEF Return, ConnStates, JobStates
  <2>4. TypeOK'
    BY <1>11, <2>3 DEF Return, Inv, TypeOK, admission, database
  <2>5. Accounting' /\ NoLostWakeup'
    BY <1>11, <2>1, <1>t DEF Return, Inv, Accounting, NoLostWakeup, admission
  <2>6. Open' = Open
    BY <1>11, <1>t DEF Return, Open
  <2>7. Drained' /\ Fresh'
    BY <1>11, <2>1, <2>6, <1>t DEF Return, Inv, Drained, Fresh
  <2> QED BY <2>2, <2>4, <2>5, <2>7 DEF Inv
<1>12. CASE Unbind \/ Drain \/ Joined \/ JobsDone \/ Checkpoint
  <2>1. UNCHANGED <<conn, job, admission>> /\ fenced' \in BOOLEAN /\ logged' \in BOOLEAN
    BY <1>12 DEF Unbind, Drain, Joined, JobsDone, Checkpoint, database, Inv, TypeOK
  <2>2. phase' \in Phases
    BY <1>12 DEF Unbind, Drain, Joined, JobsDone, Checkpoint, To, Phases
  <2>3. Drained'
    BY <1>12, <2>1 DEF Unbind, Drain, Joined, JobsDone, Checkpoint, To, Inv, Drained, Open, Live
  <2>4. Fresh'
    BY <2>1 DEF Inv, Fresh
  <2> QED BY <2>1, <2>2, <2>3, <2>4, <1>t, QuietStep
<1>13. CASE BeginShutdown
  <2>1. job' = [x \in Conns |-> IF job[x] = "asleep" THEN "awake" ELSE job[x]]
    BY <1>13 DEF BeginShutdown, Woken
  <2>2. Live' = Live /\ Running' = Running /\ Waiting' = Waiting
    BY <2>1 DEF Live, Running, Waiting
  <2>3. TypeOK'
    BY <1>13, <2>1, <1>t DEF BeginShutdown, To, Inv, TypeOK, JobStates, Phases, database
  <2>4. Accounting' /\ NoLostWakeup' /\ JobsBounded'
    BY <1>13, <2>1, <2>2 DEF BeginShutdown, Inv, Accounting, NoLostWakeup, JobsBounded
  <2>5. Drained' /\ Fresh'
    BY <1>13, <2>1 DEF BeginShutdown, To, Inv, Drained, Fresh
  <2> QED BY <2>3, <2>4, <2>5 DEF Inv
<1>14. CASE Crash \/ Restart
  <2>1. /\ conn' = [c \in Conns |-> "closed"] /\ job' = [c \in Conns |-> "none"]
        /\ active' = 0 /\ queued' = 0 /\ closing' = FALSE /\ fenced' = FALSE
        /\ logged' \in {logged, FALSE} /\ phase' \in Phases
    BY <1>14 DEF Crash, Restart, Clear, To, Phases
  <2>2. Live' = {} /\ Running' = {} /\ Waiting' = {} /\ Open' = {}
    BY <2>1 DEF Live, Running, Waiting, Open
  <2>3. Cardinality({}) = 0
    BY FS_EmptySet
  <2>4. TypeOK'
    <3>1. 0 \in 0..MaxActive /\ 0 \in 0..MaxQueued
      BY <1>t
    <3> QED BY <2>1, <3>1 DEF Inv, TypeOK, ConnStates, JobStates
  <2>5. Accounting' /\ NoLostWakeup' /\ JobsBounded'
    BY <2>1, <2>2, <2>3, CapacityAssumption DEF Accounting, NoLostWakeup, JobsBounded
  <2>6. Drained' /\ Fresh'
    BY <2>1, <2>2 DEF Drained, Fresh
  <2> QED BY <2>4, <2>5, <2>6 DEF Inv
<1>15. CASE UNCHANGED vars
  <2>1. Live' = Live /\ Running' = Running /\ Waiting' = Waiting /\ Open' = Open
    BY <1>15 DEF vars, Live, Running, Waiting, Open
  <2> QED BY <1>15, <2>1
        DEF vars, admission, database, Inv, TypeOK, Accounting, NoLostWakeup, JobsBounded,
            Drained, Fresh
<1> QED
  BY <1>1, <1>2, <1>3, <1>4, <1>5, <1>6, <1>7, <1>8, <1>9, <1>10, <1>11, <1>12, <1>13,
     <1>14, <1>15 DEF Next, Job, Stop

\* The inductive invariant holds throughout.
LEMMA Invariance == Spec => []Inv
<1> QED BY InitInv, StepInv, PTL DEF Spec

-----------------------------------------------------------------------------
\* The counters of Admission stay in their bounds: at most MaxActive requests run
\* and at most MaxQueued wait.
THEOREM TypeCorrect == Spec => []TypeOK
<1>1. Inv => TypeOK
  BY DEF Inv
<1> QED BY <1>1, Invariance, PTL

\* Admission's counters are the numbers of running and waiting requests.
THEOREM CountersAreExact == Spec => []Accounting
<1>1. Inv => Accounting
  BY DEF Inv
<1> QED BY <1>1, Invariance, PTL

\* No request sleeps in Admission past the room or the stop it waits for.
THEOREM WakeupsArrive == Spec => []NoLostWakeup
<1>1. Inv => NoLostWakeup
  BY DEF Inv
<1> QED BY <1>1, Invariance, PTL

\* If the job permits do not exceed the places of Admission (36 = 4 + 32), its queue
\* is never found full.
THEOREM QueueSuffices == Spec => []QueueNeverFull
<1> QED BY RoomForOne, Invariance, PTL

\* begin_shutdown ends admission.
THEOREM StopIsFinal == Spec => NothingStartsAfterStop
<1>1. Inv /\ [Next]_vars => [closing => Running' \subseteq Running]_vars
  <2> SUFFICES ASSUME Inv, Next, closing PROVE Running' \subseteq Running
    BY DEF vars
  <2>1. job \in [Conns -> JobStates]
    BY DEF Inv, TypeOK
  <2> QED
    BY <2>1 DEF Next, Job, Stop, Running, Accept, Dispatch, Respond, Drop, Reject, Acquire,
       Wake, Sleep, Expire, Admit, Pass, Write, Fence, Finish, Woken, Return, Unbind,
       BeginShutdown, Drain, Joined, JobsDone, Checkpoint, Crash, Restart, Clear
<1> QED BY <1>1, Invariance, PTL DEF Spec, NothingStartsAfterStop

\* From acquire_many until the next start the log changes only by the shutdown
\* checkpoint, which runs when nothing else does, and not after a fence.
THEOREM CheckpointIsAlone == Spec => CheckpointAlone
<1>1. Inv /\ [Next]_vars
         => [(phase \in {"checkpoint", "exited"} /\ phase' # "serving" /\ logged' # logged)
               => /\ To("checkpoint", "exited") /\ ~logged'
                  /\ Live = {} /\ Open = {} /\ ~fenced]_vars
  <2> SUFFICES ASSUME Inv, Next, phase \in {"checkpoint", "exited"}, phase' # "serving",
                      logged' # logged
               PROVE  /\ To("checkpoint", "exited") /\ ~logged'
                      /\ Live = {} /\ Open = {} /\ ~fenced
    BY DEF vars
  <2>1. Live = {} /\ Open = {} /\ logged \in BOOLEAN
    BY DEF Inv, Drained, TypeOK
  <2>2. \A c \in Conns : ~Write(c) /\ ~Fence(c)
    BY <2>1 DEF Write, Fence, Live, Running
  <2>3. Checkpoint
    BY <2>2 DEF Next, Job, Stop, Accept, Dispatch, Respond, Drop, Reject, Acquire,
       Wake, Sleep, Expire, Admit, Pass, Finish, Return, Unbind,
       BeginShutdown, Drain, Joined, JobsDone, Crash, Restart, To, database
  <2> QED BY <2>1, <2>3 DEF Checkpoint
<1> QED BY <1>1, Invariance, PTL DEF Spec, CheckpointAlone
=============================================================================
