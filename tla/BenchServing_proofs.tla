------------------------- MODULE BenchServing_proofs -------------------------
(***************************************************************************)
(* What holds of a throughput measurement for any number of requests and   *)
(* of permits.                                                             *)
(***************************************************************************)
EXTENDS BenchServing, FiniteSetTheorems, TLAPS

-----------------------------------------------------------------------------
(* The inductive invariant.                                                *)

\* The requests that hold a permit.
Busy == {r \in Request : task[r] \in Inside}

Types ==
  /\ func \in RequestFuncs /\ burst \in BOOLEAN
  /\ pc \in {"wait", "warm", "create", "gather", "open", "dump", "exit0",
             "exit1", "end"}
  /\ task \in [Request -> {"none", "waiting", "raised", "cancelled"}
                            \cup Inside \cup Settled]
  /\ free \in Nat
  /\ job \in [Request -> {"none", "working", "completed", "failed"}]
  /\ metrics \in Metrics
  /\ row \in {"none", "ok", "error", "raised"}

\* Every permit is free or held by a request, until requests are cancelled,
\* which happens last.
PermitsAt ==
  \/ pc \in {"exit1", "end"} /\ \E r \in Request : task[r] = "cancelled"
  \/ /\ \A r \in Request : task[r] # "cancelled"
     /\ Cardinality(Busy) + free = Permits

\* How far the server is with a request, from how far its task is.
JobAt ==
  \A r \in Request :
    /\ task[r] \in {"none", "waiting", "post", "raised"} => job[r] = "none"
    /\ task[r] = "ok" => job[r] = "completed"

MetricsAt ==
  /\ metrics.completed \in 0..N
  /\ pc = "exit0" => metrics.of = "this" /\ metrics.whole
                     /\ metrics.completed = Count("ok")

RowAt ==
  row = "ok" => /\ pc = "end" /\ metrics.of = "this" /\ metrics.whole
                /\ \A r \in Measured : task[r] = "ok"

FreeAt == free \in 0..Permits

StartAt == pc = "wait" => task[0] = "none"

BenchInv ==
  Types /\ FreeAt /\ StartAt /\ PermitsAt /\ JobAt /\ MetricsAt /\ RowAt

-----------------------------------------------------------------------------
\* The requests are finitely many, and so are those that hold a permit.
LEMMA Finite ==
  /\ IsFiniteSet(Request) /\ IsFiniteSet(Measured) /\ Cardinality(Measured) = N
  /\ IsFiniteSet(Busy) /\ Cardinality(Busy) \in Nat
<1>1. IsFiniteSet(Request) /\ IsFiniteSet(Measured) /\ Cardinality(Measured) = N
  BY BenchAssumption, FS_Interval DEF Request, Measured
<1>2. Busy \in SUBSET Request
  BY DEF Busy
<1>. QED
  BY <1>1, <1>2, FS_Subset, FS_CardinalityType

\* What can be counted is at most N, and N only if it is everything.
LEMMA CountIs ==
  ASSUME NEW state
  PROVE  /\ Count(state) \in 0..N
         /\ Count(state) = N => \A r \in Measured : task[r] = state
<1>. DEFINE S == {r \in Measured : task[r] = state}
<1>1. S \in SUBSET Measured /\ Count(state) = Cardinality(S)
  BY DEF Count
<1>2. IsFiniteSet(S) /\ Cardinality(S) <= N /\ (Cardinality(S) = N => Measured = S)
  BY <1>1, Finite, FS_Subset
<1>3. Cardinality(S) \in Nat
  BY <1>2, FS_CardinalityType
<1>. QED
  BY <1>1, <1>2, <1>3, BenchAssumption

\* The ends of a task's time with its permit: only where it holds one, "ok" only
\* for a completed job, and "raised" only before the request is sent.
LEMMA Leaves ==
  ASSUME NEW r \in Request,
         Refused(r) \/ Raises(r) \/ Answered(r) \/ Polled(r) \/ Lost(r)
  PROVE  /\ Runs(r) /\ task[r] \in Inside
         /\ \E outcome \in {"ok", "error", "raised"} :
              /\ Leave(r, outcome)
              /\ outcome = "ok" => job[r] = "completed"
              /\ outcome = "raised" => task[r] = "post"
BY DEF Refused, Raises, Answered, Polled, Lost, Inside

\* A request that ends gives back the one permit it held, however it ends.
LEMMA LeaveStep ==
  ASSUME BenchInv, NEW r \in Request, Runs(r), task[r] \in Inside,
         NEW outcome \in {"ok", "error", "raised"}, Leave(r, outcome),
         outcome = "ok" => job[r] = "completed",
         outcome = "raised" => task[r] = "post"
  PROVE  BenchInv'
<1>1. /\ task' = [task EXCEPT ![r] = outcome] /\ free' = free + 1
      /\ job' = job /\ pc' = pc /\ metrics' = metrics /\ row' = row
      /\ func' = func /\ burst' = burst
  BY DEF Leave, main
<1>2. pc \in {"warm", "create", "gather"}
  BY DEF Runs
<1>3. /\ \A q \in Request : task[q] # "cancelled"
      /\ Cardinality(Busy) + free = Permits
  BY <1>2 DEF BenchInv, PermitsAt
<1>4. task \in [Request -> {"none", "waiting", "raised", "cancelled"}
                             \cup Inside \cup Settled]
  BY DEF BenchInv, Types
<1>5. Types'
  BY <1>1, <1>4 DEF BenchInv, Types, Settled
<1>6. r \in Busy /\ Busy' = Busy \ {r}
  BY <1>1, <1>4 DEF Busy, Inside
<1>7. Cardinality(Busy') = Cardinality(Busy) - 1
  BY <1>6, Finite, FS_RemoveElement
<1>8. Cardinality(Busy') \in Nat
  BY <1>6, Finite, FS_RemoveElement, FS_CardinalityType
<1>9. FreeAt' /\ Cardinality(Busy') + free' = Permits
  BY <1>1, <1>3, <1>7, <1>8, Finite, BenchAssumption DEF BenchInv, FreeAt
<1>10. PermitsAt'
  BY <1>1, <1>3, <1>4, <1>9 DEF PermitsAt
<1>11. JobAt'
  BY <1>1, <1>4 DEF BenchInv, JobAt, Inside
<1>12. MetricsAt' /\ RowAt' /\ StartAt'
  BY <1>1, <1>2 DEF BenchInv, MetricsAt, RowAt, StartAt
<1>. QED
  BY <1>5, <1>9, <1>10, <1>11, <1>12 DEF BenchInv

\* A permit passes from the semaphore to a request.
LEMMA EnterStep ==
  ASSUME BenchInv, NEW r \in Request, Enter(r)
  PROVE  BenchInv'
<1>1. /\ task' = [task EXCEPT ![r] = "post"] /\ free' = free - 1
      /\ task[r] = "waiting" /\ free > 0
      /\ job' = job /\ pc' = pc /\ metrics' = metrics /\ row' = row
      /\ func' = func /\ burst' = burst
  BY DEF Enter, main
<1>2. pc \in {"warm", "create", "gather"}
  BY DEF Enter, Runs
<1>3. /\ \A q \in Request : task[q] # "cancelled"
      /\ Cardinality(Busy) + free = Permits
  BY <1>2 DEF BenchInv, PermitsAt
<1>4. task \in [Request -> {"none", "waiting", "raised", "cancelled"}
                             \cup Inside \cup Settled]
  BY DEF BenchInv, Types
<1>5. FreeAt' /\ free' \in Nat
  BY <1>1, BenchAssumption DEF BenchInv, Types, FreeAt
<1>6. Types'
  BY <1>1, <1>4, <1>5 DEF BenchInv, Types, Inside
<1>7. r \notin Busy /\ Busy' = Busy \cup {r}
  BY <1>1, <1>4 DEF Busy, Inside
<1>8. Cardinality(Busy') = Cardinality(Busy) + 1
  BY <1>7, Finite, FS_AddElement
<1>9. Cardinality(Busy') + free' = Permits
  BY <1>1, <1>3, <1>8, Finite, BenchAssumption DEF BenchInv, Types
<1>10. PermitsAt'
  BY <1>1, <1>3, <1>4, <1>9 DEF PermitsAt
<1>11. JobAt'
  BY <1>1, <1>4 DEF BenchInv, JobAt, Inside
<1>12. MetricsAt' /\ RowAt' /\ StartAt'
  BY <1>1, <1>2 DEF BenchInv, MetricsAt, RowAt, StartAt
<1>. QED
  BY <1>5, <1>6, <1>10, <1>11, <1>12 DEF BenchInv

\* A request that has its permit is sent, or its POST is answered with a job.
LEMMA SendStep ==
  ASSUME BenchInv, NEW r \in Request, Send(r) \/ Accepted(r)
  PROVE  BenchInv'
<1>1. /\ \/ /\ task[r] = "post" /\ task' = [task EXCEPT ![r] = "sent"]
            /\ job' = [job EXCEPT ![r] = "working"]
         \/ /\ task[r] = "sent" /\ task' = [task EXCEPT ![r] = "poll"]
            /\ job' = job
      /\ free' = free /\ pc' = pc /\ metrics' = metrics /\ row' = row
      /\ func' = func /\ burst' = burst
  BY DEF Send, Accepted, main
<1>2. pc \in {"warm", "create", "gather"}
  BY DEF Send, Accepted, Runs
<1>3. /\ \A q \in Request : task[q] # "cancelled"
      /\ Cardinality(Busy) + free = Permits
  BY <1>2 DEF BenchInv, PermitsAt
<1>4. /\ task \in [Request -> {"none", "waiting", "raised", "cancelled"}
                                \cup Inside \cup Settled]
      /\ job \in [Request -> {"none", "working", "completed", "failed"}]
  BY DEF BenchInv, Types
<1>5. Types' /\ FreeAt'
  BY <1>1, <1>4 DEF BenchInv, Types, FreeAt, Inside
<1>6. Busy' = Busy
  BY <1>1, <1>4 DEF Busy, Inside
<1>7. PermitsAt'
  BY <1>1, <1>3, <1>4, <1>6 DEF PermitsAt
<1>8. JobAt'
  BY <1>1, <1>4 DEF BenchInv, JobAt
<1>9. MetricsAt' /\ RowAt' /\ StartAt'
  BY <1>1, <1>2 DEF BenchInv, MetricsAt, RowAt, StartAt
<1>. QED
  BY <1>5, <1>7, <1>8, <1>9 DEF BenchInv

\* The server ends a job: no task and no permit moves.
LEMMA JobStep ==
  ASSUME BenchInv, NEW r \in Request, JobEnds(r)
  PROVE  BenchInv'
<1>1. /\ job[r] = "working" /\ task' = task /\ free' = free /\ pc' = pc
      /\ metrics' = metrics /\ row' = row /\ func' = func /\ burst' = burst
      /\ \E e \in {"completed", "failed"} : job' = [job EXCEPT ![r] = e]
  BY DEF JobEnds, main
<1>2. job \in [Request -> {"none", "working", "completed", "failed"}]
  BY DEF BenchInv, Types
<1>3. Types' /\ FreeAt'
  BY <1>1, <1>2 DEF BenchInv, Types, FreeAt
<1>4. PermitsAt' /\ MetricsAt' /\ RowAt' /\ StartAt'
  BY <1>1 DEF BenchInv, PermitsAt, Busy, MetricsAt, Count, RowAt, StartAt
<1>5. JobAt'
  BY <1>1, <1>2 DEF BenchInv, JobAt
<1>. QED
  BY <1>3, <1>4, <1>5 DEF BenchInv

\* A task that does not exist yet is made: nobody gets or loses a permit.
LEMMA CreateStep ==
  ASSUME BenchInv, Ready \/ \E r \in Measured : Create(r)
  PROVE  BenchInv'
<1>1. PICK r \in Request :
        /\ task[r] = "none"
        /\ task' = [task EXCEPT ![r] = "waiting"]
        /\ free' = free /\ job' = job /\ metrics' = metrics /\ row' = row
        /\ func' = func /\ burst' = burst
        /\ pc \in {"wait", "create"} /\ pc' \in {"warm", "create", "gather"}
  BY BenchAssumption DEF Ready, Create, Goto, Request, Measured, BenchInv, StartAt
<1>2. task \in [Request -> {"none", "waiting", "raised", "cancelled"}
                             \cup Inside \cup Settled]
  BY DEF BenchInv, Types
<1>3. /\ \A q \in Request : task[q] # "cancelled"
      /\ Cardinality(Busy) + free = Permits
  BY <1>1 DEF BenchInv, PermitsAt
<1>4. Types' /\ FreeAt' /\ StartAt'
  BY <1>1, <1>2 DEF BenchInv, Types, FreeAt, StartAt
<1>5. Busy' = Busy
  BY <1>1, <1>2 DEF Busy, Inside
<1>6. PermitsAt'
  BY <1>1, <1>2, <1>3, <1>5 DEF PermitsAt
<1>7. JobAt'
  BY <1>1, <1>2 DEF BenchInv, JobAt
<1>8. MetricsAt' /\ RowAt'
  BY <1>1, <1>2 DEF BenchInv, MetricsAt, RowAt
<1>. QED
  BY <1>4, <1>6, <1>7, <1>8 DEF BenchInv

\* Steps that leave the tasks and the server alone.
LEMMA MainOnlyStep ==
  ASSUME BenchInv, UNCHANGED <<func, burst, task, free, job>>,
         pc' \in {"create", "open", "dump", "exit0", "exit1", "end"},
         pc \in {"exit1", "end"} => pc' \in {"exit1", "end"},
         metrics' \in Metrics, row' \in {"none", "ok", "error", "raised"},
         MetricsAt', RowAt'
  PROVE  BenchInv'
<1>1. Types' /\ FreeAt' /\ StartAt'
  BY DEF BenchInv, Types, FreeAt, StartAt
<1>2. PermitsAt' /\ JobAt'
  BY DEF BenchInv, PermitsAt, Busy, JobAt
<1>. QED
  BY <1>1, <1>2 DEF BenchInv

\* The run ends on an exception and cancels what is left: the only step after
\* which permits may be missing.
LEMMA BrokenStep ==
  ASSUME BenchInv, Broken
  PROVE  BenchInv'
<1>1. /\ task' = [r \in Request |-> IF task[r] \in Inside \cup {"waiting"}
                                    THEN "cancelled" ELSE task[r]]
      /\ pc \in {"warm", "gather"} /\ pc' = "exit1" /\ free' = free
      /\ job' = job /\ metrics' = metrics /\ row' = row
      /\ func' = func /\ burst' = burst
  BY DEF Broken
<1>2. /\ \A q \in Request : task[q] # "cancelled"
      /\ Cardinality(Busy) + free = Permits
  BY <1>1 DEF BenchInv, PermitsAt
<1>3. Types' /\ FreeAt' /\ StartAt'
  BY <1>1 DEF BenchInv, Types, FreeAt, StartAt
<1>4. PermitsAt'
  <2>1. CASE \E r \in Request : task[r] \in Inside \cup {"waiting"}
    BY <1>1, <2>1 DEF PermitsAt
  <2>2. CASE \A r \in Request : task[r] \notin Inside \cup {"waiting"}
    <3>1. \A r \in Request : task'[r] = task[r]
      BY <1>1, <2>2
    <3>2. Busy' = Busy
      BY <3>1 DEF Busy
    <3>. QED
      BY <1>1, <1>2, <3>1, <3>2 DEF PermitsAt
  <2>. QED
    BY <2>1, <2>2
<1>5. JobAt'
  BY <1>1 DEF BenchInv, JobAt
<1>6. MetricsAt' /\ RowAt'
  BY <1>1 DEF BenchInv, MetricsAt, RowAt
<1>. QED
  BY <1>3, <1>4, <1>5, <1>6 DEF BenchInv

\* Every step of Next, one case per action, keeps the invariant.
LEMMA BenchInvStep == BenchInv /\ [Next]_vars => BenchInv'
<1>. SUFFICES ASSUME BenchInv, [Next]_vars PROVE BenchInv'
  OBVIOUS
<1>. USE DEF Goto
<1>1. CASE Ready \/ \E r \in Measured : Create(r)
  BY <1>1, CreateStep
<1>2. CASE NotReady \/ Warmed \/ Gathered \/ Dies
  <2>1. /\ UNCHANGED <<func, burst, task, free, job, metrics, row>>
        /\ pc' \in {"create", "open", "exit1"}
        /\ pc \notin {"exit0", "exit1", "end"}
    BY <1>2 DEF NotReady, Warmed, Gathered, Dies, BenchInv, Types
  <2>2. MetricsAt' /\ RowAt'
    BY <2>1 DEF BenchInv, MetricsAt, RowAt
  <2>3. metrics' \in Metrics /\ row' \in {"none", "ok", "error", "raised"}
    BY <2>1 DEF BenchInv, Types
  <2>. QED
    BY <2>1, <2>2, <2>3, MainOnlyStep
<1>3. CASE Broken
  BY <1>3, BrokenStep
<1>4. CASE Open
  <2>1. /\ UNCHANGED <<func, burst, task, free, job, row>>
        /\ pc = "open" /\ pc' = "dump"
        /\ metrics' = [of |-> "this", whole |-> FALSE, completed |-> 0, failed |-> 0]
    BY <1>4 DEF Open, NoFile
  <2>2. metrics' \in Metrics /\ metrics'.completed \in 0..N
    BY <2>1, BenchAssumption DEF Metrics
  <2>3. MetricsAt' /\ RowAt'
    BY <2>1, <2>2 DEF BenchInv, MetricsAt, RowAt
  <2>4. row' \in {"none", "ok", "error", "raised"}
    BY <2>1 DEF BenchInv, Types
  <2>. QED
    BY <2>1, <2>2, <2>3, <2>4, MainOnlyStep
<1>5. CASE Dump
  <2>1. /\ UNCHANGED <<func, burst, task, free, job, row>>
        /\ pc = "dump" /\ pc' = "exit0"
        /\ metrics' = [of |-> "this", whole |-> TRUE,
                       completed |-> Count("ok"), failed |-> Count("error")]
    BY <1>5 DEF Dump
  <2>2. metrics' \in Metrics
    BY <2>1, CountIs DEF Metrics
  <2>3. Count("ok")' = Count("ok")
    BY <2>1 DEF Count
  <2>4. MetricsAt' /\ RowAt'
    BY <2>1, <2>3, CountIs DEF BenchInv, MetricsAt, RowAt
  <2>5. row' \in {"none", "ok", "error", "raised"}
    BY <2>1 DEF BenchInv, Types
  <2>. QED
    BY <2>1, <2>2, <2>4, <2>5, MainOnlyStep
<1>6. CASE Timeout \/ Failed
  <2>1. /\ UNCHANGED <<func, burst, task, free, job, metrics>>
        /\ pc' = "end" /\ row' \in {"raised", "error"}
    BY <1>6 DEF Timeout, Failed
  <2>2. MetricsAt' /\ RowAt' /\ metrics' \in Metrics
    BY <2>1 DEF BenchInv, Types, MetricsAt, RowAt
  <2>. QED
    BY <2>1, <2>2, MainOnlyStep
<1>7. CASE Returned
  <2>1. /\ UNCHANGED <<func, burst, task, free, job, metrics>>
        /\ pc = "exit0" /\ pc' = "end" /\ row' \in {"ok", "error"}
        /\ row' = "ok" => metrics.completed = N
    BY <1>7 DEF Returned
  <2>2. row' = "ok" => \A r \in Measured : task[r] = "ok"
    BY <2>1, CountIs DEF BenchInv, MetricsAt
  <2>3. MetricsAt' /\ RowAt' /\ metrics' \in Metrics
    BY <2>1, <2>2 DEF BenchInv, Types, MetricsAt, RowAt
  <2>. QED
    BY <2>1, <2>3, MainOnlyStep
<1>8. CASE \E r \in Request : TaskStep(r)
  <2>. PICK r \in Request : TaskStep(r)
    BY <1>8
  <2>1. CASE Enter(r)
    BY <2>1, EnterStep
  <2>2. CASE Send(r) \/ Accepted(r)
    BY <2>2, SendStep
  <2>3. CASE Refused(r) \/ Raises(r) \/ Answered(r) \/ Polled(r) \/ Lost(r)
    BY <2>3, Leaves, LeaveStep
  <2>. QED
    BY <2>1, <2>2, <2>3 DEF TaskStep
<1>9. CASE \E r \in Request : JobEnds(r)
  BY <1>9, JobStep
<1>10. CASE UNCHANGED vars
  <2>1. Count("ok")' = Count("ok") /\ Busy' = Busy
    BY <1>10 DEF vars, Count, Busy
  <2>. QED
    BY <1>10, <2>1 DEF vars, BenchInv, Types, FreeAt, StartAt, PermitsAt, JobAt,
       MetricsAt, RowAt
<1>. QED
  BY <1>1, <1>2, <1>3, <1>4, <1>5, <1>6, <1>7, <1>8, <1>9, <1>10
     DEF Next, MainStep

\* It holds before the service is asked for.
LEMMA BenchInvInit == Init => BenchInv
<1>. SUFFICES ASSUME Init PROVE BenchInv
  OBVIOUS
<1>1. NoFile \in Metrics /\ Earlier \in Metrics
  BY BenchAssumption DEF NoFile, Earlier, Metrics
<1>2. NoFile.completed \in 0..N /\ Earlier.completed \in 0..N
  BY BenchAssumption DEF NoFile, Earlier
<1>3. metrics \in Metrics /\ MetricsAt
  BY <1>1, <1>2 DEF Init, MetricsAt
<1>4. Permits \in Nat /\ Permits \in 0..Permits
  BY BenchAssumption
<1>5. Busy = {}
  BY DEF Init, Busy, Inside
<1>6. Cardinality(Busy) = 0
  BY <1>5, FS_EmptySet
<1>7. Types /\ FreeAt /\ StartAt
  BY <1>3, <1>4, BenchAssumption DEF Init, Types, FreeAt, StartAt, Request
<1>8. PermitsAt
  BY <1>4, <1>6 DEF Init, PermitsAt
<1>9. JobAt /\ RowAt
  BY DEF Init, JobAt, RowAt
<1>. QED
  BY <1>3, <1>7, <1>8, <1>9 DEF BenchInv

\* The invariant the results below rest on.
THEOREM BenchInvHolds == Spec => []BenchInv
BY BenchInvInit, BenchInvStep, PTL DEF Spec

\* The state is well formed, and the semaphore never has more permits than it
\* was made with, for any number of requests and permits.
THEOREM TypeCorrect == Spec => []TypeOK
<1>1. BenchInv => TypeOK
  BY DEF BenchInv, Types, FreeAt, TypeOK
<1>. QED
  BY <1>1, BenchInvHolds, PTL

\* A throughput row without an error is read from this process's own file, and
\* the server has completed every one of its requests.
THEOREM RowIsOwn == Spec => []OkRowIsOwn
<1>1. BenchInv => OkRowIsOwn
  BY DEF BenchInv, RowAt, JobAt, OkRowIsOwn, Measured, Request
<1>. QED
  BY <1>1, BenchInvHolds, PTL

\* Until a request is given up, the server works on no more requests at a time
\* than the row's max_concurrency says.
THEOREM ConcurrencyIsKept == Spec => []ConcurrencyKept
<1>1. ASSUME BenchInv PROVE ConcurrencyKept
  <2>. DEFINE Working == {r \in Request : job[r] = "working"}
  <2>. SUFFICES ASSUME \A r \in Request :
                         task[r] \notin {"error", "raised", "cancelled"}
                PROVE  Cardinality(Working) <= Permits
    BY DEF ConcurrencyKept
  <2>1. Cardinality(Busy) + free = Permits
    BY <1>1 DEF BenchInv, PermitsAt
  <2>2. Working \in SUBSET Busy
    BY <1>1 DEF BenchInv, Types, JobAt, Busy, Inside, Settled
  <2>3. Cardinality(Working) <= Cardinality(Busy) /\ IsFiniteSet(Working)
    BY <2>2, Finite, FS_Subset
  <2>4. Cardinality(Working) \in Nat /\ Cardinality(Busy) \in Nat
    BY <2>3, Finite, FS_CardinalityType
  <2>5. free \in Nat /\ Permits \in Nat
    BY <1>1, BenchAssumption DEF BenchInv, Types
  <2>. HIDE DEF Working
  <2>. QED
    BY <2>1, <2>3, <2>4, <2>5
<1>. QED
  BY <1>1, BenchInvHolds, PTL

=============================================================================
