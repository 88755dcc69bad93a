---------------------------- MODULE BenchServing ----------------------------
(***************************************************************************)
(* The throughput measurement of a cell: run_throughput of                 *)
(* run_comparison.py, the process bench_serving it starts, that process's  *)
(* asyncio tasks, and the server's jobs, which go on when the task that    *)
(* asked for them has given up.                                            *)
(*                                                                         *)
(* Request 0 is the warmup (BENCH_SERVING_WARMUPS = 1), 1..N are measured. *)
(* Between two awaits a task runs alone, so each stretch is one action.    *)
(* The semaphore hands out its permits in no particular order here.        *)
(***************************************************************************)
EXTENDS Integers, FiniteSets

CONSTANTS
  N,      (* num_requests                                                  *)
  Permits (* max_concurrency, as run_throughput limits it                  *)

ASSUME BenchAssumption == N \in Nat \ {0} /\ Permits \in 1..N

VARIABLES
  func,    (* the backend's request function                               *)
  burst,   (* --request-rate inf: tasks are created without an await       *)
  pc,      (* where the main coroutine of bench_serving stands             *)
  task,    (* the coroutine of each request                                *)
  free,    (* the semaphore                                                *)
  job,     (* what the server does for each request                        *)
  metrics, (* the file metrics_path                                        *)
  row      (* what run_throughput has returned, or that it has raised      *)

vars == <<func, burst, pc, task, free, job, metrics, row>>

\* The request functions.  Some poll the job that the answer to their POST names;
\* for the others the POST, or a thread that run_prompt has, waits for the output.
\* All of them catch what goes wrong, but for what is not inside their try.
async_request_image_sglang == [polls |-> FALSE, raises |-> FALSE]
async_request_video_sglang == [polls |-> TRUE, raises |-> FALSE]
async_request_vllm_omni    == [polls |-> TRUE, raises |-> TRUE]
async_request_lightx2v     == [polls |-> TRUE, raises |-> FALSE]
async_request_comfyui      == [polls |-> FALSE, raises |-> FALSE]
async_request_fastvideo    == [polls |-> FALSE, raises |-> FALSE]
async_request_generic_http == [polls |-> FALSE, raises |-> FALSE]

RequestFuncs ==
  {async_request_image_sglang, async_request_video_sglang, async_request_vllm_omni,
   async_request_lightx2v, async_request_comfyui, async_request_fastvideo,
   async_request_generic_http}

Request  == 0..N
Measured == 1..N

Inside  == {"post", "sent", "poll"}
Settled == {"ok", "error"}

\* The file of an earlier run of the cell in the same log directory; one with
\* all requests completed is the one to be afraid of.
Earlier == [of |-> "earlier", whole |-> TRUE, completed |-> N, failed |-> 0]
NoFile  == [of |-> "nobody", whole |-> FALSE, completed |-> 0, failed |-> 0]

Metrics == [of : {"nobody", "earlier", "this"}, whole : BOOLEAN,
            completed : 0..N, failed : 0..N]

TypeOK ==
  /\ func \in RequestFuncs /\ burst \in BOOLEAN
  /\ pc \in {"wait", "warm", "create", "gather", "open", "dump", "exit0",
             "exit1", "end"}
  /\ task \in [Request -> {"none", "waiting", "raised", "cancelled"}
                            \cup Inside \cup Settled]
  /\ free \in 0..Permits
  /\ job \in [Request -> {"none", "working", "completed", "failed"}]
  /\ metrics \in Metrics
  /\ row \in {"none", "ok", "error", "raised"}

Init ==
  /\ func \in RequestFuncs /\ burst \in BOOLEAN
  /\ pc = "wait"
  /\ task = [r \in Request |-> "none"]
  /\ free = Permits
  /\ job = [r \in Request |-> "none"]
  /\ metrics \in {NoFile, Earlier}
  /\ row = "none"

-----------------------------------------------------------------------------
(* The main coroutine.                                                     *)

main == <<pc, metrics, row>>

Goto(from, to) == pc = from /\ pc' = to

\* The service answers, and the one warmup is awaited.
Ready ==
  /\ Goto("wait", "warm")
  /\ task' = [task EXCEPT ![0] = "waiting"]
  /\ UNCHANGED <<func, burst, free, job, metrics, row>>

\* It does not, or the arguments or the dataset are refused.
NotReady ==
  /\ Goto("wait", "exit1")
  /\ UNCHANGED <<func, burst, task, free, job, metrics, row>>

\* Whether the warmup succeeded is only logged.
Warmed ==
  /\ Goto("warm", "create")
  /\ task[0] \in Settled
  /\ UNCHANGED <<func, burst, task, free, job, metrics, row>>

Create(r) ==
  /\ pc = "create"
  /\ task[r] = "none" /\ \A q \in Measured : q < r => task[q] # "none"
  /\ task' = [task EXCEPT ![r] = "waiting"]
  /\ pc' = IF r = N THEN "gather" ELSE "create"
  /\ UNCHANGED <<func, burst, free, job, metrics, row>>

Gathered ==
  /\ Goto("gather", "open")
  /\ \A r \in Measured : task[r] \in Settled
  /\ UNCHANGED <<func, burst, task, free, job, metrics, row>>

\* An exception has left a task: it ends the run, and the other tasks are
\* cancelled.  The server is not told.
Broken ==
  /\ pc \in {"warm", "gather"} /\ pc' = "exit1"
  /\ \E r \in Request : task[r] = "raised"
  /\ task' = [r \in Request |-> IF task[r] \in Inside \cup {"waiting"}
                                THEN "cancelled" ELSE task[r]]
  /\ UNCHANGED <<func, burst, free, job, metrics, row>>

\* The output file is truncated before it is written.
Open ==
  /\ Goto("open", "dump")
  /\ metrics' = [NoFile EXCEPT !.of = "this"]
  /\ UNCHANGED <<func, burst, task, free, job, row>>

\* How many of the measured requests have this outcome.
Count(state) == Cardinality({r \in Measured : task[r] = state})

\* calculate_metrics, and json.dump.
Dump ==
  /\ Goto("dump", "exit0")
  /\ metrics' = [of |-> "this", whole |-> TRUE,
                 completed |-> Count("ok"), failed |-> Count("error")]
  /\ UNCHANGED <<func, burst, task, free, job, row>>

\* The process dies, or cannot write the file.
Dies ==
  /\ pc \notin {"exit0", "exit1", "end"}
  /\ pc' = "exit1"
  /\ UNCHANGED <<func, burst, task, free, job, metrics, row>>

-----------------------------------------------------------------------------
(* The task of one request, between its awaits.                            *)

\* The loop runs it: always but while the tasks are created in one stretch.
Runs(r) ==
  \/ r = 0 /\ pc = "warm"
  \/ r > 0 /\ (pc = "gather" \/ (pc = "create" /\ ~burst))

\* It gets a permit, and starts its clock.
Enter(r) ==
  /\ Runs(r) /\ task[r] = "waiting" /\ free > 0
  /\ task' = [task EXCEPT ![r] = "post"]
  /\ free' = free - 1
  /\ UNCHANGED <<func, burst, job, main>>

\* Mutant of Leave: a request that has failed keeps its permit.
LeaveIfOk(r, outcome) ==
  /\ task' = [task EXCEPT ![r] = outcome]
  /\ free' = IF outcome = "ok" THEN free + 1 ELSE free
  /\ UNCHANGED <<func, burst, job, main>>

\* It returns its output, or raises: `async with` gives the permit back.
Leave(r, outcome) ==
  /\ task' = [task EXCEPT ![r] = outcome]
  /\ free' = free + 1
  /\ UNCHANGED <<func, burst, job, main>>

\* The request is sent and the server begins to work on it.
Send(r) ==
  /\ Runs(r) /\ task[r] = "post"
  /\ task' = [task EXCEPT ![r] = "sent"]
  /\ job' = [job EXCEPT ![r] = "working"]
  /\ UNCHANGED <<func, burst, free, main>>

\* A reference image is missing, or the server refuses the request.
Refused(r) == Runs(r) /\ task[r] = "post" /\ Leave(r, "error")

\* vllm-omni opens its reference image before its try, and there may be none.
Raises(r) == Runs(r) /\ task[r] = "post" /\ func.raises /\ Leave(r, "raised")

\* Mutant of Accepted: only the POST is inside `async with semaphore`.
AcceptedOutside(r) ==
  /\ Runs(r) /\ task[r] = "sent" /\ func.polls
  /\ task' = [task EXCEPT ![r] = "poll"]
  /\ free' = free + 1
  /\ UNCHANGED <<func, burst, job, main>>

\* The POST is answered with the number of a job.
Accepted(r) ==
  /\ Runs(r) /\ task[r] = "sent" /\ func.polls
  /\ task' = [task EXCEPT ![r] = "poll"]
  /\ UNCHANGED <<func, burst, free, job, main>>

\* The answer to the POST is the output, or an error.
Answered(r) ==
  /\ Runs(r) /\ task[r] = "sent" /\ ~func.polls
  /\ \/ job[r] = "completed" /\ Leave(r, "ok")
     \/ job[r] \in {"completed", "failed"} /\ Leave(r, "error")

\* A status poll says the job is over; otherwise it is asked again.
Polled(r) ==
  /\ Runs(r) /\ task[r] = "poll"
  /\ \/ job[r] = "completed" /\ Leave(r, "ok")
     \/ job[r] = "failed" /\ Leave(r, "error")

\* A POST or a status poll times out, fails, or is answered with nothing of
\* use.  The request is over and the server's job may not be.
Lost(r) == Runs(r) /\ task[r] \in {"sent", "poll"} /\ Leave(r, "error")

\* The server ends a job.
JobEnds(r) ==
  /\ job[r] = "working"
  /\ \E e \in {"completed", "failed"} : job' = [job EXCEPT ![r] = e]
  /\ UNCHANGED <<func, burst, task, free, main>>

-----------------------------------------------------------------------------
(* run_throughput.                                                         *)

\* subprocess.run kills the process and raises TimeoutExpired.
Timeout ==
  /\ pc \notin {"exit0", "exit1", "end"}
  /\ pc' = "end"
  /\ row' = "raised"
  /\ UNCHANGED <<func, burst, task, free, job, metrics>>

\* Mutant of Failed: the metrics file is read whatever the exit code is.
AnyCode ==
  /\ Goto("exit1", "end")
  /\ row' = IF metrics.whole /\ metrics.completed = N THEN "ok" ELSE "error"
  /\ UNCHANGED <<func, burst, task, free, job, metrics>>

\* A row with an error, "bench_serving failed".
Failed ==
  /\ Goto("exit1", "end")
  /\ row' = "error"
  /\ UNCHANGED <<func, burst, task, free, job, metrics>>

\* The metrics are read; a row of which some requests failed has an error too.
Returned ==
  /\ Goto("exit0", "end")
  /\ row' = IF metrics.failed = 0 /\ metrics.completed = N THEN "ok" ELSE "error"
  /\ UNCHANGED <<func, burst, task, free, job, metrics>>

-----------------------------------------------------------------------------
TaskStep(r) ==
  \/ Enter(r) \/ Send(r) \/ Refused(r) \/ Raises(r)
  \/ Accepted(r) \/ Answered(r) \/ Polled(r) \/ Lost(r)

MainStep ==
  \/ Ready \/ NotReady \/ Warmed
  \/ \E r \in Measured : Create(r)
  \/ Gathered \/ Broken \/ Open \/ Dump

Next ==
  \/ MainStep \/ Dies
  \/ \E r \in Request : TaskStep(r) \/ JobEnds(r)
  \/ Timeout \/ Failed \/ Returned

Spec == Init /\ [][Next]_vars

\* The event loop runs what can run, and the server ends the jobs it accepts.
\* That the parent's timeout comes is not assumed.
FairSpec ==
  /\ Spec
  /\ WF_vars(MainStep)
  /\ \A r \in Request : WF_vars(TaskStep(r)) /\ WF_vars(JobEnds(r))

-----------------------------------------------------------------------------
(* Properties.                                                             *)

\* A throughput row without an error is about this measurement: every one of
\* its requests was completed by the server, and the numbers were read from the
\* file this process wrote, not from one an earlier run has left.
OkRowIsOwn ==
  row = "ok" =>
    /\ metrics.of = "this" /\ metrics.whole
    /\ \A r \in Measured : job[r] = "completed"

\* As long as no request was given up, the server never works on more requests
\* than the row's max_concurrency, whose throughput it reports: neither polled
\* jobs nor the warmup run beside a full set of measured ones.
ConcurrencyKept ==
  (\A r \in Request : task[r] \notin {"error", "raised", "cancelled"}) =>
    Cardinality({r \in Request : job[r] = "working"}) <= Permits

\* With a server that ends its jobs, gather ends without the parent's timeout,
\* however many requests fail, and in whatever order: no permit is lost.
GatherEnds == pc = "gather" ~> pc # "gather"

=============================================================================
