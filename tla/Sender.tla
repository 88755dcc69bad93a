------------------------------ MODULE Sender ------------------------------
(* The requests of a cell on the wire (run_comparison.py, the senders):    *)
(* warmups, whose failure is not fatal, then measured requests, the first  *)
(* failure of which ends the series; one at a time, each timed by its      *)
(* sender. A sender posts and waits for the answer, or submits a job and   *)
(* polls its status, or submits a prompt and listens to its events. The    *)
(* server works through its jobs one after another, and goes on with a job *)
(* whose request has been given up.                                        *)
(* Time counts from the moment a request's clock starts. Nothing happens   *)
(* late on the client: it acts when its timer rings. The timeouts are for  *)
(* an answer to begin, and then from byte to byte: how long all of it      *)
(* takes to read is up to the server.                                      *)
EXTENDS Naturals, Sequences, SequencesExt

CONSTANTS
    Senders,            \* the senders explored
    Audio,              \* does the case ask for a soundtrack?
    Work,               \* what a job may take
    Reading,            \* what reading an answer may take
    REQUEST_TIMEOUT,    \* of a request
    PromptTimeout,      \* of ComfyUI's POST
    GetTimeout,         \* of one status check
    POLL_INTERVAL,      \* between two status checks
    RetrySleep,         \* after a failed one
    WarmRequests, MeasuredRequests      \* requests of the series

ASSUME SenderAssumption ==
    /\ Work \subseteq Nat \ {0}
    /\ Reading \subseteq Nat
    /\ {REQUEST_TIMEOUT, PromptTimeout, GetTimeout, POLL_INTERVAL, RetrySleep} \subseteq Nat \ {0}
    /\ PromptTimeout <= REQUEST_TIMEOUT  \* 120 s, 20 min
    /\ POLL_INTERVAL <= GetTimeout       \* 20 ms, 30 s
    /\ WarmRequests \in Nat /\ MeasuredRequests \in Nat \ {0}

VARIABLES
    sender,     \* how this cell's framework is asked
    n,          \* the request under way, or the last one
    phase,      \* what its sender is doing
    timer,      \* when that ends at the latest
    t,          \* time since its clock started
    queue,      \* the server's unfinished jobs: [req, left], the first one runs
    job,        \* the current request's: "none", "queued" or what came of it
    up,         \* the server is there
    ended,      \* when the current request's job ended, if it has
    lost,       \* time since then that the sender spent on anything but its pause
    read,       \* time spent on reading answers
    by,         \* other requests whose jobs ran while this one was timed
    answer,     \* what the answer being read says of the job
    stopped,    \* when that answer began, or ComfyUI said that the prompt was done
    log,        \* outcomes of the requests so far
    last        \* the last one's result, while no other is under way

senderVars == <<sender, n, phase, timer, t, queue, job, up, ended, lost, read, by,
                answer, stopped, log, last>>
server == <<queue, job, up, ended>>
timed  == <<sender, n, by, lost, read, log, last>>

AllRequests == WarmRequests + MeasuredRequests
Outputs     == {"full", "silent", "empty", "cached"}    \* of a job that completed
None        == [outcome |-> "none"]
Ends        == Outputs \cup {"failed", "cancelled"}

---------------------------------------------------------------------------
(* The senders: how the answer comes, which outputs pass the check, whether *)
(* a cancelled job is told from a running one, and whether a submission     *)
(* that names no job counts as answered.                                    *)

Tracks == IF Audio THEN {"full"} ELSE {"full", "silent"}
AnyOutput == Outputs
SomeOutput == Outputs \ {"empty"}

Way(kind, accepts) == [kind |-> kind, accepts |-> accepts, cancels |-> TRUE, needsId |-> TRUE]

SendImageSglang    == Way("sync", SomeOutput)
SendVideoSglang    == [Way("poll", AnyOutput) EXCEPT !.cancels = FALSE]
SendEditSglang     == Way("sync", AnyOutput)  \* of images; of videos: SendVideoSglang
SendVideoVllm      == Way("sync", {"full", "silent"})
SendImageVllm      == Way("sync", AnyOutput)
SendChatVllm       == Way("sync", SomeOutput)
SendImageLightx2v  == Way("sync", SomeOutput)
SendVideoLightx2v  == Way("poll", Tracks)
SendJsonGeneric    == Way("sync", Tracks)
SendVideoGeneric   == [Way("poll", AnyOutput) EXCEPT !.needsId = FALSE]
SendEditGeneric    == Way("sync", AnyOutput)
SendPromptComfyui  == Way("events", {"full", "silent"})
SendVideoFastvideo == Way("sync", Tracks)

AllSenders ==
    {SendImageSglang, SendVideoSglang, SendEditSglang, SendVideoVllm, SendImageVllm,
     SendChatVllm, SendImageLightx2v, SendVideoLightx2v, SendJsonGeneric, SendVideoGeneric,
     SendEditGeneric, SendPromptComfyui, SendVideoFastvideo}

ASSUME SendersAssumption == Senders \subseteq AllSenders

---------------------------------------------------------------------------
SenderInit ==
    /\ sender \in Senders
    /\ n = 0
    /\ phase = "between"
    /\ timer = 0
    /\ t = 0
    /\ queue = <<>>
    /\ job = "none"
    /\ up = TRUE
    /\ ended = 0
    /\ lost = 0
    /\ read = 0
    /\ by = {}
    /\ answer = "none"
    /\ stopped = 0
    /\ log = <<>>
    /\ last = None

\* the next request is sent at once
Begin ==
    /\ phase = "between"
    /\ n' = n + 1
    /\ phase' = "posting"
    /\ timer' = IF sender.kind = "events" THEN PromptTimeout ELSE REQUEST_TIMEOUT
    /\ t' = 0
    /\ ended' = 0
    /\ lost' = 0
    /\ read' = 0
    /\ by' = {}
    /\ job' = "none"
    /\ last' = None
    /\ UNCHANGED <<sender, queue, up, answer, stopped, log>>

Result(outcome, latency) ==
    [outcome |-> outcome, latency |-> latency, job |-> job, ended |-> ended, lost |-> lost, by |-> by]

\* nothing of the request is kept but its result; its job may go on
Forget ==
    /\ timer' = 0
    /\ t' = 0
    /\ answer' = "none"
    /\ stopped' = 0
    /\ UNCHANGED <<sender, n, by, lost, read, server>>

Answers == {"ok", "nameless"}     \* outcomes that come with a latency

\* Mutant of Settle: the series goes on after a measured request that failed.
SettleOn(outcome, latency) ==
    /\ log' = Append(log, outcome)
    /\ last' = Result(outcome, latency)
    /\ phase' = IF n = AllRequests THEN "end" ELSE "between"
    /\ Forget

\* A warmup's failure is not fatal; a measured request's ends the series.
Settle(outcome, latency) ==
    /\ log' = Append(log, outcome)
    /\ last' = Result(outcome, latency)
    /\ phase' = IF n = AllRequests \/ (outcome \notin Answers /\ n > WarmRequests) THEN "end" ELSE "between"
    /\ Forget

Wait(what, time) ==
    /\ phase' = what
    /\ timer' = t + time
    /\ answer' = "none"
    /\ stopped' = 0
    /\ UNCHANGED <<t, server, timed>>

\* An answer begins; all of it is there when the timer rings.
Arrives(what, time) ==
    /\ phase' = what
    /\ timer' = t + time
    /\ answer' = job
    /\ stopped' = t
    /\ UNCHANGED <<t, server, timed>>

WasRead(what) == phase = what /\ t = timer

Completed == answer \in Outputs

\* the output is looked at when the clock has stopped
Checked(latency) ==
    IF job \in sender.accepts THEN Settle("ok", latency) ELSE Settle("error", 0)

---------------------------------------------------------------------------
(* The POST *)

\* an HTTP error, a connection that breaks before or after the server has
\* taken the job, or no byte for the whole timeout
PostFails ==
    /\ phase \in {"posting", "reply"}
    /\ Settle("error", 0)

\* a synchronous endpoint answers when the job has ended, others when they have it
Reply(time) ==
    /\ phase = "posting"
    /\ job \in IF sender.kind = "sync" THEN Ends ELSE Ends \cup {"queued"}
    /\ Arrives("reply", time)

\* the answer of a synchronous endpoint is the output or an HTTP error
Answered ==
    /\ WasRead("reply") /\ sender.kind = "sync"
    /\ Checked(t)

Submitted ==
    /\ WasRead("reply") /\ sender.kind = "poll"
    /\ Wait("pause", POLL_INTERVAL)

\* 200 without the id of a job
SubmittedNameless ==
    /\ WasRead("reply") /\ sender.kind = "poll"
    /\ IF sender.needsId THEN Settle("error", 0) ELSE Settle("nameless", t)

---------------------------------------------------------------------------
(* Status polling *)

\* the head of _poll_get's loop
Poll == IF t < REQUEST_TIMEOUT THEN Wait("get", GetTimeout) ELSE Settle("timeout", 0)

PauseOver ==
    /\ phase \in {"pause", "retry"} /\ t = timer
    /\ Poll

StatusArrives(time) ==
    /\ phase = "get" /\ up
    /\ Arrives("status", time)

\* Mutant of Status: the clock is looked at before the answer.
StatusAfterClock ==
    /\ WasRead("status")
    /\ \/ /\ t >= REQUEST_TIMEOUT - POLL_INTERVAL /\ Settle("timeout", 0)
       \/ /\ t < REQUEST_TIMEOUT - POLL_INTERVAL
          /\ IF Completed THEN Checked(t) ELSE Wait("pause", POLL_INTERVAL)

\* a completed job is one even when its status comes after the deadline
Status ==
    /\ WasRead("status")
    /\ \/ /\ Completed
          /\ Checked(t)
       \/ /\ answer = "failed" \/ (answer = "cancelled" /\ sender.cancels)
          /\ Settle("error", 0)
       \/ /\ answer = "queued" \/ (answer = "cancelled" /\ ~ sender.cancels)
          /\ IF t > REQUEST_TIMEOUT THEN Settle("timeout", 0) ELSE Wait("pause", POLL_INTERVAL)

\* an HTTP error is not taken for a transient failure, and neither is an
\* answer that is cut off
StatusRefused ==
    /\ (phase = "get" /\ up) \/ phase = "status"
    /\ Settle("error", 0)

\* Mutant of StatusLost: a failed status check ends the request as a done one.
StatusLostIsDone ==
    /\ phase \in {"get", "status"}
    /\ Settle("ok", t)

\* a timeout, before the answer or in it, or a connection refused or reset
StatusLost ==
    /\ phase \in {"get", "status"}
    /\ Wait("retry", RetrySleep)

---------------------------------------------------------------------------
(* ComfyUI: the websocket is open before the prompt is queued, so that no  *)
(* event of the prompt can be missed                                        *)

Queued ==
    /\ WasRead("reply") /\ sender.kind = "events"
    /\ IF t < REQUEST_TIMEOUT THEN Wait("listen", REQUEST_TIMEOUT - t) ELSE Settle("error", 0)

\* execution_error, execution_interrupted, or `executing` no node any more;
\* then come the history and the output files, with no look at the deadline
Event(time) ==
    /\ phase = "listen" /\ job \in Ends
    /\ IF job \in Outputs THEN Arrives("outputs", time) ELSE Settle("error", 0)

ListenFails ==
    /\ phase = "listen"
    /\ t = timer \/ ~ up
    /\ Settle("error", 0)

\* an image's clock stops after its files
Read(image) ==
    /\ WasRead("outputs") /\ up
    /\ Checked(IF image THEN t ELSE stopped)

ReadFails ==
    /\ phase = "outputs"
    /\ Settle("error", 0)

---------------------------------------------------------------------------
(* The server *)

Accept(work) ==
    /\ phase = "posting" /\ up /\ job = "none"
    /\ job' = "queued"
    /\ queue' = Append(queue, [req |-> n, left |-> work])
    /\ UNCHANGED <<phase, timer, t, answer, stopped, up, ended, timed>>

ServerDies ==
    /\ up /\ phase \notin {"between", "end"}
    /\ up' = FALSE
    /\ queue' = <<>>
    /\ UNCHANGED <<phase, timer, t, answer, stopped, job, ended, timed>>

\* One unit of time, in which the server works on its first job.
Tick ==
    /\ phase \notin {"between", "end"}
    /\ t < timer
    /\ t' = t + 1
    /\ lost' = IF job \notin Ends \/ phase = "pause" THEN lost ELSE lost + 1
    /\ read' = IF phase \in {"reply", "status", "outputs"} THEN read + 1 ELSE read
    /\ \/ /\ queue = <<>>
          /\ UNCHANGED <<queue, job, ended, by>>
       \/ /\ queue # <<>>
          /\ by' = by \cup ({Head(queue).req} \ {n})
          /\ IF Head(queue).left > 1
             THEN /\ queue' = [queue EXCEPT ![1].left = @ - 1]
                  /\ UNCHANGED <<job, ended>>
             ELSE /\ queue' = Tail(queue)
                  /\ IF Head(queue).req = n
                     THEN ended' = t + 1 /\ job' \in Ends
                     ELSE UNCHANGED <<ended, job>>
    /\ UNCHANGED <<sender, n, phase, timer, up, answer, stopped, log, last>>

SenderNext ==
    \/ Begin
    \/ PostFails \/ Answered \/ Submitted \/ SubmittedNameless
    \/ PauseOver \/ Status \/ StatusRefused \/ StatusLost
    \/ Queued \/ ListenFails
    \/ \E time \in Reading : Reply(time) \/ StatusArrives(time) \/ Event(time)
    \/ \E image \in BOOLEAN : Read(image)
    \/ ReadFails
    \/ \E work \in Work : Accept(work)
    \/ ServerDies
    \/ Tick

SenderSpec == SenderInit /\ [][SenderNext]_senderVars

---------------------------------------------------------------------------
(* Properties *)

\* A latency is that of the request's own job: the job was completed, not one
\* moment of its time in the server is missing, and what was added by waiting
\* for the next status check is at most one interval. The exception, a server
\* that names no job, has an outcome of its own here.
LatencyIsItsJob ==
    last.outcome = "ok" =>
        /\ last.job \in Outputs
        /\ last.ended <= last.latency
        /\ last.latency <= last.ended + POLL_INTERVAL + last.lost

\* A measured latency contains work of another request only when a warmup was
\* given up before its job was over: whatever happens, one measured request
\* does not slow down the next one, unless a submission was taken for an answer.
DisturbedOnlyByWarmup ==
    last.outcome = "ok" /\ n > WarmRequests /\ ~ Contains(log, "nameless") =>
        \A q \in last.by : q <= WarmRequests /\ log[q] # "ok"

\* The deadline, from both sides. A request that has not been settled has waited
\* at most one status check and its pause beyond its time: what more it takes it
\* spends on reading answers that had begun, and on ComfyUI's outputs, for which
\* there is no deadline. And a request is not reported as timed out when its job
\* was completed more than one interval before and every status check since was
\* answered at once.
InTime ==
    /\ t < REQUEST_TIMEOUT + GetTimeout + RetrySleep + read
    /\ last.outcome = "timeout" /\ last.job \in Outputs /\ last.lost = 0 =>
           last.ended + POLL_INTERVAL >= REQUEST_TIMEOUT
===========================================================================
