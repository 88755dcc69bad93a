------------------------------ MODULE ProbeCell ------------------------------
(***************************************************************************)
(* The requests of one cell of the sglang probe against a server of its    *)
(* own, and the jobs that server runs for them: run_http_cell, the         *)
(* families' loops, run_openai_sdk_cell and the polling of jobs            *)
(* (sglang_probe/runner.py).                                               *)
(*                                                                         *)
(* A request is answered as expected or not; only a server that is up can  *)
(* answer as expected.  A deadline may pass at any poll.                   *)
(***************************************************************************)
EXTENDS ProbeMatrix

VARIABLES
  server, (* the cell's server: "none", "loading", "up", "dead"            *)
  step,   (* where in the cell's requests the probe stands                 *)
  n,      (* the round of the family's loop                                *)
  good,   (* all(results) so far                                           *)
  job,    (* the job of the round on the server                            *)
  hurt,   (* history: a server died under a cell of this invocation, or a  *)
          (* job that should be done was not                               *)
  unseen  (* history: a job that no answer named was not done as it should *)

cellVars == <<server, step, n, good, job, hurt, unseen>>

CellInit ==
  /\ server = "none" /\ step = "off" /\ n = 0 /\ good = TRUE /\ job = "none"
  /\ hurt = FALSE /\ unseen = FALSE

\* Does a Python client of openai send the cell's requests?  Other families of
\* that entrypoint are sent as plain HTTP.
BySdk(c) == c.entrypoint = "serve_openai_sdk" /\ c.family \in Generating

HasJobs(c) == c.family \in {"video_generation", "mesh"}

Requests == [smoke |-> 20, stability |-> 120, stress |-> 500]
Jobs     == [smoke |-> 1, stability |-> 2, stress |-> 4]
BadCases == 7
BadVideo == 6  \* the bad case that a server may accept as a job

\* How often the family's loop goes round (repeat_count).
Rounds(c) ==
  IF c.family \in {"control", "realtime"} THEN 1
  ELSE IF c.family = "invalid" THEN BadCases
  ELSE IF c.phase = "smoke" \/ BySdk(c) THEN 1
  ELSE IF HasJobs(c) THEN Jobs[c.stress]
  ELSE Requests[c.stress] \div 20

Begin == step' = "ask" /\ n' = 1 /\ good' = TRUE /\ job' = "none"

\* The answers a request may get.
Answers == IF server = "up" THEN BOOLEAN ELSE {FALSE}

\* The next round of the loop, or what follows it.
Round(c) ==
  /\ job' = "none"
  /\ IF BySdk(c) THEN step' = "done" /\ UNCHANGED n
     ELSE IF n < Rounds(c) THEN step' = "ask" /\ n' = n + 1
     ELSE step' = "final" /\ UNCHANGED n

-----------------------------------------------------------------------------
\* Control requests, an image, an edit: no job is left.
AskPlain(c) ==
  /\ step = "ask" /\ ~BySdk(c)
  /\ c.family \in {"control", "image_generation", "image_edit"}
  /\ \E ok \in Answers : good' = (good /\ ok)
  /\ Round(c)
  /\ UNCHANGED <<server, hurt, unseen>>

\* A session over a websocket: a wrong init that is answered somehow, an init, and
\* messages until one tells of a chunk.
AskRealtime(c) ==
  /\ step = "ask" /\ c.family = "realtime"
  /\ \E ok \in Answers : good' = ok
  /\ Round(c)
  /\ UNCHANGED <<server, hurt, unseen>>

\* One call of the client of openai; what it raises is a failure.
AskSdk(c) ==
  /\ step = "ask" /\ BySdk(c) /\ ~HasJobs(c)
  /\ \E ok \in Answers : good' = ok
  /\ step' = "done"
  /\ UNCHANGED <<server, n, job, hurt, unseen>>

\* A job is asked for, and the answer is not as expected.  The client of openai
\* raises on it.
AskRefused(c) ==
  /\ step = "ask" /\ HasJobs(c)
  /\ good' = FALSE
  /\ IF c.family = "video_generation" /\ ~BySdk(c)
     THEN step' = "after" /\ job' = "none" /\ UNCHANGED n
     ELSE Round(c)
  /\ UNCHANGED <<server, hurt, unseen>>

\* The answer is as expected but names no job, and the round goes on without one.
\* The server may have one all the same: nobody polls it, however it ends.
AskNoId(c) ==
  /\ step = "ask" /\ HasJobs(c) /\ server = "up" /\ ~BySdk(c)
  /\ IF c.family = "video_generation"
     THEN step' = "after" /\ job' = "none" /\ UNCHANGED n
     ELSE Round(c)
  /\ unseen' \in {unseen, TRUE}
  /\ UNCHANGED <<server, good, hurt>>

AskJob(c) ==
  /\ step = "ask" /\ HasJobs(c) /\ server = "up"
  /\ job' = "queued"
  /\ step' = IF c.family = "video_generation" /\ ~BySdk(c) THEN "early" ELSE "poll"
  /\ UNCHANGED <<server, n, good, hurt, unseen>>

\* The content of a video that is just asked for: 200 or 404.
Early(c) ==
  /\ step = "early" /\ step' = "poll"
  /\ \E ok \in Answers : good' = (good /\ ok)
  /\ UNCHANGED <<server, n, job, hurt, unseen>>

\* One of the bad requests; the server may take the bad video for a job, or
\* accept it without naming one, which is taken for an answer as expected.
AskBad(c) ==
  /\ step = "ask" /\ c.family = "invalid"
  /\ \/ /\ \E ok \in Answers : good' = (good /\ ok)
        /\ step' = "health" /\ UNCHANGED <<job, unseen>>
     \/ /\ n = BadVideo /\ server = "up"
        /\ step' = "health" /\ unseen' \in {unseen, TRUE} /\ UNCHANGED <<job, good>>
     \/ /\ n = BadVideo /\ server = "up"
        /\ job' = "queued" /\ step' = "poll" /\ UNCHANGED <<good, unseen>>
  /\ UNCHANGED <<server, n, hurt>>

BadHealth(c) ==
  /\ step = "health"
  /\ \E ok \in Answers : good' = (good /\ ok)
  /\ Round(c)
  /\ UNCHANGED <<server, hurt, unseen>>

Then(c) ==
  IF c.family = "invalid" THEN step' = "health" /\ UNCHANGED <<n, job>>
  ELSE IF BySdk(c) THEN Round(c)
  ELSE step' = "after" /\ UNCHANGED <<n, job>>

\* poll_async_job, poll_openai_video: a job that has ended.  The content of a
\* completed one is asked for.
PollEnded(c) ==
  /\ step = "poll" /\ c.family # "invalid" /\ server = "up"
  /\ \/ job = "completed" /\ \E ok \in Answers : good' = (good /\ ok)
     \/ job = "failed" /\ good' = FALSE
  /\ Then(c)
  /\ UNCHANGED <<server, hurt, unseen>>

\* poll_expected_failed_job.
PollBad(c) ==
  /\ step = "poll" /\ c.family = "invalid" /\ server = "up"
  /\ \/ job = "failed" /\ UNCHANGED good
     \/ job = "completed" /\ good' = FALSE
  /\ Then(c)
  /\ UNCHANGED <<server, hurt, unseen>>

\* The deadline passes, or the client of openai raises.
PollDeadline(c) ==
  /\ step = "poll"
  /\ good' = FALSE
  /\ Then(c)
  /\ UNCHANGED <<server, hurt, unseen>>

\* Videos are listed; a mesh is deleted.
After(c) ==
  /\ step = "after"
  /\ \E ok \in Answers : good' = (good /\ ok)
  /\ Round(c)
  /\ UNCHANGED <<server, hurt, unseen>>

\* Mutant of FinalHealth: its answer is recorded, but not a result.
FinalRecorded(c) ==
  /\ step = "final" /\ step' = "done"
  /\ UNCHANGED <<server, n, good, job, hurt, unseen>>

FinalHealth(c) ==
  /\ step = "final" /\ step' = "done"
  /\ \E ok \in Answers : good' = (good /\ ok)
  /\ UNCHANGED <<server, n, job, hurt, unseen>>

CellStep(c) ==
  \/ AskPlain(c) \/ AskRealtime(c) \/ AskSdk(c)
  \/ AskRefused(c) \/ AskNoId(c) \/ AskJob(c) \/ Early(c) \/ AskBad(c)
  \/ BadHealth(c) \/ PollEnded(c) \/ PollBad(c) \/ PollDeadline(c)
  \/ After(c) \/ FinalHealth(c)

-----------------------------------------------------------------------------
\* The server ends the job, as it should or not.
JobEnds(c) ==
  /\ server = "up" /\ job = "queued" /\ step \notin {"off", "done"}
  /\ \E e \in {"completed", "failed"} :
       /\ job' = e
       /\ hurt' = (hurt \/ e = IF c.family = "invalid" THEN "completed" ELSE "failed")
  /\ UNCHANGED <<server, step, n, good, unseen>>

\* The server dies while requests are still to be sent.
ServerDies ==
  /\ server = "up" /\ step \notin {"off", "done"}
  /\ server' = "dead" /\ hurt' = TRUE
  /\ UNCHANGED <<step, n, good, job, unseen>>

=============================================================================
