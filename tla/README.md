# A verification project for diffusion-bench-framework

The repository benchmarks diffusion-serving frameworks against each other. A
run starts one server after another on one box, warms each of them up, measures
it, and keeps the rows in a result file that is later merged, gated and shown on
a public page. Nearly everything that makes such a number wrong is not in the
arithmetic but in the control around it: a server that did not die, a lock that
two jobs hold, a checkpoint that says it is complete, a command that the
transport ran twice. This project models that control in TLA+, checks it with
TLC on small instances, and proves what matters most about it with TLAPS for
every value of the parameters.

Contents: 1 the system and its hard behaviours, 2 the modules, 3 the runs, 4 what
the code does against its own words, 5 the proofs, 6 fairness, 7 what is not
modelled, 8 the plan.

## 1. The system

### 1.1 Components

| component | source | state it keeps | operations |
|---|---|---|---|
| GPU job lock | `scripts/gpu_job_lock.sh` | a directory on a shared disk with the files `pid`, `host`, `job`; the shell's traps | acquire (mkdir, write, trap; or judge the owner, clear, poll), release if mine, signal handlers |
| Cell server lifecycle | `run_comparison.py`: `run_case_framework`, `wait_for_health`, `kill_server` | a process group per cell, its port, its log lines in a pipe and in two lists a thread fills | launch, health wait, model-route wait, measure, TERM/KILL/wait, join the thread, attach the lines |
| Matrix run and its artifact | `run_comparison.py`: `run_comparison`, `_install_framework`, `_write_run_artifact`, `main` | `results`, `throughput_results`, the files `{output}.tmp` and `{output}` | install or skip, one cell per framework and case, checkpoint, final artifact, exit code |
| Requests of a cell | `run_comparison.py`: `_run_warmups`, `run_single_request`, `run_throughput`, `_request_case` | the counter of request inputs, the latencies, the budget spent | fixed and extra warmups, measured repeats, perf dump, numbering for `bench_serving` |
| Biweekly run | `scripts/biweekly_fair_bench.sh` | on `/personal`: `.started`, `.done`, the result, `part_*`; on the box: the runner; in the script: `DEAD_STREAK`, `BOX_ACQUIRED` | acquire, set up, guarded launch through a lossy transport, watch, split, pull, verify, publish, release on exit |
| Request senders, framework clients | `run_comparison.py`: `send_request_*`, `_poll_get`; `comfyui_client.py`, `fastvideo_client.py` | one job per request, retries, a socket of events | submit, poll or listen, download, check the output |
| bench_serving | `bench_serving.py`, `run_comparison.py`: `run_throughput` | a semaphore, one task per request, the metrics file | warm up, send at concurrency, poll, report; read the metrics into a row |
| Profile selection and server commands | `run_comparison.py`: `_selected_profile`, `_build_*_command`; `config_guard.py` | none; the case file they read is edited | candidates of a box, selection, merged entries, switches of a command |
| Configuration guard and builders | `config_guard.py`, `build_benchmark_config.py` | the editable configuration and the packaged copy | lint, classify, write both files, the drift gate |
| Merge and publish, page export | `build_report_artifacts.py`, `publish_bench_run.py`, `merge_and_publish_run.sh`, `page_export.py` | result files, two data files of the page | merge, gate, back up, write, verify; sections, winners, headline |
| rx transport | `scripts/rxrun.sh`, `rxput.sh`, `rxpull.sh` | staged chunks and files on either side | run with retries, chunked push, verified pull |
| Serve argument studies | `tune_sglang_serve_args.sh`, `run_profile_vs_default.sh` | the job lock, the cards, result files named by arm | lock, clear the cards, run an arm under `timeout`, read its file |
| Devbox case runner | `scripts/devbox_run_cases.sh` | the cards, output files; no lock | clear, wait for the cards, run each case under `timeout` |
| sglang probe | `sglang_probe/runner.py` | `matrix.json`, `runs.jsonl`, `summary.json`, a server per cell | search a matrix, start, send a family's requests, poll, stop, record, summarise |
| dashboard, mirror, installation, one-off exports, charts | the remaining files | none across steps | drawing, downloads, `pip` and `git` |

`run_comparison.py` is one process. In it the cell server lifecycle runs inside
the matrix loop, and the requests inside the cell. The biweekly script starts
that process on a remote box by a command that may be lost or run twice; it
learns of its end through a marker file and a probe, and pulls the result file
the process has been replacing atomically all along. Jobs on a box keep off each
other's cards only by the lock. What interacts is thus: processes through
signals, wait statuses and a port (CellServer); a process and its later self
through a file (RunMatrix); shells through a directory (GpuJobLock); a process, its tasks and a
server through requests and a metrics file (BenchServing); a client and a server
through submissions, status checks and events (Sender); overlapping
scripts through files that outlive the boxes (BiweeklyRun); jobs of a box through
its cards (BoxJobs); editors, builds, runs and publications through the
configuration and the page's two files (ConfigLife); invocations of the probe
through one directory (ProbeRun).

### 1.2 What is hard, and what makes each component correct

* **GPU job lock.** A shell can be preempted between any two commands: after
  `mkdir` and before the pid is written, between reading the owner and `kill -0`,
  between the ownership check and `rm -rf`. Any job may be killed anywhere.
  Correct: no two jobs of a box use the cards; the lock's files name the job that
  does; a job that gives up its lock does not go on; nobody waits for ever.
* **Cell server.** The server's leader, its workers, the kernel's port and the log
  thread all move on their own. Correct: a measured row was answered by the
  server of its cell; a previous leader does not run beside it; a fallback the
  server reported reaches the row; no server blocks the matrix.
* **Matrix run.** Each cell, each checkpoint and each installation may raise; the
  process may be killed inside a write; a later run takes the same file. Correct:
  the file is absent or whole, holds the first cells of a run, loses nothing
  while that run goes on, says it is final only when complete, and the exit code
  agrees with it.
* **Requests.** Failed warmups, a case with the warmup's own shape, a budget and
  two-digit tags meet in one loop. Correct: no tag is sent twice; the
  measured window opens on a settled server or when the extra warmups are spent.
* **bench_serving.** Tasks interleave at their awaits; a request can fail while the
  server goes on with its job; an exception cancels the others; the metrics file of
  an earlier run may lie where this run's is expected. Correct: a row without an
  error is about this run and its requests; the server works on no more requests
  than the concurrency the row reports; failures never leave the rest waiting.
* **Biweekly run.** The transport loses commands and answers; runs of one day
  share a RUN_ID; boxes expire; pulled chunks may be cut or doubled; part files of
  an earlier result stay. Correct: what is published is one whole result of that
  RUN_ID; a result has one writer; the end of the runner is noticed. The last is
kept, the first two as long as two runs of a day do not meet in a window of two
commands (section 4).
* **Senders.** A deadline, a timeout for each status check, retries and pauses run
  against each other; a warmup that was given up goes on in the server; a server
  may name no job; the end of a ComfyUI prompt is one of several events, some of
  which may be lost. Correct: a latency is the whole time of the request's own job
  and little more; only a warmup can slow down a measured request; a deadline
  ends no job that was done in time, and passes unnoticed only while an answer is read.
* **Configuration, publication.** A profile is chosen on the box by names and
  tokens that contain each other; the guard repeats the choice elsewhere; the case
  file is edited, built and published while runs of older states of it wait.
  Correct: what the lint promises holds on the boxes; the gate speaks of what the
  runner would do; a cell that was left out is told from one that failed; the two
  files of the page agree.
* **Jobs of a box.** Studies that hold the lock kill what is on the cards; the case
  runner does so without it; servers outlive the `timeout` that ends their run, and
  the driver may keep a dead one's memory. Correct: what is beside a measurement
  is only what could not be ended or does not keep to the lock; a study reports its
  own file; a pushed file is whole.
* **sglang probe.** A greedy search with a window and a maximum, protocols that differ
  by family, servers and jobs that die between two requests, and a stream of
  events that several invocations append to. Correct: a search that ends with
  room left has covered every pair of the window it looked at last; a clean exit
  hides no failure; the summary agrees with the exit code; a server whose leader is
  left running was given up by a cell that is on record as failed; an invocation
  ends.

`PROJECT.json` lists the hazards at their lines with the properties that would
catch them; those that no property covers are in section 7.

## 2. The modules

| module | what it is | state and actions against the code |
|---|---|---|
| `Mutex` | what a lock promises: a holder or none, passed on only through nobody | abstract |
| `GpuJobLock` | the lock directory and the shells around it | one action per command that touches the directory: `MkDir`, `WritePid`, `WriteHost`, `SetTrap` (lines 66-72), `ReadOwner`, `ReadHost`, `Judge` (the stale test), `ClearFiles`, `ClearDir` (`rm -rf`, two steps), `ReleaseCheck`, `ReleaseFiles`, `ReleaseDir`, `AfterRelease`, `Signal`, `Die` |
| `CellServer` | the servers of the cells of one run | an iteration of a polling loop is an action that looks at process, log and port in the code's order; `Kill`, `Terminated`, `TermTimeout`, `Reaped` are `kill_server`; `ReadLine`, `ReaderEnds` and `ReaderDies` are the log thread, which the harness joins (`Join`) or gives up (`JoinTimesOut`); `ServerStep` is everything servers do by themselves |
| `Matrix` | frameworks, cases, modes, rows, and the order of cells | `fw_cases`, `_modes_for_case`, the rows |
| `ArtifactLog` | what a reader of `{output}` may rely on | abstract: `Save` replaces a prefix by a longer one, or by one of a later run |
| `RunMatrix` | a run over the matrix, and runs after it | the loops, `_write_run_artifact` in its three steps (`OpenTmp`, `Dump`, `Replace`), every way to raise, `Kill`, `Rerun` |
| `Requests` | the requests of one cell | `Warm`, `WarmFails`, `Extra`, `ExtraFails`, `Warmed` (`_run_warmups`), `Measure`, `Dump`, `Serve` and their failures |
| `BenchServing` | one throughput measurement: the child process, its tasks, the server's jobs | `func` is the backend's request function: polled or waited for, and one of the seven lets exceptions out. A stretch between two awaits is an action: `Enter`, `Send`, `Accepted`, `Polled`, `Lost` and the rest of a request's coroutine, `Ready` to `Dump` of the main one; `JobEnds` is the server; `Timeout`, `Failed`, `Returned` are `run_throughput` |
| `BiweeklyRun` | overlapping runs of the script | each remote command is an action with its outcomes, but the guarded launch, whose test (`LaunchTest`) and touch with start (`LaunchStart`) are two, in which other launches may come between; RAW and MERGED of a RUN_ID are shared by its runs on the script's machine, and read and written command by command; the EXIT trap is part of every action that leaves the script; the runner on the box has its own steps |
| `Sender` | one server and a client that sends it a warmup and measured requests, with each of the senders of `send_request` | a sender is a record: how the answer comes (`sync`, `poll`, `events`), which outputs pass, what it knows of cancelling and of nameless submissions. An answer begins (`Reply`, `StatusArrives`, `Event`), takes some time of `Reading`, and is then looked at (`Answered`, `Submitted`, `Queued`, `Status`, `Read`): timeouts are for a read each, so that a whole answer has none. `Begin`, `PostFails`, `Status*`, `PauseOver` are the rest of the client; `Accept`, `ServerDies` and the clock are the server |
| `HardwareProfile` | tokens, candidates of a box, the selection of a profile, in the runner and in the guard | operators; a name is a sequence of the pieces that matching tells apart |
| `ServerCommand` | the switches of a server command: compile, offload, GPUs, with the box's extra arguments | operators over entries and profiles |
| `BenchConfig` | lint and classification of a case, status on a box, the drift gate | operators |
| `Publication` | merging rows, sections, winner and headline (a shorter latency or a higher throughput), the two data files | operators |
| `ConfigLife` | the life of one case: `Edit`, `BuildWritesEditable`, `BuildWritesPackaged`, `BuildDies`, `RunComparison`, `MergeAndPublish`, `WriteLatest`, `PublisherDies` | composes the four modules before it; a run is one action, as `RunMatrix` says how it writes |
| `RxPut` | a chunked push through a transport that loses answers and lets commands run late | `Answered`, `Lost`, `Refused`, `RunsLate` |
| `BoxJobs` | studies, the case runner, their runs and servers on the same cards | `Acquire` and `Release` through `Mutex`; `ClearCards`, `Report`; `RunnerKills`, `CaseStarts`, `KeepsWaiting`, `Contaminated`, `CaseEnds`; `ClearOnce` and `CaseStartsAnyway`, where the query for the cards fails and memory that was not read counts as free; `LaunchServer`, `Healthy`, `Ends`, `TimesOut` for a run; servers load, get stuck and go |
| `BoxSession` | a push, and the jobs that need the file | composes `RxPut` and `BoxJobs` |
| `ProbeMatrix` | catalogue, compatibility, phases and pairs of the probe's matrix | operators |
| `ProbePairwise` | `build_pairwise_cells`: the greedy search | a round of the loop is an action (`Pick`); `Fix` builds the other phases |
| `ProbeCell` | the requests of one cell by family, and its server's jobs | loops of requests, polls, the checks before and after; a job that was accepted by an answer without an id goes on unwatched (`unseen`) |
| `ProbeRun` | invocations in one output directory | options, `matrix.json` (written in two steps), attempts to start a server, of which leader (`alive`) and workers (`workers`) end apart, the four ways `stop` may go (`StopGone`, `StopTerm`, `StopKill`, `StopUnrecorded`), `runs.jsonl` and a full disk (`Unwritten`), summary, exit code, kills |
| `Probe` | the search, and then the invocations | composes `ProbePairwise` and `ProbeRun` |
| `Walks` | what a walk along a list keeps of it or adds up, as functions that can be reasoned about | operators, used by `Requests` and the four modules of the configuration |
| `Walks_proofs`, `Box_proofs`, `RunMatrix_proofs`, `BenchServing_proofs`, `CellServer_proofs`, `Requests_proofs`, `Publishing_proofs`, `Probe_proofs` | theorems | section 5 |
| `MC*` | instances for TLC | |

`CellServer`, `RunMatrix`, `Requests` and `Sender` are views of one process (and
`BenchServing` of the child it starts for a throughput row), cut at
the interfaces the code has: `RunMatrix` takes from a cell only that it fails or
gives results; `CellServer` takes from the requests only who answered;
`Requests` takes a server that answers or fails; `Sender` says what an answer is.
They share no variable, so each is checked with the full nondeterminism of the
others' outcomes.
`BiweeklyRun` takes from `RunMatrix` that a result file is absent or whole and
either a checkpoint or final, which is what `ArtifactLog` promises and
`FileIsALog` proves. `BoxJobs` takes `Mutex` for the lock, which `GpuJobLock`
implements when visits to the directory do not overlap (`SerialImplementsMutex`);
what happens when they do is `lock_race`.

Abstractions common to all: log wording, command lines, environments and payloads
are left out; a sleep is nothing, a deadline is a nondeterministic choice
("times out") except in `Requests` and `Sender`, where durations decide what is
sent and what is reported. In `ConfigLife` a profile and a command are the switches that the
policies, the selection and the gate look at; there is one case, four
frameworks and one measured value per row.

In several modules an operator precedes the one it resembles, commented "Mutant
of ...": a plausible bug of that step. Replacing the step by it makes TLC violate
the property `PROJECT.json` pairs it with, so each property is known to be able
to fail.

## 3. The runs

| run | instance | shows |
|---|---|---|
| `lock_serial` | 3 jobs, 1 box, `SerialSpec` | `MutualExclusion`, `HolderIsNamed`, `ImplementsMutex` |
| `lock_live` | 3 jobs, 2 boxes, `FairSpec`, every interleaving | `GivenUpIsStopped`, `EveryWaiterIsServed` |
| `lock_race` | 3 jobs, 1 box, `Spec` | violated: `MutualExclusion` |
| `cell_servers` | 3 cells, two of sglang and one of another framework, `FairSpec` | `OwnServerMeasured`, `EarlierLeadersDown`, `FallbackNoted`, `RunEnds` |
| `matrix_runs` | frameworks with 2, 0 and 2 cases, both modes for the first case of each, 2 runs | `MeasuredRowsSaved`, `ExitTellsTruth`, `ImplementsLog` |
| `requests_cell` | 2 fixed warmups, short ones of 1 or 41 s, up to 4 extra ones of 20, 21, 23, 60 or 690 s against a budget of 120 s, 2 repeats, a dump, 2 served requests, tags for 8 | `NoTagTwice`, `SettledOrSpent` |
| `throughput_row` | the warmup and 3 requests, 2 permits, the seven request functions, tasks created at once or one by one, `FairSpec` | `OkRowIsOwn`, `ConcurrencyKept`, `GatherEnds` |
| `biweekly_runs` | 2 runs: of one day, with results of one chunk, and one of them sends its launch again; or of two days, with results of 1 or 2 chunks; `FairSpec` | `PublishedIsOneResult`, `OneWriter`, `EndIsNoticed` |
| `sender_series` | every sender, a warmup and 2 measured requests, jobs of 1, 2 or 8 units and answers of 0, 1 or 8 against a deadline of 6 | `LatencyIsItsJob`, `DisturbedOnlyByWarmup`, `InTime` |
| `config_life` | 4 states of a case, 4 boxes, 12 circumstances, 1 edit, 2 runs, 2 publications | `PolicyOnBox`, `CompileOffEverywhere`, `DriftGateIsExact`, `SkippedIsClassified`, `PageAgrees` |
| `box_jobs` | a push of 2 chunks with 3 losses; 2 studies of 2 arms, a runner of 2 cases, 3 mishaps (kills, timeouts, clearings that leave servers, failed queries) | `PushedIsWhole`, `StudyCompany`, `RunnerCompany`, `ReportedIsOwn`, `ClearingSparesStudies` |
| `probe_runs` | all orders of 5 out of 6 candidates, windows of 1, 2 and 5, maxima of 3 and 5; 2 invocations over 3 matrices and 2 profiles, with a limit of one cell and without, `ProbeSpec` | `UncoveredIsUnseen`, `EachAddsAPair`, `NothingDropped`, `CleanExit`, `SummaryAgrees`, `LeftIsFailed`, `RunEnds` |

Every cfg turns the deadlock check off, because every one of these programs ends:
jobs are done or dead, a run exits, the script exits, the bounds on edits, runs and
publications are used up. No type invariant is in a run, because they are proved for
every instance (section 5); those of `Sender` and of the probe's invocations are parts
of the invariants there.

### Bounds, and why they are enough

* Lock: with three jobs there can be a holder, a waiter that judges it, and a
  third that acquires between the judgement and the removal. A fourth could only
  repeat the part of one of them. With two boxes the third job is on the other, so
  that both a foreign and an own lock are judged. The proofs lift the serial case
  to any number.
* Cells: `Last = 3` gives a server from two cells ago that still holds the port
  while the previous one is killed; both kinds of server (with routes registered
  after `/health`, or not) come before and after the other.
* Matrix: a framework without cases, one that needs an installation, one that does
  not, a last case and a case before it, cells with one mode and with both, and a
  second run that finds what the first has left. The proofs lift it to any matrix
  and any number of runs.
* Requests: the cell needs up to 11 numbers and there are 8 tags, so the counter
  passes its limit in every phase. 20 and 21 seconds agree within
  `WARMUP_CONVERGE_PCT = 5`, 20 and 23 do not, four of those leave room in the
  budget (so the cap decides), and two of 60 use it up.
* Throughput: with three requests and two permits one request always waits for a
  permit another must give back, and the warmup (which is a request more) may be
  given up and still be worked on. The proofs lift it to any numbers.
* Biweekly: two runs are enough to share or not share a RUN_ID and its RAW file, one lost
  attempt to have one run's two launches beside the other run's, and two chunks to leave
  an old part beside a shorter result. Who launched how often does not bear on how long a
  result is, nor the parts of another RUN_ID on the launch, so that no run of the script
  needs both: `Lossy` and `Sizes` bound, for each RUN_ID, whose launches are lost and how long results are.
  Lost probes are not bounded. `EndIsNoticed` is about the run whose launch may be lost, and takes nothing of the other
  to be fair (`Watched`); the other two are proved for any number of
  runs, retries and chunks.
* Senders: time is scaled, with one set of values for all senders: a status interval
  and a retry of 1, a status timeout of 2, a timeout of 4 for ComfyUI's POST, a deadline
  of 6. Jobs of 1 and 2 units end within an
  interval and between two; one of 8 outlives the deadline and the next request's
  start; so does an answer that takes 8 to read. A warmup before two measured requests is the least in which both a
  warmup and a measured request come before a measured one.
* Configuration: the case has the kinds of entries the repository's cases have
  (profiles by hardware class, by name only, a default, dated exceptions, a
  framework classified on some boxes). The boxes differ in everything selection looks at:
  names that contain each other (b300 in gb300), two classes, an environment
  variable, a count of GPUs below what an entry wants. One edit between build and
  run, and two runs of different states, are what a stale configuration needs;
  two publications leave a page half written and repair it or not. Four frameworks
  give a row a winner, a competitor without a number and one that was left out.
* Box: two studies to have one beside the other's leftovers, two arms and two
  cases to have one's own earlier leftovers, three mishaps to have a run time out, a
  study killed and a clearing that leaves servers (any of them) or whose query fails in
  the same behaviour. Three losses use up the
  tries of one command, or let one command run late and another after it. The
  safety properties are proved for any numbers.
* Probe: the code looks at 5000 of about 50,000 candidates; what matters is that the list
  is longer than the window, as it is here with windows of 1 and 2 (and is not with 5).
  The two properties of the search are proved for any candidates and windows. The
  matrices have every family with a protocol of its own; two invocations are what a
  stream and a matrix file of an earlier invocation need.

## 4. The code against its own words

One disagreement is a run, `lock_race`, whose counterexample `PROJECT.json`
describes. The others are properties that the modules state with the sentence they
are taken from, and that TLC refutes when they are named in the cfg given here.

1. *A lock directory is a real mutex* (`gpu_job_lock.sh:22`), `MutualExclusion`. The pid is written by
   the command after `mkdir`. A waiter that looks in between sees an empty pid,
   which the stale test takes for a dead owner; it removes the directory and makes
   its own. With visits that do not overlap the lock is a mutex, which is proved;
   a poll interval of 60 seconds makes overlap rare, not impossible.
2. *A server that moves off the requested HTTP port must fail the start at once*
   (`test_moved_port_fails_fast.py:2`), `MovedServerFailsItsCell` with
   `CellServer_cells.cfg`. The line is looked at only while `/health`
   is polled. If a leftover of an earlier cell answers `/health` and `/v1/models`
   before the log thread has read the line, the cell measures the leftover.
3. *A finished measurement should survive whatever happens to the ones after it*
   (`run_comparison.py:3772`), `FinishedSurvives` with `RunMatrix_runs.cfg`. True of
   cells; within a cell, an exception from
   `run_throughput` replaces the finished `single_e2e` result by an error row.
4. *Not silently billed* (`run_comparison.py:2855`), `NotBilledOverBudget` with
   `Requests_cell.cfg`. The estimate scales the last fixed warmup that was
   answered, and is zero when none was: the extra warmup is then sent whatever it
   costs. A short request that does not scale with its steps has the same effect.
5. *The launch reports whether the runner is actually up*
   (`biweekly_fair_bench.sh:200`), `RunnerUpAtLaunch` with `BiweeklyRun_runs.cfg`.
   `pgrep -f` finds the remote shell whose command
   line holds the pattern, so `RUNNER_UP` is printed also when the guard started
   nothing and the runner has ended.
6. *The baseline classification has to drop it too -- otherwise the runner would
   attempt a cell the case calls unsupported here* (`config_guard.py:313`),
   `ClassifiedIsNotRun` with `ConfigLife_life.cfg`. With no overrides for the box
   at all the function returns before it looks at the baseline (291-293); the
   `no_profile` entry of lightx2v in the case cosmos3_nano is of that kind.
7. *A script that clears the cards must hold the GPU lock first*
   (`tests/test_gpu_clearing_scripts_locked.sh:2`), `ClearsUnderLock` with
   `BoxSession_jobs.cfg`. The test looks for the text `xargs kill -9`;
   `devbox_run_cases.sh:96-104` clears in a loop of its own and takes no lock.
8. *Say so in the result rather than leaving it in a server log nobody greps*
   (`run_comparison.py:3420-3421`), `FallbackAlwaysNoted` with `CellServer_cells.cfg`.
   The list that the row is made from is filled by a thread, which ends on a
   line that cannot be decoded (3332) and for which the harness waits 5 seconds (3409);
   a worker that outlives its leader keeps the pipe open for longer. `FallbackNoted`
   is what is left: a thread that came to the end of the output.
9. *Safe to run by hand* (`biweekly_fair_bench.sh:8`), `OneWriterAlways` with
   `BiweeklyRun_runs.cfg`. `[ -e .started ]` (207) and `touch` (210) are two
   commands on a shared disk: two runs of a day, or a lost launch and its retry, may both find
   nothing and both start the matrix on one result file.
10. *Results verified* (`biweekly_fair_bench.sh:253`), `PublishedIsVerified` with
   `BiweeklyRun_runs.cfg`. The checksum is taken of RAW (250), and RAW is read again
   to build what is published (258-259). The file's name holds the RUN_ID only, and a
   second run of the day truncates it (246) and appends to it (248).
11. *Every guard here turns one of those mistakes into a machine check*, among them
   improvised `serve_args` (`config_guard.py:5-7`), `ImprovisedArgsAreCaught` with
   `ConfigLife_life.cfg`. `DIFFUSION_BENCH_SGLANG_EXTRA_SERVE_ARGS` of the box is
   appended to sglang's command (`run_comparison.py:327-328`) after the profile's own
   arguments: the lint sees the configuration only, and the drift gate asks what the command
   that ran lacks, not what it has besides.

Three more are promises that a reader may take from the probe's code, which does not
make them; TLC refutes each with `Probe_runs.cfg`.

12. `CoversOrCapped`: every pair is covered unless the maximum was reached. A round looks
   at the first 5000 candidates that are left (`runner.py:712`) and ends the search when
   none of them adds a pair (720), whatever the ones behind them would add.
13. `CleanExitOfJobs`: a clean exit hides no failed job. A submission that is answered
   with 200 and without an id is not polled (`if job_id`, 1394, 1423), so nobody
   learns what became of the job.
14. `NothingLeft`: a clean exit leaves no process. `stop` does nothing when the leader
   has exited (1102-1104) and waits for the leader alone (1111); workers that outlive it
   are left, on the GPUs of the next cell.

## 5. The proofs

Every safety property of a passing run, invariant or action property, and both
refinements are theorems; TLC alone has the liveness properties. TLAPS checks the
proofs from the definitions the runs use. Assumptions on constants are the named
`ASSUME`s of the modules, which TLC evaluates in every run. Most say what kind of value a
constant has (`JobAssumption`, `MatrixAssumption`, `RunAssumption`, `BenchAssumption`,
`CellAssumption`, `RequestsAssumption`, `BiweeklyAssumption`, `PairwiseAssumption`,
`PutAssumption`, `BoxAssumption`, `SendersAssumption`, `BenchConfigAssumption`,
`ConfigLifeAssumption`). These say more:

* `SenderAssumption`: a status check may take at least a poll interval
  (`POLL_INTERVAL <= GetTimeout`; 20 ms and 30 s in the code), and ComfyUI's POST no longer
  than a request (`PromptTimeout <= REQUEST_TIMEOUT`; 120 s and 20 minutes).
* `ProbeAssumption`: a phase of the probe's matrix lists no cell twice, and a cell is in
  its phase. The lists are products of lists that name nothing twice.
* `CatalogAssumption`: sglang is supported by every case and has profiles, each with
  arguments of its own. So it is in the repository's case files; the lint of sglang looks
  at nothing but these arguments (`build_benchmark_config.py:365`), so that what a profile without any
  would take from its entry is not policed.
* `ClassBoxAssumption`: the text that stands for a class in the lint is read as that class
  alone. It is a statement about `HARDWARE_TOKENS` and the scan, which TLC evaluates: the
  scan recurses over a text.

### Walks_proofs

`Walks` has two recursive functions: the elements of a list that are in a set, in
their order (`Kept`), and the sum of a list (`Total`). The library's induction theorems
cannot be used (they take an operator as a parameter), so induction is done by hand:
every nonempty set of numbers has a least element (`LeastNumber`, from the library's fact
that `<` is well founded on them), so a walk that goes wrong goes wrong at a first place. `WalkExists` says
that there is a walk that has a given beginning and a given step; on it rest `KeptWalk`
and `TotalWalk`, that the two functions satisfy their recursive equations. From
there: `KeptEmpty`, `KeptAppend`, `TotalAppend`; `KeptPlaces`, that the kept elements lie at
growing places of the list, every place whose element is in the set among them; `KeptElements`
and `KeptAll`.

### Box_proofs

The lock, for any jobs, boxes and pids:

* `TypeCorrect`: `Spec => []TypeOK`, with every interleaving.
* `ReleasedIsStopped`: `Spec => GivenUpIsStopped`, with every interleaving: only
  setting the traps, after the pid and the host are written, leads to the cards.
* `SerialReleaseOnlyMine`: a release removes the files only of a lock that names
  the releasing job; for any boxes, when visits do not overlap.
* With `OneBox`, `DistinctPids` (the two facts about a deployment the lock relies
  on) and `OneInside` (visits to the directory do not overlap; part of
  `SerialSpec`): `SerialMutualExclusion`, `SerialHolderIsNamed`, and
  `SerialImplementsMutex`, that every step of the lock is one of `Mutex` or leaves
  it unchanged.

Mutual exclusion is not inductive: that a waiter which finds a lock stale is
right depends on what the lock's files say at each point of acquiring and
releasing. `SerialInv` says it: while a job holds, the files name it; while nobody
is inside, the directory is either consistent with a holder or belongs to nobody
that runs; what a judging job has read is what is there. The proof has one case
per action. Without `OneInside` the same statement is false, as `lock_race` shows.

The session, for files of any length and any tries and losses, any number of studies, arms,
cases and mishaps; all of the run's properties:

* `PushIsWhole`, by `Delivered`: until a late command has changed the staged
  chunks they are whole, and a late decode does no harm.
* `ClearingIsSafe`, `StudiesMeasureAlone`, by `Alone` (a study whose run goes on
  without the lock has been killed), `Staged` (the one that has the lock has a run only
  between clearing and reporting) and `ArmAlone` (since the cards were cleared
  nothing came but what the property excuses).
  Excused are servers that could not be ended, that were still loading, and all of them when
  the query for what is on the cards failed.
* `CasesMeasureAlone`, by `CaseAlone`: while the runner waits, what it has left
  behind is either in sight of the wait or was loading when the cards were cleared. A case
  that starts on cards whose memory could not be read (`${used:-0}`,
  `devbox_run_cases.sh:124`) is excused for what was there.
* `ReportsAreOwn`, by `Written`: unless a study was killed, a run that wrote
  has written the file of the present arm last.

They rest on `Mutex`, the promise of the lock, and so on visits to the lock
directory that do not overlap.

### RunMatrix_proofs

For any number of frameworks, cases and runs, any modes, with kills, aborts and
failures at every point:

* `TypeCorrect`: `Spec => []TypeOK`.
* `RunInvHolds`: the inductive invariant `RunInv`.
* `RowsAreSaved`: `Spec => []MeasuredRowsSaved`.
* `ExitIsTruthful`: `Spec => []ExitTellsTruth`.
* `FileIsALog`: `Spec => ImplementsLog`, the refinement of `ArtifactLog` under
  `file <- disk`.

None of the three properties is inductive. `RunInv` adds, besides the types:
`RowsAt`, that the rows are those of the cells the position of the run has passed
and no others (`Passed`); `GotAt`, which results a half-measured cell may have;
`TmpAt`, that the file about to replace the artifact is the run as it stands;
`DiskAt`, that this run's artifact is behind its rows and still partial; `SavedAt`,
that good rows are on disk as soon as their cell's checkpoint is over; `ExitAt`,
that after the loops the file is final and complete. TLC checked `RunInv` on the
instance of `matrix_runs` before it was proved. The argument that matters is in
`AdvancePassed`, `RowsStep` and `FilledPrefix`: the order of the loops and the
order `Before` on cells are the same, so a set of passed cells is always a prefix,
and rows are only ever made for cells not passed yet, so the file only grows.

### BenchServing_proofs

For any number of requests and any number of permits up to it, with any of the
seven request functions, failures, exceptions, the parent's timeout and the end of the process at every
point:

* `TypeCorrect`: `Spec => []TypeOK`, among it that the semaphore never grows beyond
  its permits.
* `BenchInvHolds`: the inductive invariant `BenchInv`.
* `RowIsOwn`: `Spec => []OkRowIsOwn`.
* `ConcurrencyIsKept`: `Spec => []ConcurrencyKept`.

`OkRowIsOwn` speaks of the server's jobs, but the row is made of counts in a file:
`MetricsAt` says the counts are those of the tasks when the file is written,
`RowAt` that a row counts everything only if every task is `ok`, and `JobAt` that an
`ok` task has a completed job. `ConcurrencyKept` speaks of jobs, but the code counts
permits: `PermitsAt` says every permit is free or held by a request (until
requests are cancelled, the last thing the process does), and `JobAt` that a job is
worked on only for a request that holds one or was given up. `FreeAt` and `StartAt`
close the induction. The counting rests on the library's facts about finite sets.

### CellServer_proofs

For any number of cells of either kind, whatever their servers do:

* `MeasuredIsOwn`: `Spec => []OwnServerMeasured`, where no workers outlive their
  leader (`~orphans`).
* `LeadersAreDown`: `Spec => []EarlierLeadersDown`.
* `FallbackIsNoted`: `Spec => []FallbackNoted`, unless the log thread died on a line
  or was late at the join (section 4).

The invariant `ServerInv`: cells ahead of the present one have nothing (`Ahead`);
the leaders of cells that are over are down, and so is the present one's while it
is being reaped (`Down`); workers end with their leader (`Together`); a log
thread that came to the end of the output has read every line, and nobody is left to
write another (`Drained`, with `OneLeader`: only the present cell's leader runs). That whoever
answers is the cell's own server then follows: nobody else is up. What the wait
after SIGKILL does not guarantee is what `Down` gets from the operating system: a
killed leader runs no more, reaped or not.

### Requests_proofs

The requests of a cell, for any number of warmups, repeats, served requests and
tags, any durations and any budget, failures included:

* `TypeCorrect`: `Spec => []TypeOK`.
* `TagsAreApart`: `Spec => []NoTagTwice`. The invariant adds `Numbered`: each tag that
  was sent is below the counter, which every request moves, one that fails and one that is
  refused too.
* `WarmedUpOrSpent`: `Spec => []SettledOrSpent`. The property is stated over the requests on the
  wire, while the loop decides by its own counters. `Books` relates the two: the list the
  loop compares is what the answers at the measured shape took, its count and its budget
  are the number and the sum of the extra requests, and its estimate is the last answer's.
  It rests on `Walks_proofs`: one more request appends one to a kept list and adds
  its time to a sum.

The senders, for any subset of the senders, any durations, any number of
warmups and measured requests, with a server that may die or lose answers at any
moment:

* `SenderInvHolds`: the inductive invariant `SenderInv`.
* `LatencyIsItsJobAlways`: `SenderSpec => []LatencyIsItsJob`.
* `DisturbedOnlyByWarmupAlways`: `SenderSpec => []DisturbedOnlyByWarmup`.
* `InTimeAlways`: `SenderSpec => []InTime`.

None of the three is inductive. `OnTime` says that the clock is not past the timer of a
phase that waits, and that this timer is at most the deadline and what may follow it (a status
check, a retry), moved by the time spent on reading answers: `InTime` bounds everything
but the reading, which the code does not bound.
`EndIsKnown` says that once a job has ended, what has passed since is what was lost
with dropped answers and at most a pause. `JobsOfRequests` and
`DisturbedByGivenUp` say that a job in the server is of the request under way or of one
that was given up; `SeriesGoesOn`, that a request that is given up after the warmups is the
last one. `TimedOutLate` is the third property before its own request is over.

### Publishing_proofs

The biweekly script, for any number of overlapping runs, any RUN_IDs, losses and sizes of results:

* `WritersAreAlone`: `Spec => []OneWriter`, by `Settled` (PERSIST, which is part of
  the markers' names, is settled before anything is launched), `Fresh` (an attempt that
  was not sent has not run), `Marked` (whoever has a runner has left a `.started` file)
  and `Guarded`: where no two launches were between test and touch at a time, one that
  is there has found no marker and is alone. Where two were (`raced`) the property says
  nothing, and section 4 what may happen then.
* `PublishedIsWhole`: `Spec => []PublishedIsOneResult`, by `Filed` (a result lies
  under the RUN_ID of the run that wrote it) and `Checked`: what passed the checksum
  is not touched until it is published, unless another run of the RUN_ID wrote RAW
  before it was read again (`torn`). Nothing is said of the part files, nor of who
  writes RAW before the checksum: the checksum is why they do not matter.

The configuration and the page, for any contents of the case's source file that
`CatalogAssumption` admits, any boxes and circumstances, and any number of edits,
builds, runs and publications, with builds and publications cut off between their
files:

* `PolicyOnBoxAlways`: `LifeSpec => []PolicyOnBox`.
* `CompileOffAlways`: `LifeSpec => []CompileOffEverywhere`.
* `DriftGateAlways`: `LifeSpec => []DriftGateIsExact`.
* `SkippedAlways`: `LifeSpec => []SkippedIsClassified`.
* `PageAlwaysAgrees`: `LifeSpec => []PageAgrees`.

Little of this is about interleaving. `LifeInv` says that a run is of contents that a build let
pass and raised nothing, and that an attempt to publish is of such runs; the rest is
about what the code makes of any such contents:

* *Policy.* `ResolvedIs` says what a row ran: the entry that was built from the case
  file, with the profile that the box selects. `SelectedThere` says that a box whose only class
  is named by the policy selects what the lint of that class selects
  (`SelectedIs`, by `KeptPlaces`: both take the first profile whose names match). The lint
  found nothing in it, and `AddsOnly`, `SglangCommand` and `CompetitorCommand` say that
  what the builders of the commands add themselves is nothing a policy forbids; a
  command of sglang ends with the box's extra arguments, and the property excuses what
  comes from them, of which the lint cannot know (section 4). With two classes on a
  box (an override, a label) the lint does not speak of the mix; the property excuses it
  too.
* *Compile.* `RowIs` and `LastIsLast`: what is appended to a command last decides.
* *Drift gate.* `MirrorSelects` says that the guard's selection is the runner's when
  nobody asks by name. `MergedOfBox` says that the candidates the merge hands to the guard
  are those of the box, whatever the number of its runs, and `MergedRows` that a merged row
  is a row of one of them. The property asks for a box with a class: without one the gate
  falls back to h100 (`build_report_artifacts.py:142`).
* *Left out.* `LeftOutIsClassified`: what `apply_hardware_statuses` drops has a status other
  than `supported` in the dropped case, and `SectionsAre` that the page shows it.
* *Page.* `PageInv`: the history has one section of a run and mode; the headline agrees
  with its table, and so do the sections that wait for the second file. `RepublishedIs`
  says what publishing again leaves of the history, `SectionsAgree` counts a section's wins and
  comparable rows (`CountedAgrees`); `FastestIs` finds the winner in either order, latencies
  and throughputs.

### Probe_proofs

For any candidates in any order, any window and maximum; any matrices whose phases list
no cell twice, any options, any number of invocations, whatever the servers and
their jobs do, with kills at every point:

* `GreedyLeavesUnseen`: `ProbeSpec => []UncoveredIsUnseen`, for every window, smaller than
  the list or not: what is left to cover is what no selected cell has, and a fruitless
  choice means that none of the candidates it looked at has any of it (`PairwiseInv`).
* `GreedyWastesNothing`: `ProbeSpec => []EachAddsAPair`, by `AddsInv`.
* `PairwiseTypes`: `SearchSpec => []SearchTypeOK`.
* `NothingIsDropped`: `ProbeSpec => []NothingDropped`: the fixed lists drop no
  combination that the compatibility rules allow (`SmokeAll`, `TargetedAll`).
* `ExitIsClean`: `ProbeSpec => []CleanExit`.
* `SummaryAgreesAlways`: `ProbeSpec => []SummaryAgrees`.
* `LeftIsFailedAlways`: `ProbeSpec => []LeftIsFailed`.

The three about invocations rest on `RunInv`. `TodoInv`: what is still to be run is some
of what this invocation collected, each cell once; without distinct cells a cell that
has ended would be on the list again, and a later success would hide its failure. `EndsInv`: what is off
the list has ended, and failures are counted exactly when one of these failed. `HurtInv`: a
request that ended badly has been counted, or the loop is at a place from which the
cell cannot end well; `RequestInv` says which places these are. `AliveInv`: a
leader that runs is that of the cell at hand, or of a cell that gave it up and is on
record as failed (`Failed`), or the invocation is over; workers without a leader are there
only where it ended before them. `SearchInv` carries the
search's invariant through the part of a behaviour that has forgotten it.

### What stays with TLC

Liveness under fairness (`EveryWaiterIsServed`, `GatherEnds`, `EndIsNoticed`, and
`RunEnds` of `CellServer` and of the probe) is out of the prover's reach. Model-checked
only are also the assumptions on constants, which every run evaluates on its own instance:
among them what the scan for hardware tokens makes of a class's text (`ClassBoxAssumption`),
as the scan recurses over the text. Which tokens any other text contains does not matter to the
proofs: they hold whatever `HardwareTokens` finds, as long as runner and guard use the same.

## 6. Fairness

* `GpuJobLock`: weak fairness of each job's own steps. A shell that is not killed
  goes on, and the runners put a timeout on what a job does with the cards.
  Nothing makes a job start, and death is never forced.
* `CellServer`: weak fairness of the harness's step, which always has one, since
  every wait in the code has a deadline. Nothing is assumed of servers; `RunEnds`
  therefore covers those that hang.
* `BenchServing`: weak fairness of the main coroutine, of each request's task (the
  event loop runs what is ready, and every `await` of a task but the semaphore is
  over when the server answers or the client gives up) and of each of the server's
  jobs. The status loop has no deadline, so a server that never ends a job is ended
  only by the parent's timeout, which is not assumed: `GatherEnds` shows that no
  request waits for another that is over.
* `Probe`: weak fairness of the probe's own step: each of its waits has a deadline and
  its loops are counted. Nothing is assumed of its servers and of their jobs, and a
  kill is never forced.
* `BiweeklyRun`: weak fairness of the watch loop of a run, and strong fairness
  of its three informative outcomes (`.done` seen, `DEAD` once, `DEAD` the third
  time): a transport that is asked for ever answers again and again. Nothing is
  assumed of the runner, of boxes, or of anything outside the loop, and the
  property excuses a box that has expired: the code then loops for ever.

## 7. What is not modelled, and why

Parts of the repository:

* Formatting, the dashboard, charts, markdown summaries, the one-off exports: no
  state across steps.
* Installation and upgrade scripts: sequences of `pip` and `git`; their three
  outcomes are in `RunMatrix`. The nightly mirror: downloads, of which a failed one
  is skipped.
* Payloads, media decoding, statistics of latencies: pure data.
* `rxpull.sh` (a snapshot whose manifest is compared; the way a result is pulled is in
  `BiweeklyRun`) and `rx_ttl_guard.sh` (one read).
* The recipes a build renders, the retired cases, the lint of other files.

Inside the modelled components:

* `GpuJobLock`: the file `lock/job` (it only words messages). `CellServer`: more than
  one line of a kind and the perf dump. `RunMatrix`: what a cell's server does.
  `Requests`: what a failure was. `BenchServing`: SLO figures, the datasets and the
  semaphore's queue (a permit goes to any waiter, which allows more than the code
  does). `BiweeklyRun`: the version lookup, the salvage on exit and git.
* `Sender`: an answer takes any time of `Reading`, from its first byte to its last: timeouts
  are for one read each, so the code does not bound it, and the whole time of a request
  either. One such time stands for `/history` and all reads of `/view` together; events
  of the websocket arrive at once. A submission without a name counts as a latency
  (`run_comparison.py:2206-2209`) and is an outcome of its own; the perf dump is read off
  the clock and left out.
* `ConfigLife`: the data files of the page are rewritten in place, and each is one step (a
  publication dies between them, not within one); runner and guard tokenise names by two
  copies of one expression, for which there is one operator, so that a difference between
  the copies could not show; explicit environment variables of a competitor's profile
  (`run_comparison.py:941-945`) and the refusal of fastvideo's builder (875-877) are left
  out; an ok row of throughput always has its figure.
  Profiles and `serve_args` are the switches that policies look at;
  entries of sglang always have profiles; an environment variable that chose the
  profile is not in the artifact (`run_comparison.py:3640-3641`), as in the code.
  What the code does not ask is not asked: the drift gate looks at sglang's rows and
  at missing tokens only, and not at a framework that was dropped from the case; a merge of several
  boxes takes the union of their candidates and the last run's hardware; a
  publication of throughput only keeps the former table and headline under the
  new title (`publish_bench_run.py:318`); the headline's count leaves out rows with one
  competitor (117-131); a row that was measured twice hides the older one.
* `RxPut`: a command takes effect in one step. What late commands do to the file once the
  jobs have started is not followed. `BoxJobs`: a server is one process; all jobs
  use the same cards; a launch that the transport repeats starts the study
  again, which two studies stand for.
* `ProbeRun`: `--base-url`, `--phase`, `--cell-id`, `list`, SIGINT, the arguments extracted
  from a checkout of sglang. A server is its leader, which answers, and its workers, which
  do not end by themselves while it runs; a group that gets SIGKILL ends at once.

Hazards that no property covers:

* `gpu_job_lock.sh:91`: a pid of a dead owner that another process has now makes
  the lock live for ever. `PidOf` is a constant; the proofs assume `DistinctPids`.
* `biweekly_fair_bench.sh:230`: a box that expires while the loop watches answers no
  probe, each counts as fine, and the loop does not end. `EndIsNoticed` excuses it.
* `biweekly_fair_bench.sh:120`: an acquire that fails after a box was acquired leaves
  the box (`AcquireFails`); the script cannot know its name. At 211, 215 and 248 other
  remote commands are answered by an error after they ran; each ends the script.
* `biweekly_fair_bench.sh:207` and `258`: two launches in the guard at a time, and RAW
  written after its check, are what `OneWriter` and `PublishedIsOneResult` excuse
  (section 4).
* `publish_bench_run.py:276`: a death between the two data files leaves them of different
  runs; `PageAgrees` speaks of each file.
* `tune_sglang_serve_args.sh:85`: an arm that wrote nothing reports the file that an earlier
  study left under its name; `ReportedIsOwn` speaks of arms that wrote.
* `comfyui_client.py:176`: events of other prompts are left out, as the code compares their
  ids; a prompt that ComfyUI answered from its cache is an output its sender refuses.
* `rxrun.sh:60`: on a box that is gone, `cat "$out"; rm -f "$out"` takes the output
  for a file name.
* `merge_and_publish_run.sh:79`: the gate looks for native fallbacks among the
  single-request rows; the throughput rows of such a run pass it.
* `run_comparison.py:1217`: a framework other than sglang is ready when `/health` answers, with
  nothing said of its routes. 1239: `kill_server` returns at once when the leader of the
  group has ended, and what it started lives on; `orphans` of `CellServer` allows it, and
  `OwnServerMeasured` excuses it. 3570: an error of the file system while a
  checkpoint is written ends the run.
* `bench_serving.py:388`: the loop that asks for a job's status has no deadline
  of its own; what ends it is the timeout of the whole benchmark
  (`run_comparison.py:3208`), which loses its other requests.

## 8. Plan

Written, in the order of how much the rest of the system rests on them:
`GpuJobLock`, `CellServer`, `RunMatrix` (with `Matrix`, `ArtifactLog`), `Requests`,
`BiweeklyRun`, `BenchServing`; then `Sender`, the probe, the configuration and
publication, and the jobs of a box; eight modules of proofs. The project is kept to
twelve runs, so that all of it can be checked again in half an
hour: what comes next is composed with what has a run. Every safety property is
proved; what comes next is more of the system and more said about it.

1. `RxPull`: the snapshot and the manifest, with a writer beside them, under
   `BiweeklyRun`'s pull, and a refinement of an abstract transfer that `RxPut` and
   `RxPull` share, proved as `FileIsALog` is.
2. `Sender` under `Requests`: a warmup that was given up, as the latencies of the
   measured requests see it.
3. The lock of `BoxJobs` as `GpuJobLock` itself rather than its promise, with a
   poll interval that keeps visits apart as an assumption on time.
4. An abstract page (the last whole publication, or one cut off) that `ConfigLife`
   implements, with `PageInv` as the invariant of the mapping.
