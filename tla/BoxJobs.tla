------------------------------- MODULE BoxJobs -------------------------------
(***************************************************************************)
(* What the jobs of one box do to its cards and to each other: studies,    *)
(* which hold the lock of gpu_job_lock.sh while they clear the cards and   *)
(* run one arm after the other (tune_sglang_serve_args.sh,                 *)
(* run_profile_vs_default.sh), and the case runner, which takes no lock    *)
(* (devbox_run_cases.sh).  Each arm or case is one run of run_comparison   *)
(* under `timeout`, with a server of its own that outlives it when the     *)
(* timeout ends it.  All of them use the same cards.                       *)
(***************************************************************************)
EXTENDS Naturals, FiniteSets

CONSTANTS
  Study,    (* the studies                                                 *)
  NoStudy,  (* nobody has the cards                                        *)
  Runner,   (* the case runner                                             *)
  Arms,     (* runs of a study                                             *)
  Cases,    (* cases of the runner                                         *)
  MaxWait,  (* polls of wait_gpus_free (600 / 15)                          *)
  Mishaps,  (* bound: timeouts, kills of a shell, clearings that leave     *)
            (* something stuck, failed queries of the cards                *)
  NoFile,   (* there is no result file                                     *)
  Earlier   (* the result file of an earlier study with the same tags      *)

ASSUME BoxAssumption ==
  /\ Arms \in Nat \ {0} /\ Cases \in Nat \ {0} /\ MaxWait \in Nat
  /\ Mishaps \in Nat
  /\ {NoStudy, Runner, NoFile, Earlier} \cap Study = {}

VARIABLES
  holder,   (* the study that has the cards, as Mutex promises             *)
  shell,    (* the shell of each study: "waits", "lives", "done", "dead"   *)
  stage,    (* where the study that has the cards stands                   *)
  at,       (* a study's arm, or the runner's case                         *)
  matrix,   (* the run_comparison of a study or of the runner              *)
  servers,  (* servers that run: [of, at, is, missed]; missed, a look at   *)
            (* the cards did not show it                                   *)
  result,   (* who wrote the result file of each arm; tags name no job     *)
  said,     (* the last number or miss a study has reported                *)
  runner,   (* where the runner stands                                     *)
  waited,   (* polls of its wait                                           *)
  mishaps

lockVars == <<holder, shell>>
boxVars  == <<lockVars, stage, at, matrix, servers, result, said, runner, waited, mishaps>>

\* gpu_job_lock.sh, by its promise.
CardLock == INSTANCE Mutex WITH Job <- Study, Nobody <- NoStudy

Process == Study \cup {Runner}

NothingSaid == [by |-> Runner, from |-> NoFile, how |-> "none"]

BoxInit ==
  /\ CardLock!Init
  /\ shell = [j \in Study |-> "waits"]
  /\ stage = "clear"
  /\ at = [p \in Process |-> 1]
  /\ matrix = [p \in Process |-> "none"]
  /\ servers = {}
  /\ \E old \in {NoFile, Earlier} : result = [n \in 1..Arms |-> old]
  /\ said = NothingSaid
  /\ runner = "idle" /\ waited = 0 /\ mishaps = 0

-----------------------------------------------------------------------------
(* A run of run_comparison: one case, one framework.  It ends with "wrote" *)
(* or "nothing".                                                           *)

Own(p) == {s \in servers : s.of = p /\ s.at = at[p]}
InRun(p) == matrix[p] \in {"setup", "health", "measure"}
Live == {s \in servers : s.is \in {"loading", "resident"}}

Becomes(p, state) == matrix' = [matrix EXCEPT ![p] = state]

\* Mutant of Writes: only for a server that was measured.
WritesMeasured(p) ==
  /\ Becomes(p, "wrote")
  /\ result' = IF p \in Study /\ matrix[p] = "measure"
               THEN [result EXCEPT ![at[p]] = p] ELSE result

\* The artifact is written when the cell is done, whatever became of it.
Writes(p) ==
  /\ Becomes(p, "wrote")
  /\ result' = IF p \in Study THEN [result EXCEPT ![at[p]] = p] ELSE result

Unread == <<lockVars, stage, at, said, runner, waited>>

Mishap == mishaps < Mishaps /\ mishaps' = mishaps + 1

\* The configuration is read and the server started.
LaunchServer(p) ==
  /\ matrix[p] = "setup" /\ Becomes(p, "health")
  /\ servers' = servers \cup {[of |-> p, at |-> at[p], is |-> "loading", missed |-> FALSE]}
  /\ UNCHANGED <<Unread, result, mishaps>>

Healthy(p) ==
  /\ matrix[p] = "health" /\ \E s \in Own(p) : s.is = "resident"
  /\ Becomes(p, "measure")
  /\ UNCHANGED <<Unread, servers, result, mishaps>>

\* Measured, or given up with an error row: the server exited, was killed from
\* outside, or is not healthy in time.  kill_server ends what is left of it.
Ends(p) ==
  /\ matrix[p] \in {"health", "measure"}
  /\ Writes(p)
  /\ servers' = servers \ (Own(p) \cap Live)
  /\ UNCHANGED <<Unread, mishaps>>

\* TERM from `timeout`: run_comparison has no handler, so its server stays and
\* nothing is written.
TimesOut(p) ==
  /\ InRun(p) /\ Becomes(p, "nothing") /\ Mishap
  /\ UNCHANGED <<Unread, servers, result>>

\* The server's own steps: it takes memory on the cards; one that nobody waits for
\* exits, or the driver lets go of what a killed one held.
ServerLoads(s) ==
  /\ s.is = "loading"
  /\ servers' = (servers \ {s}) \cup {[s EXCEPT !.is = "resident"]}
  /\ UNCHANGED <<Unread, matrix, result, mishaps>>

ServerGone(s) ==
  /\ s.is = "stuck" \/ ~InRun(s.of) \/ s \notin Own(s.of)
  /\ servers' = servers \ {s}
  /\ UNCHANGED <<Unread, matrix, result, mishaps>>

\* kill -9 of the processes with a context on the cards: one that is still
\* loading is not among them, and killed ones may hold their memory for long.
\* When the query fails, its complaint goes to /dev/null and nobody is killed.
OnCards == {s \in servers : s.is = "resident"}
Spared == {[s EXCEPT !.missed = @ \/ s.is = "loading"] : s \in servers \ OnCards}
Unseen == {[s EXCEPT !.missed = @ \/ s.is # "stuck"] : s \in servers}

KillOnCards ==
  \/ servers' = Spared /\ UNCHANGED mishaps
  \/ \E stuck \in (SUBSET OnCards) \ {{}} :
       servers' = Spared \cup {[s EXCEPT !.is = "stuck"] : s \in stuck} /\ Mishap
  \/ servers' = Unseen /\ Mishap

-----------------------------------------------------------------------------
(* A study.                                                                *)

\* gpu_lock_acquire
Acquire(j) ==
  /\ shell[j] = "waits" /\ CardLock!Take(j)
  /\ shell' = [shell EXCEPT ![j] = "lives"]
  /\ stage' = "clear"
  /\ UNCHANGED <<at, matrix, servers, result, said, runner, waited, mishaps>>

Cleared ==
  /\ holder # NoStudy /\ stage = "clear" /\ stage' = "run"
  /\ Becomes(holder, "setup")
  /\ said' = NothingSaid
  /\ UNCHANGED <<lockVars, at, result, runner, waited>>

\* Mutant of ClearCards: only the first arm clears them.
ClearOnce ==
  /\ Cleared
  /\ IF at[holder] = 1 THEN KillOnCards ELSE UNCHANGED <<servers, mishaps>>

ClearCards == Cleared /\ KillOnCards

\* What the result file says is reported, whoever wrote it.
Report ==
  /\ holder # NoStudy /\ stage = "run" /\ ~InRun(holder)
  /\ said' = [by |-> holder, from |-> result[at[holder]], how |-> matrix[holder]]
  /\ IF at[holder] < Arms
     THEN stage' = "clear" /\ at' = [at EXCEPT ![holder] = @ + 1]
     ELSE stage' = "over" /\ UNCHANGED at
  /\ Becomes(holder, "none")
  /\ UNCHANGED <<lockVars, servers, result, runner, waited, mishaps>>

Leaves(j, how) ==
  /\ CardLock!Give(j)
  /\ shell' = [shell EXCEPT ![j] = how]
  /\ said' = NothingSaid
  /\ UNCHANGED <<stage, at, matrix, servers, result, runner, waited>>

\* Mutant of Release: the handler does not wait for the run.
ReleaseAtOnce(j) == Leaves(j, "done") /\ UNCHANGED mishaps

\* The arms are over, or INT or TERM has come: the handler runs when the command
\* in the foreground has returned.
Release(j) == ~InRun(j) /\ Leaves(j, "done") /\ UNCHANGED mishaps

\* SIGKILL leaves that command running.
Killed(j) == Leaves(j, "dead") /\ Mishap

-----------------------------------------------------------------------------
(* The runner.                                                             *)

RunnerAt(from, to) == runner = from /\ runner' = to

RunnerStarts ==
  /\ RunnerAt("idle", "kill")
  /\ UNCHANGED <<lockVars, stage, at, matrix, servers, result, said, waited, mishaps>>

\* kill_own_gpus, before the wait.
RunnerKills ==
  /\ RunnerAt("kill", "wait")
  /\ KillOnCards
  /\ UNCHANGED <<lockVars, stage, at, matrix, result, said, waited>>

Held == \E s \in servers : s.is # "loading"

NotRead == {[s EXCEPT !.missed = @ \/ s.of = Runner] : s \in servers}

\* Mutant of CaseStarts: the cases start when the cards were cleared.
CaseStartsAnyway ==
  /\ RunnerAt("wait", "run")
  /\ Becomes(Runner, "setup") /\ waited' = 0
  /\ UNCHANGED <<lockVars, stage, at, servers, result, said, mishaps>>

\* wait_gpus_free; memory that cannot be read counts as free
CaseStarts ==
  /\ RunnerAt("wait", "run")
  /\ \/ ~Held /\ UNCHANGED <<servers, mishaps>>
     \/ servers' = NotRead /\ Mishap
  /\ Becomes(Runner, "setup") /\ waited' = 0
  /\ UNCHANGED <<lockVars, stage, at, result, said>>

KeepsWaiting ==
  /\ runner = "wait" /\ Held /\ waited < MaxWait
  /\ KillOnCards /\ waited' = waited + 1
  /\ UNCHANGED <<lockVars, stage, at, matrix, result, said, runner>>

NextCase ==
  IF at[Runner] < Cases
  THEN runner' = "kill" /\ at' = [at EXCEPT ![Runner] = @ + 1]
  ELSE runner' = "done" /\ UNCHANGED at

Contaminated ==
  /\ runner = "wait" /\ Held /\ waited = MaxWait
  /\ NextCase /\ waited' = 0
  /\ UNCHANGED <<lockVars, stage, matrix, servers, result, said, mishaps>>

\* the run has returned: kill_own_gpus once more, and a RESULT line
CaseEnds ==
  /\ runner = "run" /\ ~InRun(Runner)
  /\ KillOnCards /\ Becomes(Runner, "none")
  /\ NextCase
  /\ UNCHANGED <<lockVars, stage, result, said, waited>>

RunnerStep ==
  \/ RunnerKills \/ CaseStarts \/ KeepsWaiting \/ Contaminated \/ CaseEnds

-----------------------------------------------------------------------------
RunStep(p) == LaunchServer(p) \/ Healthy(p) \/ Ends(p) \/ TimesOut(p)

Uses ==
  \/ \E j \in Study : Release(j) \/ Killed(j)
  \/ ClearCards \/ Report
  \/ \E p \in Process : RunStep(p)
  \/ \E s \in servers : ServerLoads(s) \/ ServerGone(s)
  \/ RunnerStep

BoxNext == Uses \/ RunnerStarts \/ \E j \in Study : Acquire(j)

BoxSpec == BoxInit /\ [][BoxNext]_boxVars

-----------------------------------------------------------------------------
(* Properties.                                                             *)

\* A study that clears the cards ends no server that another study uses, unless
\* that one's shell was killed and left its run behind: what is "correct in
\* isolation and destructive in company" is safe between studies.
ClearingSparesStudies ==
  [][stage = "clear" /\ stage' = "run" =>
       \A s \in servers \ servers' :
         s.of \in Study \ {holder} /\ InRun(s.of) => shell[s.of] = "dead"]_boxVars

Beside(p) == servers \ Own(p)

\* While an arm of a study is measured, what else is on the cards was not to be
\* seen when they were cleared (it was still loading, or the query failed), is not
\* to be killed any more, was left by a study that was killed, or is the runner's, which takes no lock.
StudyCompany ==
  holder # NoStudy /\ matrix[holder] = "measure" =>
    \A s \in Beside(holder) :
      s.of = Runner \/ s.missed \/ s.is = "stuck" \/ shell[s.of] = "dead"

\* While a case of the runner is measured, no server of an earlier case of it
\* holds memory beside it, killed or not, but one that was still loading when the
\* cards were looked at, or one on cards that could not be read: ${used:-0}.
RunnerCompany ==
  matrix[Runner] = "measure" =>
    \A s \in Beside(Runner) : s.of = Runner => s.missed

\* What a study reports of an arm was written by that arm's own run, if that
\* run came to write anything and no study was killed: a run that was left
\* behind may write a file of the same name at any time.
ReportedIsOwn ==
  said.how = "wrote" /\ (\A j \in Study : shell[j] # "dead") => said.from = said.by

\* tests/test_gpu_clearing_scripts_locked.sh: "A script that clears the cards must
\* hold the GPU lock first."  The code does not keep it: the runner clears
\* them without the lock, and the server of a study is among what it kills.
ClearsUnderLock ==
  [][runner = "kill" /\ runner' = "wait" => holder = NoStudy]_boxVars

=============================================================================
