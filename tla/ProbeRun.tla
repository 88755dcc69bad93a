------------------------------ MODULE ProbeRun ------------------------------
(***************************************************************************)
(* Invocations of the sglang probe in one output directory: the matrix     *)
(* file they share, the server each cell is given, the stream of events    *)
(* they append to, the summary, and the exit code.                         *)
(* (sglang_probe/runner.py: main, run_one_cell, ServerProcess.)            *)
(*                                                                         *)
(* The requests of a cell are ProbeCell's actions.  Writing a file takes   *)
(* two steps, and the probe may be killed at any of them; its servers,     *)
(* which lead sessions of their own, are not.  A server is the process     *)
(* that was started, its leader, and the workers of its group.  A file may *)
(* not be written at any time, for a full disk.                            *)
(***************************************************************************)
EXTENDS ProbeCell

CONSTANTS
  Matrices, (* what a matrix may have in the phases "smoke", "pairwise",    *)
            (* "targeted" and "stress" (ProbePairwise)                     *)
  Profiles, (* the values of --profile; "none" stands for no such option   *)
  Runs,     (* bound: invocations                                          *)
  Limits    (* the values of --limit; 0 stands for none                    *)

\* The profiles' phases (sglang_probe/profiles); all of them list phases in the
\* order smoke, pairwise, targeted, stress.
Phases(profile) ==
  CASE profile \in {"none", "daily_smoke"} -> {"smoke"}
    [] profile = "weekly_pairwise" -> {"smoke", "pairwise", "targeted"}
    [] profile = "release_full"    -> {"smoke", "pairwise", "targeted", "stress"}
    [] profile = "stress"          -> {"stress"}

ASSUME ProbeAssumption ==
  /\ \A m \in Matrices : DOMAIN m = {"smoke", "pairwise", "targeted", "stress"}
  \* products of lists, and lists that name nothing twice: cells have ids of their own
  /\ \A m \in Matrices : \A p \in DOMAIN m :
       /\ m[p] \in Seq(ToSet(m[p])) /\ IsInjective(m[p])
       /\ \A c \in ToSet(m[p]) : c.phase = p
  /\ Profiles \subseteq {"none", "daily_smoke", "weekly_pairwise", "release_full", "stress"}
  /\ Runs \in Nat /\ Limits \subseteq Nat

VARIABLES
  cells,   (* what build_matrix makes, from the fixed seed                *)
  run,     (* which invocation                                             *)
  pc,
  opts,    (* its options                                                  *)
  matrix,  (* matrix.json                                                  *)
  todo,    (* the cells still to run                                       *)
  mine,    (* the cells this invocation has collected                      *)
  attempt, (* of the start of a server                                     *)
  alive,   (* cells of this invocation whose server's leader runs          *)
  workers, (* cells of this invocation with workers of a server that run   *)
  early,   (* history: those a leader of which ended before its workers    *)
  givenUp, (* history: cells whose server nobody stops: for the health wait,*)
           (* a kill of the probe, or a full disk                          *)
  torn,    (* runs.jsonl has a line cut in the middle                      *)
  ended,   (* the last cell_end of each cell in runs.jsonl                 *)
  fails,   (* failures of this invocation                                  *)
  summary, (* the failed cells of summary.json                             *)
  reported, (* history: this invocation has written it                     *)
  exit     (* exit code: 2 when the invocation has none                    *)

report == <<summary, reported>>
files == <<matrix, torn, ended, report>>
procs == <<alive, workers, early, givenUp>>
AllCells == UNION {ToSet(cells[p]) : p \in DOMAIN cells}

vars == <<cellVars, cells, run, pc, opts, todo, mine, attempt, fails, exit, files, procs>>

\* The command "list" changes nothing and is left out; the others do not look at
\* --limit and --dry-run, but for "run".
Options ==
  [command : {"run"}, profile : Profiles, limit : Limits, dry : BOOLEAN,
   rebuild : BOOLEAN]
  \cup [command : {"catalog", "summarize"}, profile : Profiles, limit : {0},
        dry : {FALSE}, rebuild : BOOLEAN]

\* The file, and (as history: it does not say) the profile it was built for.
Absent == [state |-> "none", of |-> "none"]

\* The profiles whose max_pairwise_cells is not 0; without a profile it is 180.
Searched == {"none", "weekly_pairwise", "release_full"}

\* collect_cells.
Collected ==
  LET of(p) == IF /\ p \in Phases(opts.profile)
                  /\ p = "pairwise" => matrix.of \in Searched
               THEN cells[p] ELSE <<>>
      all == of("smoke") \o of("pairwise") \o of("targeted") \o of("stress")
  IN IF opts.limit = 0 \/ opts.limit > Len(all) THEN all
     ELSE SubSeq(all, 1, opts.limit)

\* launch_attempts.
Attempts == 5

Init ==
  /\ CellInit
  /\ cells \in Matrices
  /\ run = 0 /\ pc = "idle"
  /\ opts = CHOOSE o \in Options : TRUE
  /\ matrix = Absent
  /\ todo = <<>> /\ mine = {} /\ attempt = 0
  /\ alive = {} /\ workers = {} /\ early = {} /\ givenUp = {}
  /\ torn = FALSE /\ ended = [c \in AllCells |-> "none"]
  /\ fails = 0 /\ summary = {} /\ reported = FALSE /\ exit = 2

Goto(from, to) == pc = from /\ pc' = to

-----------------------------------------------------------------------------
(* Options and matrix.                                                     *)

Invoke ==
  /\ Goto("idle", "load")
  /\ run < Runs /\ run' = run + 1
  /\ opts' \in Options
  /\ fails' = 0 /\ exit' = 2 /\ hurt' = FALSE /\ unseen' = FALSE /\ mine' = {}
  /\ reported' = FALSE
  /\ alive' = {} /\ workers' = {} /\ early' = {} /\ givenUp' = {}
  /\ UNCHANGED <<server, step, n, good, job, cells, todo, attempt, matrix, torn, ended, summary>>

\* An invocation that ends by an exception.
Abort == pc' = "idle" /\ exit' = 1 /\ todo' = <<>>

\* load_or_build_matrix: a matrix that is there is taken, whatever profile it
\* was built for.
Load ==
  /\ pc = "load"
  /\ \/ matrix.state = "torn" /\ ~opts.rebuild /\ Abort /\ UNCHANGED matrix
     \/ /\ matrix.state = "whole" /\ ~opts.rebuild
        /\ pc' = "collect" /\ UNCHANGED <<matrix, exit, todo>>
     \/ /\ matrix.state = "none" \/ opts.rebuild
        /\ matrix' = [Absent EXCEPT !.state = "torn"]
        /\ pc' = "write" /\ UNCHANGED <<exit, todo>>
  /\ UNCHANGED <<cellVars, cells, run, opts, mine, attempt, fails, torn, ended, report, procs>>

\* write_json has written all of it.
Write ==
  /\ Goto("write", "collect")
  /\ matrix' = [state |-> "whole", of |-> opts.profile]
  /\ UNCHANGED <<cellVars, cells, run, opts, todo, mine, attempt, fails, exit, torn,
                 ended, report, procs>>

\* The command "catalog" writes the matrix again, from what was loaded.
Catalogue ==
  /\ opts.command = "catalog"
  /\ \/ Goto("collect", "rewrite") /\ matrix' = [matrix EXCEPT !.state = "torn"]
        /\ UNCHANGED exit
     \/ Goto("rewrite", "idle") /\ matrix' = [matrix EXCEPT !.state = "whole"]
        /\ exit' = 0
  /\ UNCHANGED <<cellVars, cells, run, opts, todo, mine, attempt, fails, torn, ended, report, procs>>

Collect ==
  /\ Goto("collect", "next")
  /\ \/ opts.command = "run" /\ todo' = Collected /\ mine' = ToSet(Collected)
     \/ opts.command = "summarize" /\ UNCHANGED <<todo, mine>>
  /\ UNCHANGED <<cellVars, cells, run, opts, attempt, fails, exit, files, procs>>

-----------------------------------------------------------------------------
(* A cell.                                                                 *)

cell == Head(todo)

Beside == <<cells, run, opts, todo, mine, attempt, fails, exit, files, procs>>

Ends(ok) == pc' = "end" /\ good' = ok

\* The cell_end event (after a cell_error, if there was an exception), and main's
\* count.
CellEnd ==
  /\ Goto("end", "next")
  /\ ended' = [ended EXCEPT ![cell] = IF good THEN "ok" ELSE "failed"]
  /\ fails' = IF good THEN fails ELSE fails + 1
  /\ todo' = Tail(todo) /\ attempt' = 0 /\ good' = TRUE
  /\ UNCHANGED <<server, step, n, job, hurt, unseen, cells, run, opts, mine, exit, matrix,
                 torn, report, procs>>

\* A dry run plans the cell's command, and records that the cell is fine.
DryCell ==
  /\ pc = "next" /\ todo # <<>> /\ opts.dry
  /\ Ends(TRUE)
  /\ UNCHANGED <<server, step, n, job, hurt, unseen, Beside>>

\* run_subprocess_cell: an exit code, a timeout, or a command that does not start.
OfflineCell ==
  /\ pc = "next" /\ todo # <<>> /\ ~opts.dry /\ cell.entrypoint \in Offline
  /\ \E ok \in BOOLEAN : Ends(ok) /\ hurt' = (hurt \/ ~ok)
  /\ UNCHANGED <<server, step, n, job, unseen, Beside>>

ServerCell ==
  /\ Goto("next", "launch")
  /\ todo # <<>> /\ ~opts.dry /\ cell.entrypoint \notin Offline
  /\ attempt' = 1
  /\ UNCHANGED <<cellVars, cells, run, opts, todo, mine, fails, exit, files, procs>>

Launch ==
  /\ Goto("launch", "health")
  /\ server' = "loading"
  /\ alive' = alive \cup {cell} /\ workers' = workers \cup {cell}
  /\ UNCHANGED <<step, n, good, job, hurt, unseen, cells, run, opts, todo, mine, attempt,
                 fails, exit, files, early, givenUp>>

\* There is no such command, or its event cannot be written.
LaunchFails ==
  /\ pc = "launch"
  /\ Ends(FALSE)
  /\ UNCHANGED <<server, step, n, job, hurt, unseen, Beside>>

\* The whole group of the cell's server is gone; not the workers that an earlier
\* attempt has left.
GroupGone ==
  /\ alive' = alive \ {cell}
  /\ workers' = IF cell \in early THEN workers ELSE workers \ {cell}
  /\ UNCHANGED early

\* The leader is gone, and perhaps not its workers.
LeaderGone ==
  \/ GroupGone
  \/ alive' = alive \ {cell} /\ early' = early \cup {cell} /\ UNCHANGED workers

\* The server answers /health, or its leader exits: for a port that was taken since
\* it was found free, or for another reason.
ServerStarts ==
  /\ pc = "health" /\ server = "loading"
  /\ \/ server' = "up" /\ UNCHANGED <<alive, workers, early>>
     \/ server' = "dead" /\ LeaderGone
  /\ UNCHANGED <<step, n, good, job, hurt, unseen, cells, run, pc, opts, todo, mine,
                 attempt, fails, exit, files, givenUp>>

Healthy ==
  /\ Goto("health", "requests")
  /\ server = "up"
  /\ Begin
  /\ UNCHANGED <<server, hurt, unseen, cells, run, opts, todo, mine, attempt, fails, exit,
                 files, procs>>

\* Mutant of Exited: the attempts are not counted.
ExitedAgain ==
  /\ pc = "health" /\ server = "dead"
  /\ server' = "none"
  /\ \/ pc' = "launch" /\ UNCHANGED <<attempt, good>>
     \/ Ends(FALSE) /\ UNCHANGED attempt
  /\ UNCHANGED <<step, n, job, hurt, unseen, cells, run, opts, todo, mine, fails, exit,
                 files, procs>>

\* RuntimeError: another attempt, with other ports, if the end of the log tells
\* of ports; else the cell has failed.  Either may happen, whatever this server
\* died of: the log is appended to, and what an earlier start has said may still
\* be among its last lines.  start calls stop, which finds the leader gone.
Exited ==
  /\ pc = "health" /\ server = "dead"
  /\ server' = "none"
  /\ \/ /\ attempt < Attempts
        /\ pc' = "launch" /\ attempt' = attempt + 1 /\ UNCHANGED good
     \/ Ends(FALSE) /\ UNCHANGED attempt
  /\ UNCHANGED <<step, n, job, hurt, unseen, cells, run, opts, todo, mine, fails, exit,
                 files, procs>>

\* TimeoutError is not what start catches: nobody stops the server.
HealthTimeout ==
  /\ pc = "health"
  /\ server' = "none"
  /\ givenUp' = givenUp \cup {cell}
  /\ Ends(FALSE)
  /\ UNCHANGED <<step, n, job, hurt, unseen, cells, run, opts, todo, mine, attempt, fails,
                 exit, files, alive, workers, early>>

Outside == <<cells, run, pc, opts, todo, mine, attempt, fails, exit, files, procs>>

RequestStep == pc = "requests" /\ CellStep(cell) /\ UNCHANGED Outside

\* The environment's steps under a cell.
JobStep == pc = "requests" /\ JobEnds(cell) /\ UNCHANGED Outside

Dies ==
  /\ pc = "requests" /\ ServerDies
  /\ LeaderGone
  /\ UNCHANGED <<cells, run, pc, opts, todo, mine, attempt, fails, exit, files, givenUp>>

Requested ==
  /\ Goto("requests", "stop")
  /\ step = "done"
  /\ UNCHANGED <<cellVars, cells, run, opts, todo, mine, attempt, fails, exit, files, procs>>

\* An answer the code cannot read, or a full disk: the cell's exception is kept
\* for its record, after stop.
Raises ==
  /\ Goto("requests", "stop")
  /\ step # "done" /\ good' = FALSE /\ step' = "done" /\ n' = 0 /\ job' = "none"
  /\ UNCHANGED <<server, hurt, unseen, cells, run, opts, todo, mine, attempt, fails, exit,
                 files, procs>>

-----------------------------------------------------------------------------
(* ServerProcess.stop.                                                     *)

\* The leader may exit when the last request is answered.
DiesLate ==
  /\ pc = "stop" /\ server = "up"
  /\ server' = "dead"
  /\ LeaderGone
  /\ UNCHANGED <<step, n, good, job, hurt, unseen, cells, run, pc, opts, todo, mine, attempt,
                 fails, exit, files, givenUp>>

Forget == server' = "none" /\ step' = "off" /\ job' = "none" /\ n' = 0

\* The leader has exited: its workers are left to themselves.  The event that says
\* so may fail.
StopGone ==
  /\ server = "dead"
  /\ Ends(good) \/ Ends(FALSE)
  /\ UNCHANGED procs

\* SIGTERM to the group, and the leader ends within 30 seconds; nobody waits for
\* its workers.
StopTerm ==
  /\ server # "dead"
  /\ LeaderGone /\ Ends(good)
  /\ UNCHANGED givenUp

\* It does not: SIGKILL to the group.
StopKill ==
  /\ server # "dead"
  /\ GroupGone /\ Ends(good)
  /\ UNCHANGED givenUp

\* The event server_stop cannot be written: the exception comes before the signal.
StopUnrecorded ==
  /\ server # "dead"
  /\ givenUp' = givenUp \cup {cell}
  /\ Ends(FALSE)
  /\ UNCHANGED <<alive, workers, early>>

\* Mutant of Stop: only after requests that went well.
StopIfGood ==
  /\ pc = "stop" /\ Forget
  /\ \/ good /\ (StopGone \/ StopTerm \/ StopKill \/ StopUnrecorded)
     \/ ~good /\ Ends(FALSE) /\ UNCHANGED procs
  /\ UNCHANGED <<hurt, unseen, cells, run, opts, todo, mine, attempt, fails, exit, files>>

Stop ==
  /\ pc = "stop" /\ Forget
  /\ StopGone \/ StopTerm \/ StopKill \/ StopUnrecorded
  /\ UNCHANGED <<hurt, unseen, cells, run, opts, todo, mine, attempt, fails, exit, files>>

-----------------------------------------------------------------------------
\* Mutant of Summarize: the cells that this invocation has seen fail.
SummarizeSeen ==
  /\ pc = "next" /\ todo = <<>> /\ ~torn
  /\ pc' = "idle"
  /\ summary' = {c \in AllCells : ended[c] = "failed" /\ c \notin mine}
  /\ reported' = TRUE
  /\ exit' = IF fails > 0 THEN 1 ELSE 0
  /\ UNCHANGED <<cellVars, cells, run, opts, todo, mine, attempt, fails, matrix, torn, ended, procs>>

\* summarize_runs reads the whole stream, of every invocation.
Summarize ==
  /\ pc = "next" /\ todo = <<>> /\ ~torn
  /\ pc' = "idle"
  /\ summary' = {c \in AllCells : ended[c] = "failed"}
  /\ reported' = TRUE
  /\ exit' = IF fails > 0 THEN 1 ELSE 0
  /\ UNCHANGED <<cellVars, cells, run, opts, todo, mine, attempt, fails, matrix, torn, ended, procs>>

\* A line that is cut cannot be read: no summary any more.
SummaryFails ==
  /\ pc = "next" /\ todo = <<>> /\ torn
  /\ Abort
  /\ UNCHANGED <<cellVars, cells, run, opts, mine, attempt, fails, files, procs>>

\* A full disk, where nobody catches it: the matrix or the summary stays cut, or the
\* stream, by the event that begins a cell or by those that end it.
Unwritten ==
  /\ \/ pc \in {"write", "rewrite"} /\ UNCHANGED torn
     \/ pc = "next" /\ todo = <<>> /\ ~torn /\ UNCHANGED torn
     \/ ((pc = "next" /\ todo # <<>>) \/ pc = "end") /\ torn' \in {torn, TRUE}
  /\ Abort /\ attempt' = 0 /\ good' = TRUE
  /\ UNCHANGED <<server, step, n, job, hurt, unseen, cells, run, opts, mine, fails, matrix,
                 ended, report, procs>>

\* The probe is killed, perhaps while it appends an event.
Kill ==
  /\ pc # "idle" /\ pc' = "idle"
  /\ exit' = 2 /\ todo' = <<>> /\ attempt' = 0
  /\ torn' \in {torn, TRUE}
  /\ givenUp' = IF pc \in {"health", "requests", "stop"}
                 THEN givenUp \cup {cell} ELSE givenUp
  /\ server' = "none" /\ step' = "off" /\ job' = "none" /\ n' = 0 /\ good' = TRUE
  /\ UNCHANGED <<hurt, unseen, cells, run, opts, mine, fails, matrix, ended, report, alive,
                 workers, early>>

ProbeStep ==
  \/ Load \/ Write \/ Catalogue \/ Collect \/ DryCell \/ OfflineCell \/ ServerCell \/ Launch \/ LaunchFails
  \/ Healthy \/ Exited \/ HealthTimeout \/ RequestStep \/ Requested \/ Raises
  \/ Stop \/ CellEnd \/ Summarize \/ SummaryFails \/ Unwritten

Next == Invoke \/ ProbeStep \/ ServerStarts \/ JobStep \/ Dies \/ DiesLate \/ Kill

Spec == Init /\ [][Next]_vars

\* Every wait of the probe has a deadline, so it has always a step to take.
FairSpec == Spec /\ WF_vars(ProbeStep)

-----------------------------------------------------------------------------
(* Properties.                                                             *)

\* An invocation that exits with 0 has collected cells that all ended well, and
\* under none of them has a server died before the last request was answered or
\* a job failed whose id the server had named: no shortcut of the checks swallows it.
CleanExit ==
  exit = 0 => ~hurt /\ \A c \in mine : ended[c] = "ok"

\* What a reader of the exit code may take it for: no accepted job has failed.  TLC
\* refutes it, for a job that is accepted by an answer without an id is not polled.
CleanExitOfJobs == exit = 0 => ~hurt /\ ~unseen

\* The summary that an invocation has written and its exit code, which are made from
\* different things (a stream on disk, a counter), agree about its cells.
SummaryAgrees ==
  reported =>
    exit \in {0, 1} /\ (exit = 1 <=> summary \cap mine # {})

\* No leader of a server is left by an invocation that exits with 0.  One that holds
\* the GPUs beside the server of the cell at hand was given up by a health wait that
\* timed out or by a stop that could not write its event, and its cell is on record
\* as failed; only a kill of the probe, or a disk too full for the record, leaves one
\* that is not.  Workers go on without a leader only where it ended before them.
LeftIsFailed ==
  /\ exit = 0 => alive = {}
  /\ \A s \in alive :
       \/ pc # "idle" /\ todo # <<>> /\ s = cell
       \/ s \in givenUp /\ (pc # "idle" => ended[s] = "failed")
  /\ workers \subseteq alive \cup early

\* What stop's signals to the whole group may be taken to promise: an invocation that
\* exits with 0 leaves no process.  TLC refutes it: a leader that has exited, or ends
\* within its 30 seconds, may leave workers that nobody looks for.
NothingLeft == exit = 0 => workers = {}

\* An invocation ends, whatever servers and jobs do.
RunEnds == pc # "idle" ~> pc = "idle"

=============================================================================
