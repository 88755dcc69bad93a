----------------------------- MODULE CellServer -----------------------------
(***************************************************************************)
(* The server of a benchmark cell: run_case_framework, wait_for_health and *)
(* kill_server of run_comparison.py, for the cells of one run, one after   *)
(* another on one port.  A server is a process group: the leader the       *)
(* harness started and waits for, and the workers it started itself.  Its  *)
(* HTTP socket is in one or the other, as the framework has it (uvicorn in *)
(* the leader, or in a rank that a launcher started).                      *)
(*                                                                         *)
(* One iteration of a polling loop is one action: it looks at the process, *)
(* at what the log thread has read so far, and at the port, in that order. *)
(* A measurement is one action that is answered by whoever holds the port. *)
(***************************************************************************)
EXTENDS Naturals

CONSTANTS
  Last,     (* the cells of the run are 1..Last, in the order they run     *)
  Sglang    (* those of the sglang framework: its server moves to another  *)
            (* port when the one it was given is taken, and registers its  *)
            (* model routes after its /health answers                      *)

ASSUME CellAssumption ==
  /\ Last \in Nat \ {0}
  /\ Sglang \subseteq 1..Last

Cell == 1..Last

VARIABLES
  orphans,  (* can a worker outlive its leader?  A fact about the servers  *)
  cell,     (* the cell the harness is at; Last + 1 when the run is over   *)
  pc,       (* where run_case_framework stands in it                       *)
  leader,   (* the server's leader: proc of the code                       *)
  workers,  (* the rest of its process group                               *)
  http,     (* which of the two has the HTTP socket                        *)
  serve,    (* how far the server has come                                 *)
  pending,  (* lines in the output of the cell's server nobody has read    *)
  seen,     (* lines the log thread has recorded for the harness           *)
  reader,   (* the cell's log thread: it reads the server's output, has    *)
            (* come to its end ("eof"), has died on a line ("dead"), or    *)
            (* was still at work when the join's deadline passed ("late")  *)
  result,   (* the cell's row                                              *)
  answered, (* the cell whose server answered the cell's measurement       *)
  noted     (* native_fallback_components of the cell's row                *)

vars == <<orphans, cell, pc, leader, workers, http, serve, pending, seen,
          reader, result, answered, noted>>

server == <<leader, workers, http, serve, pending>>
log    == <<seen, reader>>
row    == <<result, answered, noted>>

Life == {"none", "up", "dying", "gone"}
Line == {"moved", "fallback"}

TypeOK ==
  /\ orphans \in BOOLEAN
  /\ cell \in 1..(Last + 1)
  /\ pc \in {"launch", "health", "routes", "measure", "kill", "term",
             "reap", "join", "attach", "clear", "done"}
  /\ cell = Last + 1 => pc = "done"
  /\ leader \in [Cell -> Life]
  /\ workers \in [Cell -> Life]
  /\ http \in [Cell -> {"leader", "workers"}]
  /\ serve \in [Cell -> {"none", "loading", "healthy", "ready", "elsewhere"}]
  /\ pending \in SUBSET Line
  /\ seen \in SUBSET Line
  /\ reader \in {"none", "reads", "eof", "dead", "late"}
  /\ result \in [Cell -> {"none", "ok", "error"}]
  /\ answered \in [Cell -> Cell \cup {0}]
  /\ noted \in SUBSET {"fallback"}

-----------------------------------------------------------------------------
Socket(c) == IF http[c] = "leader" THEN leader[c] ELSE workers[c]

\* The kernel closes the socket of a process when the process is gone; one
\* that is dying of SIGKILL still has it and no longer answers.
Holds(c) == serve[c] \in {"healthy", "ready"} /\ Socket(c) \in {"up", "dying"}
Answers(c) == Holds(c) /\ Socket(c) = "up"

PortTaken == \E c \in Cell : Holds(c)

\* What the leader's death does to the rest of its group.
WorkersAfterLeader(c) ==
  IF orphans \/ workers[c] = "none" THEN workers
  ELSE [workers EXCEPT ![c] = "gone"]

Init ==
  /\ orphans \in BOOLEAN
  /\ cell = 1
  /\ pc = "launch"
  /\ leader = [c \in Cell |-> "none"]
  /\ workers = [c \in Cell |-> "none"]
  /\ http \in [Cell -> {"leader", "workers"}]
  /\ \A c, d \in Sglang : http[c] = http[d]
  /\ serve = [c \in Cell |-> "none"]
  /\ pending = {}
  /\ seen = {}
  /\ reader = "none"
  /\ result = [c \in Cell |-> "none"]
  /\ answered = [c \in Cell |-> 0]
  /\ noted = {}

-----------------------------------------------------------------------------
(* The server's own steps.                                                 *)

\* sglang prints that it loaded a component through its native fallback.
LogFallback(c) ==
  /\ c \in Sglang /\ leader[c] = "up" /\ serve[c] = "loading"
  /\ "fallback" \notin pending \cup seen
  /\ pending' = pending \cup {"fallback"}
  /\ UNCHANGED <<orphans, cell, pc, leader, workers, http, serve, log, row>>

\* It binds its socket, and answers /health from then on.
Bind(c) ==
  /\ leader[c] = "up" /\ serve[c] = "loading" /\ ~PortTaken
  /\ serve' = [serve EXCEPT ![c] = IF c \in Sglang THEN "healthy" ELSE "ready"]
  /\ UNCHANGED <<orphans, cell, pc, leader, workers, http, pending, log, row>>

\* The port is taken: sglang says so and takes another, the others fail.
BindTaken(c) ==
  /\ leader[c] = "up" /\ serve[c] = "loading" /\ PortTaken
  /\ IF c \in Sglang
     THEN /\ serve' = [serve EXCEPT ![c] = "elsewhere"]
          /\ pending' = pending \cup {"moved"}
          /\ UNCHANGED <<leader, workers>>
     ELSE /\ leader' = [leader EXCEPT ![c] = "gone"]
          /\ workers' = WorkersAfterLeader(c)
          /\ UNCHANGED <<serve, pending>>
  /\ UNCHANGED <<orphans, cell, pc, http, log, row>>

\* sglang registers its model routes.
Ready(c) ==
  /\ serve[c] = "healthy" /\ Socket(c) = "up"
  /\ serve' = [serve EXCEPT ![c] = "ready"]
  /\ UNCHANGED <<orphans, cell, pc, leader, workers, http, pending, log, row>>

\* The leader ends: it crashes, obeys TERM, or has released its memory.
LeaderEnds(c) ==
  /\ leader[c] \in {"up", "dying"}
  /\ leader' = [leader EXCEPT ![c] = "gone"]
  /\ workers' = WorkersAfterLeader(c)
  /\ UNCHANGED <<orphans, cell, pc, http, serve, pending, log, row>>

WorkersEnd(c) ==
  /\ workers[c] \in {"up", "dying"}
  /\ workers' = [workers EXCEPT ![c] = "gone"]
  /\ UNCHANGED <<orphans, cell, pc, leader, http, serve, pending, log, row>>

ServerStep ==
  \E c \in Cell : \/ LogFallback(c) \/ Bind(c) \/ BindTaken(c) \/ Ready(c)
                  \/ LeaderEnds(c) \/ WorkersEnd(c)

-----------------------------------------------------------------------------
(* The log thread (_log_pipe), as long as the log file is open.            *)

Gone(life) == life \in {"none", "gone"}

\* A line it has read when the harness looks at its lists is recorded; a thread
\* that is late at the join reads on until the file is closed.
ReadLine ==
  /\ \/ pc \notin {"launch", "attach", "clear", "done"} /\ reader = "reads"
     \/ pc = "attach" /\ reader = "late"
  /\ \E l \in pending :
       /\ pending' = pending \ {l}
       /\ seen' = seen \cup {l}
  /\ UNCHANGED <<orphans, cell, pc, leader, workers, http, serve, reader, row>>

\* The end of the output: every process that has the pipe is gone, and every
\* line is read.
ReaderEnds ==
  /\ reader = "reads" /\ pending = {}
  /\ Gone(leader[cell]) /\ Gone(workers[cell])
  /\ reader' = "eof"
  /\ UNCHANGED <<orphans, cell, pc, server, seen, row>>

\* A chunk of the output cannot be decoded: UnicodeDecodeError is a ValueError,
\* which ends the thread without a word. What it had not recorded is lost.
ReaderDies ==
  /\ reader = "reads"
  /\ reader' = "dead"
  /\ UNCHANGED <<orphans, cell, pc, server, seen, row>>

LogStep == ReadLine \/ ReaderEnds \/ ReaderDies

-----------------------------------------------------------------------------
(* The harness.                                                            *)

Goto(from, to) == pc = from /\ pc' = to

\* An exception reaches run_case_framework: the row is an error, and the
\* finally clause kills the server.
Fail(from) ==
  /\ Goto(from, "kill")
  /\ result' = [result EXCEPT ![cell] = "error"]
  /\ UNCHANGED <<orphans, cell, server, log, answered, noted>>

\* Popen: a group of its own, whose output the log thread reads.
Launch ==
  /\ Goto("launch", "health")
  /\ leader' = [leader EXCEPT ![cell] = "up"]
  /\ workers' = [workers EXCEPT ![cell] = "up"]
  /\ serve' = [serve EXCEPT ![cell] = "loading"]
  /\ reader' = "reads"
  /\ UNCHANGED <<orphans, cell, http, pending, seen, row>>

\* The preflight, the choice of GPUs or the ComfyUI workspace fails first.
LaunchFails == Fail("launch")

Exited == leader[cell] = "gone"
Moved == "moved" \in seen
SomeAnswer(states) == \E d \in Cell : Answers(d) /\ serve[d] \in states

HealthPasses ==
  /\ Goto("health", IF cell \in Sglang THEN "routes" ELSE "measure")
  /\ ~Exited /\ ~Moved /\ SomeAnswer({"healthy", "ready"})
  /\ UNCHANGED <<orphans, cell, server, log, row>>

\* The process exited, the log reports another port, or the deadline passed.
HealthFails ==
  /\ Fail("health")
  /\ Exited \/ Moved \/ ~SomeAnswer({"healthy", "ready"})

\* /v1/models of sglang.  This loop no longer looks at startup_errors.
RoutesPass ==
  /\ Goto("routes", "measure")
  /\ ~Exited /\ SomeAnswer({"ready"})
  /\ UNCHANGED <<orphans, cell, server, log, row>>

RoutesFail ==
  /\ Fail("routes")
  /\ Exited \/ ~SomeAnswer({"ready"})

\* Warmups and measured requests, answered by whatever server has the port.
Measure ==
  /\ Goto("measure", "kill")
  /\ \E d \in Cell :
       /\ Answers(d)
       /\ answered' = [answered EXCEPT ![cell] = d]
  /\ result' = [result EXCEPT ![cell] = "ok"]
  /\ UNCHANGED <<orphans, cell, server, log, noted>>

MeasureFails == Fail("measure")

\* kill_server does nothing for a server that was not started or has exited;
\* it sends TERM to the group of one that runs.
Kill ==
  /\ Goto("kill", IF leader[cell] = "up" THEN "term" ELSE "join")
  /\ UNCHANGED <<orphans, cell, server, log, row>>

\* The leader is reaped within 30 seconds of TERM.
Terminated ==
  /\ Goto("term", "join")
  /\ leader[cell] = "gone"
  /\ UNCHANGED <<orphans, cell, server, log, row>>

\* Mutant of TermTimeout: the code warns and goes on.
TermTimeoutWarns ==
  /\ Goto("term", "reap")
  /\ leader[cell] = "up"
  /\ UNCHANGED <<orphans, cell, server, log, row>>

\* It is not, and the group is sent SIGKILL.
TermTimeout ==
  /\ Goto("term", "reap")
  /\ leader[cell] = "up"
  /\ leader' = [leader EXCEPT ![cell] = "dying"]
  /\ workers' = [workers EXCEPT ![cell] = IF @ = "up" THEN "dying" ELSE @]
  /\ UNCHANGED <<orphans, cell, http, serve, pending, log, row>>

\* Mutant of Reaped: the second wait has no deadline.
ReapedOnly ==
  /\ Goto("reap", "join")
  /\ leader[cell] = "gone"
  /\ UNCHANGED <<orphans, cell, server, log, row>>

\* The second wait ends with the leader reaped, or with a warning.
Reaped ==
  /\ Goto("reap", "join")
  /\ UNCHANGED <<orphans, cell, server, log, row>>

\* Mutant of Join: the harness does not wait for the log thread.
JoinNothing ==
  /\ Goto("join", "attach")
  /\ UNCHANGED <<orphans, cell, server, log, row>>

\* log_thread.join: the thread has ended, in whatever way, or never was.
Join ==
  /\ Goto("join", "attach")
  /\ reader \in {"none", "eof", "dead"}
  /\ UNCHANGED <<orphans, cell, server, log, row>>

\* timeout=5: some process still has the pipe, or the thread has not kept up.
JoinTimesOut ==
  /\ Goto("join", "attach")
  /\ reader = "reads"
  /\ reader' = "late"
  /\ UNCHANGED <<orphans, cell, server, seen, row>>

Attach ==
  /\ Goto("attach", "clear")
  /\ noted' = seen \cap {"fallback"}
  /\ UNCHANGED <<orphans, cell, server, log, result, answered>>

\* GPU_CLEAR_WAIT, and on to the next cell, which has a thread, lists and a row
\* of its own.
Clear ==
  /\ Goto("clear", IF cell = Last THEN "done" ELSE "launch")
  /\ cell' = cell + 1
  /\ pending' = {} /\ seen' = {} /\ reader' = "none" /\ noted' = {}
  /\ UNCHANGED <<orphans, leader, workers, http, serve, result, answered>>

HarnessStep ==
  \/ Launch \/ LaunchFails
  \/ HealthPasses \/ HealthFails \/ RoutesPass \/ RoutesFail
  \/ Measure \/ MeasureFails
  \/ Kill \/ Terminated \/ TermTimeout \/ Reaped
  \/ Join \/ JoinTimesOut \/ Attach \/ Clear

Next == HarnessStep \/ LogStep \/ ServerStep

Spec == Init /\ [][Next]_vars

\* Every wait of the harness has a deadline.  Nothing is assumed of servers.
FairSpec == Spec /\ WF_vars(HarnessStep)

-----------------------------------------------------------------------------
(* Properties.                                                             *)

\* A measured row was answered by the server its own cell started, so the
\* latency under a framework's name is that framework's, wherever the workers
\* of a server end with their leader.  Earlier servers that are slow to die,
\* take the port, crash or move are all in the model.
OwnServerMeasured ==
  ~orphans => \A c \in Cell : result[c] = "ok" => answered[c] = c

\* kill_server waits for the leader or kills it: the leader of an earlier cell
\* is never running while a later cell is measured on the same cards.
EarlierLeadersDown == \A c \in Cell : c < cell => leader[c] # "up"

\* A row is there to be handed on, of a cell whose server told of a fallback.
FellBack ==
  pc = "clear" /\ result[cell] = "ok" /\ "fallback" \in seen \cup pending

\* A measured row whose server said it fell back to a native component says so
\* itself, wherever the log thread came to the end of the server's output: the
\* row is made from a list that another thread fills, after the server is gone.
FallbackNoted == FellBack /\ reader \notin {"dead", "late"} => "fallback" \in noted

\* "Say so in the result rather than leaving it in a server log nobody greps",
\* without the premise on the log thread. The code does not keep it: the thread
\* ends on a line it cannot decode, and is waited for for 5 seconds only, which
\* a worker that still has the pipe outlasts.
FallbackAlwaysNoted == FellBack => "fallback" \in noted

\* The run gets past every cell, whatever its server does: no server that
\* hangs, ignores TERM or cannot be reaped blocks the matrix.
RunEnds == <>(pc = "done")

\* "A server that moves off the requested HTTP port must fail the start at
\* once": a cell whose server has moved is not measured afterwards. The code
\* does not keep it: startup_errors is not looked at once /health has answered.
MovedServerFailsItsCell ==
  [][\A c \in Cell : /\ serve[c] = "elsewhere"
                     /\ result'[c] = "ok"
                     => result[c] = "ok"]_vars

=============================================================================
