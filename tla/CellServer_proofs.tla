--------------------------- MODULE CellServer_proofs --------------------------
(***************************************************************************)
(* Whose server a cell measures, for any number of cells, whatever their   *)
(* servers do.                                                             *)
(***************************************************************************)
EXTENDS CellServer, TLAPS

-----------------------------------------------------------------------------
(* The inductive invariant.                                                *)

\* The cells the harness is done with: no server of theirs is left to run.
Over(c) == c < cell \/ (c = cell /\ pc \in {"join", "attach", "clear"})

\* Nothing has happened to the cells that are still to come.
Ahead ==
  \A c \in Cell : c > cell \/ (c = cell /\ pc = "launch") =>
    /\ leader[c] = "none" /\ workers[c] = "none" /\ serve[c] = "none"
    /\ result[c] = "none"

Down ==
  /\ \A c \in Cell : Over(c) => leader[c] # "up"
  /\ pc = "reap" => leader[cell] # "up"

\* Where workers end with their leader, none of them serves without it.
Together == ~orphans => \A c \in Cell : leader[c] # "up" => workers[c] # "up"

\* The thread of a cell that has been launched is one of four things when the
\* harness no longer waits for it, and one that came to the end of the output
\* has read every line: nobody is left to write another.
Drained ==
  /\ reader = "none" => seen = {}
  /\ reader \in {"none", "eof"} =>
       /\ pending = {}
       /\ \A c \in Cell : c = cell => leader[c] # "up"
  /\ pc \in {"attach", "clear"} => reader # "reads"
  /\ pc = "clear" /\ "fallback" \in seen => "fallback" \in noted
  /\ pc = "launch" => reader = "none"
  /\ pc = "done" => reader = "none"

ServerInv ==
  /\ TypeOK /\ Ahead /\ Down /\ Together /\ Drained
  /\ OwnServerMeasured

-----------------------------------------------------------------------------
LEMMA ServerInit == Init => ServerInv
BY CellAssumption DEF Init, ServerInv, TypeOK, Ahead, Down, Together, Drained,
   OwnServerMeasured, Over, Cell, Life, Line

\* The cell is one of the run's while the harness is at work.
LEMMA AtCell == TypeOK /\ pc # "done" => cell \in Cell
BY CellAssumption DEF TypeOK, Cell

LEMMA ServerTypes == TypeOK /\ [Next]_vars => TypeOK'
<1>. SUFFICES ASSUME TypeOK, [Next]_vars PROVE TypeOK'
  OBVIOUS
<1>. USE CellAssumption DEF TypeOK, Goto, row, server, log
<1>1. ASSUME NEW c \in Cell, LogFallback(c) PROVE TypeOK'
  BY <1>1 DEF LogFallback, Line
<1>2. ASSUME NEW c \in Cell, Bind(c) PROVE TypeOK'
  BY <1>2 DEF Bind
<1>3. ASSUME NEW c \in Cell, BindTaken(c) PROVE TypeOK'
  BY <1>3 DEF BindTaken, WorkersAfterLeader, Line, Life
<1>4. ASSUME NEW c \in Cell, Ready(c) PROVE TypeOK'
  BY <1>4 DEF Ready
<1>5. ASSUME NEW c \in Cell, LeaderEnds(c) PROVE TypeOK'
  BY <1>5 DEF LeaderEnds, WorkersAfterLeader, Life
<1>6. ASSUME NEW c \in Cell, WorkersEnd(c) PROVE TypeOK'
  BY <1>6 DEF WorkersEnd, Life
<1>7. CASE LogStep
  BY <1>7 DEF LogStep, ReadLine, ReaderEnds, ReaderDies
<1>8. CASE LaunchFails \/ HealthFails \/ RoutesFail \/ MeasureFails
  BY <1>8 DEF LaunchFails, HealthFails, RoutesFail, MeasureFails, Fail, Cell
<1>9. CASE Launch
  BY <1>9 DEF Launch, Life, Cell
<1>10. CASE HealthPasses \/ RoutesPass \/ Kill \/ Terminated \/ Reaped
  BY <1>10 DEF HealthPasses, RoutesPass, Kill, Terminated, Reaped, Cell
<1>11. CASE Measure
  BY <1>11 DEF Measure, Cell
<1>12. CASE TermTimeout
  BY <1>12 DEF TermTimeout, Life, Cell
<1>13. CASE Join \/ JoinTimesOut
  BY <1>13 DEF Join, JoinTimesOut
<1>14. CASE Attach
  BY <1>14, AtCell DEF Attach
<1>15. CASE Clear
  BY <1>15, AtCell DEF Clear, Cell
<1>16. CASE UNCHANGED vars
  BY <1>16 DEF vars
<1>. QED
  BY <1>1, <1>2, <1>3, <1>4, <1>5, <1>6, <1>7, <1>8, <1>9, <1>10, <1>11,
     <1>12, <1>13, <1>14, <1>15, <1>16 DEF Next, HarnessStep, ServerStep

-----------------------------------------------------------------------------
(* One step.                                                               *)

\* Only the current cell's leader runs, and its thread has not come to the end.
LEMMA OneLeader ==
  ASSUME ServerInv, NEW c \in Cell, leader[c] = "up"
  PROVE  c = cell /\ reader \notin {"none", "eof"}
<1>1. ~(c < cell) /\ ~(c > cell)
  BY DEF ServerInv, Down, Over, Ahead
<1>2. c = cell
  BY <1>1, CellAssumption DEF ServerInv, TypeOK, Cell
<1>. QED
  BY <1>2 DEF ServerInv, Drained

\* What a server does by itself keeps everything but the types.
LEMMA ServerSteps ==
  ASSUME ServerInv, ServerStep
  PROVE  Ahead' /\ Down' /\ Together' /\ Drained' /\ OwnServerMeasured'
<1>. USE DEF ServerInv, TypeOK, Ahead, Down, Together, Drained, OwnServerMeasured,
         Over, row, log
<1>1. ASSUME NEW c \in Cell, LogFallback(c) PROVE Ahead' /\ Down' /\ Together' /\ Drained' /\ OwnServerMeasured'
  BY <1>1, OneLeader DEF LogFallback
<1>2. ASSUME NEW c \in Cell, Bind(c) PROVE Ahead' /\ Down' /\ Together' /\ Drained' /\ OwnServerMeasured'
  BY <1>2 DEF Bind
<1>3. ASSUME NEW c \in Cell, BindTaken(c) PROVE Ahead' /\ Down' /\ Together' /\ Drained' /\ OwnServerMeasured'
  <2>1. CASE c \in Sglang
    BY <1>3, <2>1, OneLeader DEF BindTaken
  <2>2. CASE c \notin Sglang
    <3>1. ~(c > cell \/ (c = cell /\ pc = "launch"))
      BY <1>3 DEF BindTaken
    <3>2. /\ leader' = [leader EXCEPT ![c] = "gone"]
          /\ workers' = IF orphans \/ workers[c] = "none" THEN workers
                        ELSE [workers EXCEPT ![c] = "gone"]
          /\ UNCHANGED <<orphans, cell, pc, serve, pending, seen, result, answered, noted>>
      BY <1>3, <2>2 DEF BindTaken, WorkersAfterLeader
    <3>3. Ahead'
      BY <3>1, <3>2
    <3>4. Down'
      BY <3>2
    <3>5. Together'
      BY <3>2
    <3>6. \A d \in Cell : leader'[d] = "up" => leader[d] = "up"
      BY <3>2
    <3>7. Drained'
      BY <1>3, <3>2, <3>6 DEF BindTaken
    <3>8. OwnServerMeasured'
      BY <3>2
    <3>. QED
      BY <3>3, <3>4, <3>5, <3>7, <3>8
  <2>. QED
    BY <2>1, <2>2
<1>4. ASSUME NEW c \in Cell, Ready(c) PROVE Ahead' /\ Down' /\ Together' /\ Drained' /\ OwnServerMeasured'
  BY <1>4 DEF Ready
<1>5. ASSUME NEW c \in Cell, LeaderEnds(c) PROVE Ahead' /\ Down' /\ Together' /\ Drained' /\ OwnServerMeasured'
  BY <1>5 DEF LeaderEnds, WorkersAfterLeader
<1>6. ASSUME NEW c \in Cell, WorkersEnd(c) PROVE Ahead' /\ Down' /\ Together' /\ Drained' /\ OwnServerMeasured'
  BY <1>6 DEF WorkersEnd
<1>. QED
  BY <1>1, <1>2, <1>3, <1>4, <1>5, <1>6 DEF ServerStep

\* Where workers end with their leader, only the current cell's server answers.
LEMMA AnswersIsOwn ==
  ASSUME ServerInv, ~orphans, pc = "measure", NEW d \in Cell, Answers(d)
  PROVE  d = cell
<1>1. Socket(d) = "up" /\ serve[d] # "none"
  BY DEF Answers, Holds
<1>2. leader[d] = "up"
  BY <1>1 DEF ServerInv, Together, Socket, TypeOK
<1>3. ~(d < cell) /\ ~(d > cell)
  BY <1>1, <1>2 DEF ServerInv, Down, Over, Ahead
<1>. QED
  BY <1>3 DEF ServerInv, TypeOK, Cell

LEMMA HarnessSteps ==
  ASSUME ServerInv, HarnessStep \/ LogStep
  PROVE  Ahead' /\ Down' /\ Together' /\ Drained' /\ OwnServerMeasured'
<1>1. cell \in Cell /\ Last \in Nat
  <2>1. pc # "done"
    BY DEF HarnessStep, LogStep, ReadLine, ReaderEnds, ReaderDies, ServerInv, Drained, Goto, Launch, LaunchFails, HealthPasses, HealthFails,
       RoutesPass, RoutesFail, Measure, MeasureFails, Kill, Terminated, TermTimeout,
       Reaped, Join, JoinTimesOut, Attach, Clear, Fail
  <2>. QED
    BY <2>1, AtCell, CellAssumption DEF ServerInv
<1>. USE <1>1 DEF ServerInv, TypeOK, Ahead, Down, Together, Drained, OwnServerMeasured,
                  Over, Goto, row, server, log
<1>2. CASE LogStep
  BY <1>2 DEF LogStep, ReadLine, ReaderEnds, ReaderDies, Gone
<1>3. CASE LaunchFails \/ HealthFails \/ RoutesFail \/ MeasureFails
  BY <1>3 DEF LaunchFails, HealthFails, RoutesFail, MeasureFails, Fail
<1>4. CASE Launch
  BY <1>4 DEF Launch
<1>5. CASE HealthPasses \/ RoutesPass
  BY <1>5 DEF HealthPasses, RoutesPass
<1>6. CASE Measure
  <2>1. PICK d \in Cell : Answers(d) /\ answered' = [answered EXCEPT ![cell] = d]
    BY <1>6 DEF Measure
  <2>2. ~orphans => d = cell
    BY <1>6, <2>1, AnswersIsOwn DEF Measure
  <2>3. OwnServerMeasured'
    BY <1>6, <2>1, <2>2 DEF Measure
  <2>4. Ahead' /\ Down' /\ Together' /\ Drained'
    BY <1>6 DEF Measure
  <2>. QED
    BY <2>3, <2>4
<1>7. CASE Kill \/ Terminated \/ Reaped
  BY <1>7 DEF Kill, Terminated, Reaped
<1>8. CASE TermTimeout
  BY <1>8 DEF TermTimeout
<1>9. CASE Join \/ JoinTimesOut
  BY <1>9 DEF Join, JoinTimesOut
<1>10. CASE Attach
  BY <1>10 DEF Attach
<1>11. CASE Clear
  BY <1>11 DEF Clear, Cell
<1>. QED
  BY <1>2, <1>3, <1>4, <1>5, <1>6, <1>7, <1>8, <1>9, <1>10, <1>11 DEF HarnessStep

LEMMA ServerInductive == ServerInv /\ [Next]_vars => ServerInv'
<1>. SUFFICES ASSUME ServerInv, [Next]_vars PROVE ServerInv'
  OBVIOUS
<1>1. TypeOK'
  BY ServerTypes DEF ServerInv
<1>2. CASE ServerStep
  BY <1>1, <1>2, ServerSteps DEF ServerInv
<1>3. CASE HarnessStep \/ LogStep
  BY <1>1, <1>3, HarnessSteps DEF ServerInv
<1>4. CASE UNCHANGED vars
  BY <1>1, <1>4 DEF vars, ServerInv, Ahead, Down, Together, Drained, OwnServerMeasured, Over
<1>. QED
  BY <1>2, <1>3, <1>4 DEF Next

LEMMA ServerInvariant == Spec => []ServerInv
BY ServerInit, ServerInductive, PTL DEF Spec

-----------------------------------------------------------------------------
(* The results.                                                            *)

\* The state of the cells and their servers is well typed, for any number of
\* cells (run_case_framework, wait_for_health, kill_server).
THEOREM TypeCorrect == Spec => []TypeOK
<1>1. ServerInv => TypeOK
  BY DEF ServerInv
<1>. QED
  BY <1>1, ServerInvariant, PTL

\* For any number of cells: where workers end with their leader, what a cell has
\* measured was answered by the server it started itself, although an answer
\* comes from whoever holds the port.
THEOREM MeasuredIsOwn == Spec => []OwnServerMeasured
<1>1. ServerInv => OwnServerMeasured
  BY DEF ServerInv
<1>. QED
  BY <1>1, ServerInvariant, PTL

\* For any number of cells, kill_server leaves no leader running behind it.
THEOREM LeadersAreDown == Spec => []EarlierLeadersDown
<1>1. ServerInv => EarlierLeadersDown
  BY DEF ServerInv, Down, Over, EarlierLeadersDown
<1>. QED
  BY <1>1, ServerInvariant, PTL

\* For any number of cells, a fallback that a server has told of is in the row of
\* its measured cell, unless the log thread died on a line or was late at the
\* join: no order of the server's output, the thread, kill_server and the harness
\* loses one otherwise.
THEOREM FallbackIsNoted == Spec => []FallbackNoted
<1>1. ServerInv => FallbackNoted
  BY DEF ServerInv, TypeOK, Drained, FallbackNoted, FellBack
<1>. QED
  BY <1>1, ServerInvariant, PTL

=============================================================================
