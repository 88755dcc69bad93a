-------------------------- MODULE RunMatrix_proofs ---------------------------
(***************************************************************************)
(* What holds of a run of run_comparison.py over a matrix of any size,     *)
(* with kills and failures at every point, and of the runs after it.       *)
(***************************************************************************)
EXTENDS RunMatrix, TLAPS

-----------------------------------------------------------------------------
LEMMA CellIs ==
  ASSUME NEW c \in Cell
  PROVE  /\ c[1] \in 1..Frameworks /\ c[2] \in 1..Cases[c[1]]
         /\ c = <<c[1], c[2]>>
BY MatrixAssumption DEF Cell

LEMMA IsCell ==
  ASSUME NEW f \in 1..Frameworks, NEW n \in 1..Cases[f]
  PROVE  <<f, n>> \in Cell
BY MatrixAssumption DEF Cell

LEMMA AdvanceType ==
  ASSUME TypeOK, cell \in Cell, Advance
  PROVE  /\ fw' \in 1..(Frameworks + 1) /\ case' \in Nat
         /\ pc' \in {"cell", "framework"}
         /\ pc' = "cell" => cell' \in Cell
<1>1. fw \in 1..Frameworks /\ case \in 1..Cases[fw] /\ Cases[fw] \in Nat
  BY CellIs, MatrixAssumption DEF cell
<1>2. CASE case < Cases[fw]
  BY <1>1, <1>2, IsCell, MatrixAssumption DEF Advance, cell
<1>3. CASE ~(case < Cases[fw])
  BY <1>1, <1>3, MatrixAssumption DEF Advance, TypeOK
<1>. QED
  BY <1>2, <1>3

LEMMA ErrorsType == ASSUME TypeOK, NEW S PROVE WithErrors(S) \in Rows
BY DEF WithErrors, TypeOK, Rows, Outcome, Mode

LEMMA TypeStep == TypeOK /\ [Next]_vars => TypeOK'
<1>. SUFFICES ASSUME TypeOK, [Next]_vars PROVE TypeOK'
  OBVIOUS
<1>. USE MatrixAssumption, RunAssumption DEF Stopped
<1>1. CASE SkipFramework \/ Finish \/ InstallTimesOut \/ CellRefused
  BY <1>1 DEF TypeOK, SkipFramework, Finish, InstallTimesOut, CellRefused,
     Abort, Goto, loop, files, cell
<1>2. CASE Install
  <2>1. <<fw, 1>> \in Cell
    BY <1>2, IsCell DEF Install, TypeOK
  <2>. QED
    BY <1>2, <2>1 DEF TypeOK, Install, Goto, files, cell
<1>3. CASE InstallFails
  BY <1>3, ErrorsType DEF TypeOK, InstallFails, files, cell
<1>4. CASE DryCell
  <2>1. cell \in Cell
    BY <1>4 DEF TypeOK, DryCell
  <2>. QED
    BY <1>4, <2>1, ErrorsType, AdvanceType DEF TypeOK, DryCell, files
<1>5. CASE Clear
  <2>1. cell \in Cell
    BY <1>5 DEF TypeOK, Clear
  <2>. QED
    BY <1>5, <2>1, AdvanceType DEF TypeOK, Clear, files
<1>6. CASE Serve
  BY <1>6 DEF TypeOK, Serve, Goto, NoResult, Outcome, loop, files, cell
<1>7. CASE ServerFails \/ SingleFails \/ ThroughputFails
  BY <1>7 DEF TypeOK, ServerFails, SingleFails, ThroughputFails, CellFails, Goto,
     Outcome, loop, files, cell
<1>8. CASE MeasureSingle \/ NoThroughput \/ MeasureThroughput \/ ThroughputRow
  <2>1. got' \in [Mode -> Outcome]
    BY <1>8 DEF TypeOK, MeasureSingle, NoThroughput, MeasureThroughput,
       ThroughputRow, Outcome
  <2>2. measured' \in [Cell -> SUBSET Mode]
    BY <1>8 DEF TypeOK, MeasureSingle, NoThroughput, MeasureThroughput,
       ThroughputRow, Mode
  <2>. QED
    BY <1>8, <2>1, <2>2 DEF TypeOK, MeasureSingle, NoThroughput,
       MeasureThroughput, ThroughputRow, Goto, loop, files, cell
<1>9. CASE Append
  <2>1. rows' \in Rows
    BY <1>9 DEF TypeOK, Append, Goto, Rows
  <2>. QED
    BY <1>9, <2>1 DEF TypeOK, Append, Goto, loop, files, cell
<1>10. CASE OpenTmp
  <2>1. tmp' \in File
    BY <1>10 DEF TypeOK, OpenTmp, File
  <2>. QED
    BY <1>10, <2>1 DEF TypeOK, OpenTmp, Goto, loop, cell
<1>11. CASE Dump
  <2>1. tmp' \in File
    BY <1>11 DEF TypeOK, Dump, File
  <2>. QED
    BY <1>11, <2>1 DEF TypeOK, Dump, Goto, loop, cell
<1>12. CASE WriteFails
  BY <1>12 DEF TypeOK, WriteFails, Abort, Goto, loop, files, cell
<1>13. CASE Replace
  <2>1. NoFile \in File
    BY DEF NoFile, File, NoRows, Rows, Outcome
  <2>2. disk' \in File /\ tmp' \in File
    BY <1>13, <2>1 DEF TypeOK, Replace
  <2>3. pc' \in {"clear", "exit"} /\ pc' = "clear" => cell' \in Cell
    BY <1>13 DEF TypeOK, Replace, Goto, loop, cell
  <2>. QED
    BY <1>13, <2>2, <2>3 DEF TypeOK, Replace, Goto, loop
<1>14. CASE Exit \/ Kill
  BY <1>14 DEF TypeOK, Exit, Kill, Goto, loop, files, cell
<1>15. CASE Rerun
  BY <1>15 DEF TypeOK, Rerun, files, cell, NoResult, NoRows, Rows, Outcome,
     NothingMeasured
<1>16. CASE UNCHANGED vars
  BY <1>16 DEF TypeOK, vars, cell
<1>. QED
  BY <1>1, <1>2, <1>3, <1>4, <1>5, <1>6, <1>7, <1>8, <1>9, <1>10, <1>11, <1>12,
     <1>13, <1>14, <1>15, <1>16 DEF Next

LEMMA InitType == Init => TypeOK
<1>. SUFFICES ASSUME Init PROVE TypeOK
  OBVIOUS
<1>1. NoFile \in File
  BY RunAssumption DEF NoFile, File, NoRows, Rows, Outcome
<1>. QED
  BY <1>1, MatrixAssumption, RunAssumption DEF Init, TypeOK, NoResult,
     NoRows, Rows, Outcome, NothingMeasured, Stopped

\* The state of a run is well formed whatever the matrix, at every step.
THEOREM TypeCorrect == Spec => []TypeOK
BY InitType, TypeStep, PTL DEF Spec

-----------------------------------------------------------------------------
(* The inductive invariant.                                                *)

\* The cells whose rows the run has made.
Passed ==
  CASE pc \in {"cell", "single", "throughput", "append"} ->
         {c \in Cell : Before(c, cell)}
    [] pc \in {"write", "dump", "replace", "clear"} ->
         {c \in Cell : Before(c, cell) \/ c = cell}
    [] OTHER -> {c \in Cell : c[1] < fw}

Filled(r, done) ==
  \A c \in Cell : IF c \in done THEN Recorded(r, c) ELSE Untouched(r, c)

\* What a measurement has left so far.
GotAt ==
  /\ pc = "single" => got = NoResult
  /\ pc = "throughput" =>
       /\ got["throughput"] = "none"
       /\ got["single_e2e"] # "none" <=> "single_e2e" \in Modes[cell]
  /\ pc = "append" => \A m \in Mode : got[m] # "none" <=> m \in Modes[cell]

RowsAt == pc \notin Stopped => Filled(rows, Passed)

\* The file that is about to replace the artifact is the run as it stands.
TmpAt ==
  pc = "replace" =>
    /\ tmp.is = "whole"
    /\ tmp.attempt = attempt
    /\ (tmp.partial <=> fw <= Frameworks)
    /\ tmp.rows = rows

\* The artifact is a run's, behind the rows of this one if it is this one's.
DiskAt ==
  /\ disk.attempt <= attempt
  /\ disk.attempt = attempt /\ pc \notin Stopped =>
       /\ Grows(disk.rows, rows)
       /\ pc # "exit" => disk.partial

\* A row is in the file as soon as the checkpoint of its cell is over.
SavedAt ==
  pc \notin Stopped =>
    \A c \in Cell, m \in Mode :
      rows[c][m] = "ok" /\ ~(pc \in {"write", "dump", "replace"} /\ c = cell) =>
        disk.is = "whole" /\ disk.attempt = attempt /\ disk.rows[c][m] = "ok"

\* When the loops are over the file is final.
ExitAt ==
  /\ pc = "exit" => fw = Frameworks + 1
  /\ pc \in {"exit", "exited"} =>
       /\ disk.is = "whole" /\ disk.attempt = attempt /\ ~disk.partial
       /\ disk.rows = rows
       /\ Complete(rows)
  /\ pc = "exited" /\ ~dry => (code = 0 <=> ~HasError(rows))

RunInv ==
  TypeOK /\ GotAt /\ RowsAt /\ TmpAt /\ DiskAt /\ SavedAt /\ ExitAt

-----------------------------------------------------------------------------
(* Facts about rows.                                                       *)

\* Advance moves on to the cell after this one, or to the next framework.
LEMMA AdvancePassed ==
  ASSUME TypeOK, cell \in Cell, Advance
  PROVE  Passed' = {c \in Cell : Before(c, cell) \/ c = cell}
<1>1. fw \in 1..Frameworks /\ case \in 1..Cases[fw] /\ Cases[fw] \in Nat
  BY CellIs, MatrixAssumption DEF cell
<1>2. \A c \in Cell : c[1] \in Int /\ c[2] \in Int /\ c[2] <= Cases[c[1]]
                     /\ (c = cell <=> c[1] = fw /\ c[2] = case)
  BY <1>1, CellIs, MatrixAssumption DEF cell
<1>3. CASE case < Cases[fw]
  <2>1. pc' = "cell" /\ cell' = <<fw, case + 1>>
    BY <1>3 DEF Advance, cell
  <2>2. \A c \in Cell : Before(c, cell') <=> Before(c, cell) \/ c = cell
    BY <1>1, <1>2, <2>1 DEF Before, cell
  <2>. QED
    BY <2>1, <2>2 DEF Passed
<1>4. CASE ~(case < Cases[fw])
  <2>1. pc' = "framework" /\ fw' = fw + 1 /\ case = Cases[fw]
    BY <1>1, <1>4 DEF Advance
  <2>2. \A c \in Cell : c[1] < fw' <=> Before(c, cell) \/ c = cell
    BY <1>1, <1>2, <2>1 DEF Before, cell
  <2>. QED
    BY <2>1, <2>2 DEF Passed
<1>. QED
  BY <1>3, <1>4

\* When the loops are over every cell is passed.
LEMMA AllPassed ==
  ASSUME TypeOK, fw = Frameworks + 1,
         pc \in {"framework", "write", "dump", "replace", "exit"}
  PROVE  Passed = Cell
<1>1. \A c \in Cell : c[1] < fw
  BY CellIs, MatrixAssumption
<1>2. \A c \in Cell : Before(c, cell)
  BY <1>1 DEF Before, cell
<1>. QED
  BY <1>1, <1>2 DEF Passed

\* What is recorded is not untouched, and a cell has one or the other.
LEMMA RecordedCell ==
  ASSUME NEW r, NEW c \in Cell, NEW o \in [Mode -> Outcome],
         \A m \in Mode : r[c][m] = o[m],
         \A m \in Mode : o[m] # "none" <=> m \in Modes[c]
  PROVE  Recorded(r, c)
BY DEF Recorded

LEMMA GrowsTransitive ==
  ASSUME NEW a, NEW b, NEW d, Grows(a, b), Grows(b, d)
  PROVE  Grows(a, d)
BY DEF Grows

\* Rows that are made for untouched cells leave the others as they are.
LEMMA FilledGrows ==
  ASSUME NEW old, NEW new, NEW done, Filled(old, done),
         \A c \in Cell : c \in done => new[c] = old[c]
  PROVE  Grows(old, new)
<1>1. \A c \in Cell : c \notin done => Untouched(old, c)
  BY DEF Filled
<1>. QED
  BY <1>1 DEF Grows, Untouched

LEMMA FilledPrefix ==
  ASSUME TypeOK, pc \in {"write", "dump", "replace"}, NEW r, Filled(r, Passed)
  PROVE  Prefix(r)
<1>1. \A c \in Cell : Recorded(r, c) \/ Untouched(r, c)
  BY DEF Filled
<1>2. ASSUME NEW c \in Cell, NEW d \in Cell, Before(c, d), ~Untouched(r, d)
      PROVE  Recorded(r, c)
  <2>1. d \in Passed
    BY <1>2 DEF Filled
  <2>2. Before(d, cell) \/ d = cell
    BY <2>1 DEF Passed
  <2>3. /\ c[1] \in Int /\ c[2] \in Int /\ d[1] \in Int /\ d[2] \in Int
        /\ fw \in Int /\ case \in Int
    BY CellIs, MatrixAssumption DEF TypeOK
  <2>4. Before(c, cell)
    BY <1>2, <2>2, <2>3 DEF Before, cell
  <2>5. c \in Passed
    BY <2>4 DEF Passed
  <2>. QED
    BY <2>5 DEF Filled
<1>. QED
  BY <1>1, <1>2 DEF Prefix

-----------------------------------------------------------------------------
(* Every step keeps the rows in step with the position of the run.         *)

LEMMA RowsStep ==
  ASSUME TypeOK, GotAt, RowsAt, [Next]_vars
  PROVE  /\ RowsAt'
         /\ ~Rerun => Grows(rows, rows')
<1>. USE DEF Stopped
<1>1. CASE Serve \/ ServerFails \/ MeasureSingle \/ SingleFails \/ NoThroughput
           \/ MeasureThroughput \/ ThroughputRow \/ ThroughputFails
  <2>1. /\ pc \in {"cell", "single", "throughput"} 
        /\ pc' \in {"single", "throughput", "append"}
        /\ rows' = rows /\ fw' = fw /\ case' = case
    BY <1>1 DEF Serve, ServerFails, MeasureSingle, SingleFails, NoThroughput,
       MeasureThroughput, ThroughputRow, ThroughputFails, CellFails, Goto, loop
  <2>2. Passed' = Passed
    BY <2>1 DEF Passed, cell
  <2>. QED
    BY <2>1, <2>2 DEF RowsAt, Grows
<1>2. CASE OpenTmp \/ Dump \/ (Replace /\ fw <= Frameworks)
  <2>1. /\ pc \in {"write", "dump", "replace"}
        /\ pc' \in {"dump", "replace", "clear"}
        /\ rows' = rows /\ fw' = fw /\ case' = case
    BY <1>2 DEF OpenTmp, Dump, Replace, Goto, loop
  <2>2. Passed' = Passed
    BY <2>1 DEF Passed, cell
  <2>. QED
    BY <2>1, <2>2 DEF RowsAt, Grows
<1>3. CASE Finish \/ (Replace /\ ~(fw <= Frameworks))
  <2>1. /\ pc \in {"framework", "replace"} /\ pc' \in {"write", "exit"}
        /\ rows' = rows /\ fw' = fw /\ case' = case
        /\ fw = Frameworks + 1
    BY <1>3, MatrixAssumption DEF Finish, Replace, Goto, loop, TypeOK
  <2>2. \A c \in Cell : c[1] < fw /\ Before(c, cell)
    BY <2>1, CellIs, MatrixAssumption DEF Before, cell
  <2>3. Passed = Cell
    BY <2>1, <2>2 DEF Passed
  <2>4. Passed' = Cell
    BY <2>1, <2>2 DEF Passed, cell
  <2>. QED
    BY <2>1, <2>3, <2>4 DEF RowsAt, Grows
<1>4. CASE Install
  <2>1. /\ pc = "framework" /\ pc' = "cell" /\ cell' = <<fw, 1>> /\ rows' = rows
    BY <1>4 DEF Install, Goto, cell
  <2>2. \A c \in Cell : Before(c, cell') <=> c[1] < fw
    BY <2>1, CellIs, MatrixAssumption DEF Before, TypeOK
  <2>3. Passed' = Passed
    BY <2>1, <2>2 DEF Passed
  <2>. QED
    BY <2>1, <2>3 DEF RowsAt, Grows
<1>5. CASE SkipFramework
  <2>1. /\ pc = "framework" /\ pc' = "framework" /\ rows' = rows
        /\ fw' = fw + 1 /\ Cases[fw] = 0
    BY <1>5 DEF SkipFramework
  <2>2. \A c \in Cell : c[1] < fw' <=> c[1] < fw
    BY <2>1, CellIs, MatrixAssumption DEF TypeOK
  <2>3. Passed' = Passed
    BY <2>1, <2>2 DEF Passed
  <2>. QED
    BY <2>1, <2>3 DEF RowsAt, Grows
<1>6. CASE InstallFails
  <2>. DEFINE S == {c \in Cell : c[1] = fw}
  <2>1. /\ pc = "framework" /\ pc' = "framework" /\ fw' = fw + 1
        /\ rows' = WithErrors(S)
    BY <1>6 DEF InstallFails
  <2>2. Passed = {c \in Cell : c[1] < fw} /\ Passed' = {c \in Cell : c[1] < fw + 1}
    BY <2>1 DEF Passed
  <2>3. \A c \in Cell : /\ c \in Passed' <=> c \in Passed \/ c \in S
                       /\ ~(c \in Passed /\ c \in S)
    BY <2>2, CellIs, MatrixAssumption DEF TypeOK
  <2>4. \A c \in Cell : rows'[c] = IF c \in S
                                  THEN [m \in Mode |-> IF m \in Modes[c]
                                                        THEN "error" ELSE "none"]
                                  ELSE rows[c]
    BY <2>1 DEF WithErrors
  <2>5. Filled(rows, Passed)
    BY <2>1 DEF RowsAt
  <2>6. \A c \in Cell : c \in S => Recorded(rows', c)
    BY <2>4 DEF Recorded
  <2>7. \A c \in Cell : c \in Passed => rows'[c] = rows[c]
    BY <2>3, <2>4
  <2>8. \A c \in Cell : c \notin Passed' => rows'[c] = rows[c]
    BY <2>3, <2>4
  <2>9. Filled(rows', Passed')
    BY <2>3, <2>5, <2>6, <2>7, <2>8 DEF Filled, Recorded, Untouched
  <2>10. Grows(rows, rows')
    BY <2>5, <2>7, FilledGrows
  <2>. QED
    BY <2>9, <2>10 DEF RowsAt
<1>7. CASE DryCell
  <2>1. /\ pc = "cell" /\ cell \in Cell /\ Advance
        /\ rows' = WithErrors({cell})
    BY <1>7 DEF DryCell, TypeOK
  <2>2. Passed = {c \in Cell : Before(c, cell)}
    BY <2>1 DEF Passed
  <2>3. Passed' = {c \in Cell : Before(c, cell) \/ c = cell}
    BY <2>1, AdvancePassed
  <2>4. ~Before(cell, cell)
    BY <2>1, CellIs, MatrixAssumption DEF Before, cell, TypeOK
  <2>5. \A c \in Cell : rows'[c] = IF c = cell
                                  THEN [m \in Mode |-> IF m \in Modes[c]
                                                        THEN "error" ELSE "none"]
                                  ELSE rows[c]
    BY <2>1 DEF WithErrors
  <2>6. Filled(rows, Passed)
    BY <2>1 DEF RowsAt
  <2>7. Filled(rows', Passed')
    BY <2>2, <2>3, <2>5, <2>6 DEF Filled, Recorded, Untouched
  <2>8. \A c \in Cell : c \in Passed => rows'[c] = rows[c]
    BY <2>2, <2>4, <2>5
  <2>9. Grows(rows, rows')
    BY <2>6, <2>8, FilledGrows
  <2>. QED
    BY <2>7, <2>9 DEF RowsAt
<1>8. CASE Append
  <2>1. /\ pc = "append" /\ pc' = "write" /\ cell \in Cell /\ cell' = cell
        /\ rows' = [rows EXCEPT ![cell] = got]
        /\ \A m \in Mode : got[m] # "none" <=> m \in Modes[cell]
    BY <1>8 DEF Append, Goto, TypeOK, loop, cell, GotAt
  <2>2. Passed = {c \in Cell : Before(c, cell)}
    BY <2>1 DEF Passed
  <2>3. Passed' = {c \in Cell : Before(c, cell) \/ c = cell}
    BY <2>1 DEF Passed
  <2>4. ~Before(cell, cell)
    BY <2>1, CellIs, MatrixAssumption DEF Before, cell, TypeOK
  <2>5. \A c \in Cell : rows'[c] = IF c = cell THEN got ELSE rows[c]
    BY <2>1 DEF TypeOK, Rows
  <2>6. Filled(rows, Passed)
    BY <2>1 DEF RowsAt
  <2>7. Filled(rows', Passed')
    BY <2>1, <2>2, <2>3, <2>5, <2>6 DEF Filled, Recorded, Untouched
  <2>8. \A c \in Cell : c \in Passed => rows'[c] = rows[c]
    BY <2>2, <2>4, <2>5
  <2>9. Grows(rows, rows')
    BY <2>6, <2>8, FilledGrows
  <2>. QED
    BY <2>7, <2>9 DEF RowsAt
<1>9. CASE Clear
  <2>1. pc = "clear" /\ cell \in Cell /\ Advance /\ rows' = rows
    BY <1>9 DEF Clear, TypeOK
  <2>2. Passed' = Passed
    BY <2>1, AdvancePassed DEF Passed
  <2>. QED
    BY <2>1, <2>2 DEF RowsAt, Grows
<1>10. CASE InstallTimesOut \/ CellRefused \/ WriteFails \/ Exit \/ Kill
  <2>1. pc' \in Stopped /\ rows' = rows
    BY <1>10 DEF InstallTimesOut, CellRefused, WriteFails, Exit, Kill, Abort, Goto
  <2>. QED
    BY <2>1 DEF RowsAt, Grows
<1>11. CASE Rerun
  <2>1. pc' = "framework" /\ fw' = 1 /\ rows' = NoRows
    BY <1>11 DEF Rerun
  <2>2. Passed' = {}
    BY <2>1, CellIs, MatrixAssumption DEF Passed
  <2>. QED
    BY <1>11, <2>1, <2>2 DEF RowsAt, Filled, Untouched, NoRows
<1>12. CASE UNCHANGED vars
  BY <1>12 DEF vars, RowsAt, Passed, cell, Grows
<1>. QED
  BY <1>1, <1>2, <1>3, <1>4, <1>5, <1>6, <1>7, <1>8, <1>9, <1>10, <1>11, <1>12
     DEF Next

-----------------------------------------------------------------------------
(* The other parts of the invariant, step by step.                         *)

LEMMA GotStep ==
  ASSUME TypeOK, GotAt, [Next]_vars
  PROVE  GotAt'
<1>1. CASE Serve
  BY <1>1 DEF GotAt, Serve, Goto
<1>2. CASE ServerFails \/ SingleFails \/ ThroughputFails
  BY <1>2 DEF GotAt, ServerFails, SingleFails, ThroughputFails, CellFails, Goto,
     loop, cell
<1>3. CASE MeasureSingle
  <2>1. /\ pc' = "throughput" /\ cell' = cell /\ got = NoResult
        /\ got' = IF "single_e2e" \in Modes[cell]
                  THEN [got EXCEPT !["single_e2e"] = "ok"] ELSE got
    BY <1>3 DEF GotAt, MeasureSingle, Goto, loop, cell
  <2>. QED
    BY <2>1 DEF GotAt, NoResult, Mode
<1>4. CASE NoThroughput \/ MeasureThroughput \/ ThroughputRow
  <2>1. /\ pc = "throughput" /\ pc' = "append" /\ cell' = cell
        /\ got \in [Mode -> Outcome]
        /\ got'["single_e2e"] = got["single_e2e"]
        /\ got'["throughput"] # "none" <=> "throughput" \in Modes[cell]
    BY <1>4 DEF TypeOK, GotAt, NoThroughput, MeasureThroughput, ThroughputRow,
       Goto, loop, cell, Mode
  <2>. QED
    BY <2>1 DEF GotAt, Mode
<1>5. CASE \/ SkipFramework \/ Install \/ InstallFails \/ InstallTimesOut
           \/ Finish \/ DryCell \/ CellRefused \/ Append \/ Clear \/ OpenTmp
           \/ Dump \/ WriteFails \/ Replace \/ Exit \/ Kill \/ Rerun
  <2>1. pc' \notin {"single", "throughput", "append"}
    BY <1>5 DEF SkipFramework, Install, InstallFails, InstallTimesOut, Finish,
       DryCell, CellRefused, Append, Clear, Advance, OpenTmp, Dump, WriteFails,
       Replace, Exit, Kill, Rerun, Abort, Goto
  <2>. QED
    BY <2>1 DEF GotAt
<1>6. CASE UNCHANGED vars
  BY <1>6 DEF vars, GotAt, cell
<1>. QED
  BY <1>1, <1>2, <1>3, <1>4, <1>5, <1>6 DEF Next

LEMMA TmpStep ==
  ASSUME TmpAt, [Next]_vars
  PROVE  TmpAt'
<1>1. CASE Dump
  BY <1>1 DEF TmpAt, Dump, Goto, loop
<1>2. CASE UNCHANGED vars
  BY <1>2 DEF vars, TmpAt
<1>3. CASE Next /\ ~Dump
  <2>1. pc' # "replace"
    BY <1>3 DEF Next, SkipFramework, Install, InstallFails, InstallTimesOut,
       Finish, DryCell, CellRefused, Serve, ServerFails, CellFails,
       MeasureSingle, SingleFails, NoThroughput, MeasureThroughput,
       ThroughputRow, ThroughputFails, Append, Clear, Advance, OpenTmp,
       WriteFails, Replace, Exit, Kill, Rerun, Abort, Goto
  <2>. QED
    BY <2>1 DEF TmpAt
<1>. QED
  BY <1>1, <1>2, <1>3

\* Only a replacement and a later run touch the artifact or the run's number.
LEMMA Elsewhere ==
  ASSUME Next, ~Replace, ~Rerun
  PROVE  /\ disk' = disk /\ attempt' = attempt /\ dry' = dry
         /\ pc \notin Stopped
         /\ pc = "exit" => pc' \in Stopped
         /\ pc' # "exit"
         /\ pc' = "exited" => Exit
BY DEF Next, SkipFramework, Install, InstallFails, InstallTimesOut, Finish,
   DryCell, CellRefused, Serve, ServerFails, CellFails, MeasureSingle,
   SingleFails, NoThroughput, MeasureThroughput, ThroughputRow,
   ThroughputFails, Append, Clear, Advance, OpenTmp, Dump, WriteFails, Replace,
   Exit, Kill, Rerun, Abort, Goto, loop, files, Stopped

LEMMA DiskStep ==
  ASSUME TypeOK, RowsAt, GotAt, TmpAt, DiskAt, [Next]_vars
  PROVE  DiskAt'
<1>1. CASE Replace
  <2>1. /\ disk' = tmp /\ rows' = rows /\ attempt' = attempt
        /\ tmp.attempt = attempt /\ tmp.rows = rows
        /\ (tmp.partial <=> fw <= Frameworks)
        /\ pc' # "exit" => fw <= Frameworks
    BY <1>1 DEF Replace, Goto, TmpAt, loop
  <2>2. attempt \in Int
    BY DEF TypeOK
  <2>3. disk'.attempt <= attempt'
    BY <2>1, <2>2
  <2>4. Grows(disk'.rows, rows') /\ (pc' # "exit" => disk'.partial)
    BY <2>1 DEF Grows
  <2>. QED
    BY <2>3, <2>4 DEF DiskAt
<1>2. CASE Rerun
  <2>1. disk' = disk /\ attempt' = attempt + 1
    BY <1>2 DEF Rerun, files
  <2>2. disk.attempt \in Int /\ attempt \in Int
    BY DEF TypeOK, File
  <2>. QED
    BY <2>1, <2>2 DEF DiskAt
<1>3. CASE Next /\ ~Replace /\ ~Rerun
  <2>1. Grows(rows, rows')
    BY <1>3, RowsStep
  <2>. QED
    BY <1>3, <2>1, Elsewhere, GrowsTransitive DEF DiskAt, Stopped
<1>4. CASE UNCHANGED vars
  BY <1>4 DEF vars, DiskAt, Stopped, Grows
<1>. QED
  BY <1>1, <1>2, <1>3, <1>4

LEMMA SavedStep ==
  ASSUME TypeOK, TmpAt, SavedAt, [Next]_vars
  PROVE  SavedAt'
<1>. USE DEF Stopped
<1>1. CASE Replace
  BY <1>1 DEF Replace, Goto, TmpAt, SavedAt, loop
<1>2. CASE Rerun
  BY <1>2 DEF Rerun, SavedAt, NoRows
<1>3. CASE Append
  <2>1. /\ pc = "append" /\ pc' = "write" /\ cell' = cell
        /\ disk' = disk /\ attempt' = attempt
        /\ \A c \in Cell : c # cell => rows'[c] = rows[c]
    BY <1>3 DEF Append, Goto, loop, files, cell, TypeOK, Rows
  <2>. QED
    BY <2>1 DEF SavedAt
<1>4. CASE InstallFails \/ DryCell
  <2>1. /\ pc \in {"framework", "cell"} /\ disk' = disk /\ attempt' = attempt
        /\ \E S : rows' = WithErrors(S)
    BY <1>4 DEF InstallFails, DryCell, files
  <2>2. \A c \in Cell, m \in Mode : rows'[c][m] = "ok" => rows[c][m] = "ok"
    BY <2>1 DEF WithErrors
  <2>. QED
    BY <2>1, <2>2 DEF SavedAt
<1>5. CASE OpenTmp \/ Dump
  BY <1>5 DEF OpenTmp, Dump, Goto, loop, cell, SavedAt
<1>6. CASE \/ SkipFramework \/ Install \/ Finish \/ Serve \/ ServerFails
           \/ MeasureSingle \/ SingleFails \/ NoThroughput \/ MeasureThroughput
           \/ ThroughputRow \/ ThroughputFails \/ Clear
  <2>1. /\ pc \in {"framework", "cell", "single", "throughput", "clear"}
        /\ rows' = rows /\ disk' = disk /\ attempt' = attempt
    BY <1>6 DEF SkipFramework, Install, Finish, Serve, ServerFails, CellFails,
       MeasureSingle, SingleFails, NoThroughput, MeasureThroughput,
       ThroughputRow, ThroughputFails, Clear, Goto, loop, files
  <2>. QED
    BY <2>1 DEF SavedAt
<1>7. CASE InstallTimesOut \/ CellRefused \/ WriteFails \/ Exit \/ Kill
  BY <1>7 DEF InstallTimesOut, CellRefused, WriteFails, Exit, Kill, Abort, Goto,
     SavedAt
<1>8. CASE UNCHANGED vars
  BY <1>8 DEF vars, SavedAt, cell
<1>. QED
  BY <1>1, <1>2, <1>3, <1>4, <1>5, <1>6, <1>7, <1>8 DEF Next

LEMMA ExitStep ==
  ASSUME TypeOK, RowsAt, TmpAt, ExitAt, [Next]_vars
  PROVE  ExitAt'
<1>1. CASE Replace
  <2>1. /\ pc = "replace" /\ fw' = fw /\ rows' = rows /\ attempt' = attempt
        /\ disk' = tmp /\ pc' = IF fw <= Frameworks THEN "clear" ELSE "exit"
        /\ tmp.is = "whole" /\ tmp.attempt = attempt /\ tmp.rows = rows
        /\ (tmp.partial <=> fw <= Frameworks)
    BY <1>1 DEF Replace, Goto, loop, TmpAt
  <2>2. CASE ~(fw <= Frameworks)
    <3>1. fw = Frameworks + 1
      BY <2>2, MatrixAssumption DEF TypeOK
    <3>2. Filled(rows, Cell)
      BY <2>1, <3>1, AllPassed DEF RowsAt, Stopped
    <3>3. Complete(rows)
      BY <3>2 DEF Filled, Complete
    <3>. QED
      BY <2>1, <2>2, <3>1, <3>3 DEF ExitAt
  <2>3. CASE fw <= Frameworks
    BY <2>1, <2>3 DEF ExitAt
  <2>. QED
    BY <2>2, <2>3
<1>2. CASE Exit
  BY <1>2 DEF Exit, Goto, loop, files, ExitAt, HasError
<1>3. CASE Rerun
  BY <1>3 DEF Rerun, ExitAt
<1>4. CASE Next /\ ~Replace /\ ~Rerun /\ ~Exit
  BY <1>4, Elsewhere DEF ExitAt
<1>5. CASE UNCHANGED vars
  BY <1>5 DEF vars, ExitAt, HasError
<1>. QED
  BY <1>1, <1>2, <1>3, <1>4, <1>5

-----------------------------------------------------------------------------
LEMMA RunInvInit == Init => RunInv
<1>. SUFFICES ASSUME Init PROVE RunInv
  OBVIOUS
<1>1. TypeOK
  BY InitType
<1>2. Passed = {}
  BY CellIs, MatrixAssumption DEF Init, Passed
<1>3. RowsAt
  BY <1>2 DEF Init, RowsAt, Filled, Untouched, NoRows
<1>4. DiskAt
  BY DEF Init, DiskAt, NoFile
<1>5. SavedAt
  BY DEF Init, SavedAt, NoRows
<1>. QED
  BY <1>1, <1>3, <1>4, <1>5 DEF RunInv, GotAt, TmpAt, ExitAt, Init

LEMMA RunInvStep == RunInv /\ [Next]_vars => RunInv'
BY TypeStep, GotStep, RowsStep, TmpStep, DiskStep, SavedStep, ExitStep DEF RunInv

\* The invariant the results below rest on.
THEOREM RunInvHolds == Spec => []RunInv
BY RunInvInit, RunInvStep, PTL DEF Spec

\* When a run is at a cell, every row of a cell it has measured before is in the
\* output file, whatever the size of the matrix and whatever fails or is killed.
THEOREM RowsAreSaved == Spec => []MeasuredRowsSaved
<1>1. RunInv => MeasuredRowsSaved
  BY DEF RunInv, SavedAt, MeasuredRowsSaved, Stopped
<1>. QED
  BY <1>1, RunInvHolds, PTL

\* The exit code of a run that ends agrees with the artifact it leaves: 0 if and
\* only if the final file of this run has a good row for all that was asked for.
THEOREM ExitIsTruthful == Spec => []ExitTellsTruth
<1>1. ASSUME RunInv PROVE ExitTellsTruth
  <2>. SUFFICES ASSUME pc = "exited" /\ ~dry PROVE
         /\ disk.is = "whole" /\ disk.attempt = attempt /\ ~disk.partial
         /\ (code = 0) <=>
              \A c \in Cell : \A m \in Modes[c] : disk.rows[c][m] = "ok"
    BY DEF ExitTellsTruth
  <2>1. /\ disk.is = "whole" /\ disk.attempt = attempt /\ ~disk.partial
        /\ disk.rows = rows /\ Complete(rows)
        /\ code = 0 <=> ~HasError(rows)
    BY <1>1 DEF RunInv, ExitAt
  <2>2. rows \in Rows
    BY <1>1 DEF RunInv, TypeOK
  <2>3. ~HasError(rows) <=> \A c \in Cell : \A m \in Modes[c] : rows[c][m] = "ok"
    BY <2>1, <2>2, MatrixAssumption DEF HasError, Complete, Recorded, Rows,
       Outcome
  <2>. QED
    BY <2>1, <2>3
<1>. QED
  BY <1>1, RunInvHolds, PTL

\* ArtifactLog is about the same matrix and the same rows.
LEMMA SameRows ==
  /\ Log!NoFile = NoFile
  /\ Log!Rows = Rows
  /\ \A r : Log!Prefix(r) <=> Prefix(r)
  /\ \A r : Log!Complete(r) <=> Complete(r)
  /\ \A r, q : Log!Grows(r, q) <=> Grows(r, q)
<1>1. Log!Cell = Cell /\ Log!Mode = Mode /\ Log!Outcome = Outcome
  BY DEF Log!Cell, Cell, Log!Mode, Mode, Log!Outcome, Outcome
<1>2. Log!NoFile = NoFile
  BY DEF Log!NoFile, NoFile, Log!NoRows, NoRows, Log!Cell, Cell, Log!Mode, Mode
<1>3. Log!Rows = Rows
  BY DEF Log!Rows, Rows, Log!Cell, Cell, Log!Mode, Mode, Log!Outcome, Outcome
<1>4. \A r : Log!Prefix(r) <=> Prefix(r)
  BY <1>1 DEF Log!Prefix, Prefix, Log!Recorded, Recorded, Log!Untouched,
     Untouched, Log!Before, Before
<1>5. \A r : Log!Complete(r) <=> Complete(r)
  BY <1>1 DEF Log!Complete, Complete, Log!Recorded, Recorded
<1>6. \A r, q : Log!Grows(r, q) <=> Grows(r, q)
  BY <1>1 DEF Log!Grows, Grows
<1>. QED
  BY <1>2, <1>3, <1>4, <1>5, <1>6

\* The output file is what ArtifactLog says: whole or absent, a growing prefix
\* of a run's rows, "partial" until it has them all.
THEOREM FileIsALog == Spec => ImplementsLog
<1>1. Init => Log!Init
  BY SameRows DEF Init, Log!Init
<1>2. ASSUME RunInv, [Next]_vars PROVE [Log!Save]_disk
  <2>1. CASE Replace
    <3>1. /\ disk' = tmp /\ pc = "replace"
          /\ tmp.is = "whole" /\ tmp.attempt = attempt /\ tmp.rows = rows
          /\ (tmp.partial <=> fw <= Frameworks)
      BY <1>2, <2>1 DEF RunInv, Replace, Goto, TmpAt
    <3>2. rows \in Rows /\ Filled(rows, Passed) /\ TypeOK
      BY <1>2, <3>1 DEF RunInv, TypeOK, RowsAt, Stopped
    <3>3. Prefix(rows)
      BY <3>1, <3>2, FilledPrefix
    <3>4. ~(fw <= Frameworks) => Complete(rows)
      BY <3>1, <3>2, AllPassed, MatrixAssumption DEF TypeOK, Filled, Complete
    <3>5. Log!Artifact(disk')
      BY <3>1, <3>2, <3>3, <3>4, SameRows DEF Log!Artifact
    <3>6. Log!Continues(disk, disk')
      <4>1. disk.attempt \in Int /\ attempt \in Int
        BY <3>2 DEF TypeOK, File
      <4>2. disk.attempt <= attempt
        BY <1>2 DEF RunInv, DiskAt
      <4>3. disk.attempt = attempt => Grows(disk.rows, rows) /\ disk.partial
        BY <1>2, <3>1 DEF RunInv, DiskAt, Stopped
      <4>. QED
        BY <3>1, <4>1, <4>2, <4>3, SameRows DEF Log!Continues
    <3>. QED
      BY <3>5, <3>6 DEF Log!Save
  <2>2. CASE Next /\ ~Replace
    <3>1. disk' = disk
      BY <2>2, Elsewhere DEF Rerun, files
    <3>. QED
      BY <3>1
  <2>3. CASE UNCHANGED vars
    BY <2>3 DEF vars
  <2>. QED
    BY <1>2, <2>1, <2>2, <2>3
<1>. QED
  BY <1>1, <1>2, RunInvHolds, PTL DEF Spec, ImplementsLog, Log!Spec

=============================================================================
