----------------------------- MODULE RunMatrix ------------------------------
(***************************************************************************)
(* One run of run_comparison.py over its matrix, and the runs that follow  *)
(* it with the same --output: the loops of run_comparison, what            *)
(* run_case_framework returns for a cell, _write_run_artifact, and the     *)
(* exit code of main.  The process may be killed at any step, as the       *)
(* runners do with `timeout`.  What happens to the server of a cell is in  *)
(* CellServer; here it starts and is warm, or the cell fails.              *)
(***************************************************************************)
EXTENDS Matrix

CONSTANTS
  Installable, (* the frameworks that are installed before their cells     *)
  Attempts     (* bound: how many runs there are                           *)

ASSUME RunAssumption ==
  /\ Installable \subseteq 1..Frameworks
  /\ Attempts \in Nat \ {0}

VARIABLES
  attempt,  (* which run this is                                           *)
  dry,      (* --dry-run                                                   *)
  fw, case, (* the loop variables                                          *)
  pc,       (* where the run stands                                        *)
  got,      (* single_result and throughput_result of run_case_framework   *)
  rows,     (* results and throughput_results                              *)
  tmp,      (* the file {output}.tmp                                       *)
  disk,     (* the file {output}                                           *)
  code,     (* the exit code                                               *)
  measured  (* history: the measurements this run has finished             *)

vars == <<attempt, dry, fw, case, pc, got, rows, tmp, disk, code, measured>>

loop  == <<attempt, dry, fw, case>>
files == <<tmp, disk>>

cell == <<fw, case>>

Stopped == {"exited", "aborted", "killed"}

NoFile == [is |-> "absent", attempt |-> 0, partial |-> TRUE, rows |-> NoRows]

File == [is : {"absent", "torn", "whole"}, attempt : 0..Attempts,
         partial : BOOLEAN, rows : Rows]

TypeOK ==
  /\ attempt \in 1..Attempts
  /\ dry \in BOOLEAN
  /\ fw \in 1..(Frameworks + 1)
  /\ case \in Nat
  /\ pc \in {"framework", "cell", "single", "throughput", "append", "write",
             "dump", "replace", "clear", "exit"} \cup Stopped
  /\ pc \in {"cell", "single", "throughput", "append", "clear"} => cell \in Cell
  /\ pc \in {"write", "dump", "replace"} => cell \in Cell \/ fw = Frameworks + 1
  /\ got \in [Mode -> Outcome]
  /\ rows \in Rows
  /\ tmp \in File
  /\ disk \in File
  /\ code \in 0..1
  /\ measured \in [Cell -> SUBSET Mode]

-----------------------------------------------------------------------------
NoResult == [m \in Mode |-> "none"]
NothingMeasured == [c \in Cell |-> {}]

Init ==
  /\ attempt = 1
  /\ dry \in BOOLEAN
  /\ fw = 1
  /\ case = 1
  /\ pc = "framework"
  /\ got = NoResult
  /\ rows = NoRows
  /\ tmp = NoFile
  /\ disk = NoFile
  /\ code = 0
  /\ measured = NothingMeasured

Goto(from, to) == pc = from /\ pc' = to

\* An exception leaves run_comparison: the interpreter exits with 1.
Abort(from) ==
  /\ Goto(from, "aborted")
  /\ code' = 1
  /\ UNCHANGED <<loop, got, rows, files, measured>>

\* The rows of the cells in `cells` become errors, one for each of their modes.
WithErrors(cells) ==
  [c \in Cell |-> IF c \in cells
                  THEN [m \in Mode |-> IF m \in Modes[c] THEN "error" ELSE "none"]
                  ELSE rows[c]]

-----------------------------------------------------------------------------
(* The loop over frameworks.                                               *)

SkipFramework ==
  /\ pc = "framework" /\ fw <= Frameworks
  /\ Cases[fw] = 0
  /\ fw' = fw + 1
  /\ UNCHANGED <<attempt, dry, case, pc, got, rows, files, code, measured>>

\* _install_framework returns True: installed, skipped, or not needed.
Install ==
  /\ Goto("framework", "cell") /\ fw <= Frameworks
  /\ Cases[fw] > 0
  /\ case' = 1
  /\ UNCHANGED <<attempt, dry, fw, got, rows, files, code, measured>>

\* It returns False: the rows of all of the framework's cases are errors, and
\* the loop continues without a checkpoint.
InstallFails ==
  /\ pc = "framework" /\ fw \in Installable
  /\ Cases[fw] > 0
  /\ rows' = WithErrors({c \in Cell : c[1] = fw})
  /\ fw' = fw + 1
  /\ UNCHANGED <<attempt, dry, case, pc, got, files, code, measured>>

\* The install script takes more than its 600 seconds: nobody catches that.
InstallTimesOut ==
  /\ Abort("framework")
  /\ fw \in Installable /\ Cases[fw] > 0 /\ ~dry

Finish ==
  /\ Goto("framework", "write") /\ fw = Frameworks + 1
  /\ UNCHANGED <<loop, got, rows, files, code, measured>>

-----------------------------------------------------------------------------
(* One cell.                                                               *)

\* The next case of the framework, or the next framework.
Advance ==
  IF case < Cases[fw]
  THEN pc' = "cell" /\ case' = case + 1 /\ fw' = fw
  ELSE pc' = "framework" /\ case' = case /\ fw' = fw + 1

DryCell ==
  /\ pc = "cell" /\ dry
  /\ rows' = WithErrors({cell})
  /\ Advance
  /\ UNCHANGED <<attempt, dry, got, files, code, measured>>

\* _incomplete_snapshot finds a damaged cache, or the command cannot be
\* built (in a dry run too): both raise before the try of run_case_framework.
CellRefused == Abort("cell")

\* The server starts and is warm.
Serve ==
  /\ Goto("cell", "single") /\ ~dry
  /\ got' = NoResult
  /\ UNCHANGED <<loop, rows, files, code, measured>>

\* An exception inside the try makes every mode's result an error, also the
\* one of a measurement that has finished.
CellFails(from) ==
  /\ Goto(from, "append")
  /\ got' = [m \in Mode |-> IF m \in Modes[cell] THEN "error" ELSE "none"]
  /\ UNCHANGED <<loop, rows, files, code, measured>>

\* The preflight, the start, the health wait.  A warmup's failure is swallowed.
ServerFails == CellFails("cell") /\ ~dry

MeasureSingle ==
  /\ Goto("single", "throughput")
  /\ IF "single_e2e" \in Modes[cell]
     THEN /\ got' = [got EXCEPT !["single_e2e"] = "ok"]
          /\ measured' = [measured EXCEPT ![cell] = @ \cup {"single_e2e"}]
     ELSE UNCHANGED <<got, measured>>
  /\ UNCHANGED <<loop, rows, files, code>>

SingleFails == CellFails("single") /\ "single_e2e" \in Modes[cell]

NoThroughput ==
  /\ Goto("throughput", "append")
  /\ "throughput" \notin Modes[cell]
  /\ UNCHANGED <<loop, got, rows, files, code, measured>>

MeasureThroughput ==
  /\ Goto("throughput", "append")
  /\ "throughput" \in Modes[cell]
  /\ got' = [got EXCEPT !["throughput"] = "ok"]
  /\ measured' = [measured EXCEPT ![cell] = @ \cup {"throughput"}]
  /\ UNCHANGED <<loop, rows, files, code>>

\* run_throughput returns a row with an error: its inputs cannot be built,
\* bench_serving exited with an error, or some of the requests failed.
ThroughputRow ==
  /\ Goto("throughput", "append")
  /\ "throughput" \in Modes[cell]
  /\ got' = [got EXCEPT !["throughput"] = "error"]
  /\ UNCHANGED <<loop, rows, files, code, measured>>

\* It raises: bench_serving timed out, or its metrics cannot be read.
ThroughputFails == CellFails("throughput") /\ "throughput" \in Modes[cell]

\* Mutant of Append: only the last case of a framework is checkpointed.
AppendPerFramework ==
  /\ Goto("append", IF case < Cases[fw] THEN "clear" ELSE "write")
  /\ rows' = [rows EXCEPT ![cell] = got]
  /\ UNCHANGED <<loop, got, files, code, measured>>

Append ==
  /\ Goto("append", "write")
  /\ rows' = [rows EXCEPT ![cell] = got]
  /\ UNCHANGED <<loop, got, files, code, measured>>

\* The wait for GPU memory to clear.
Clear ==
  /\ pc = "clear"
  /\ Advance
  /\ UNCHANGED <<attempt, dry, got, rows, files, code, measured>>

-----------------------------------------------------------------------------
(* _write_run_artifact.                                                    *)

\* Mutant of OpenTmp: the output file itself is opened for writing.
OpenOutput ==
  /\ Goto("write", "dump")
  /\ disk' = [disk EXCEPT !.is = "torn"]
  /\ UNCHANGED <<loop, got, rows, tmp, code, measured>>

\* open(tmp, "w") truncates what an earlier run has left there.
OpenTmp ==
  /\ Goto("write", "dump")
  /\ tmp' = [tmp EXCEPT !.is = "torn"]
  /\ UNCHANGED <<loop, got, rows, disk, code, measured>>

Dump ==
  /\ Goto("dump", "replace")
  /\ tmp' = [is |-> "whole", attempt |-> attempt,
             partial |-> fw <= Frameworks, rows |-> rows]
  /\ UNCHANGED <<loop, got, rows, disk, code, measured>>

\* The file cannot be created or written.
WriteFails == Abort("write") \/ Abort("dump")

Replace ==
  /\ Goto("replace", IF fw <= Frameworks THEN "clear" ELSE "exit")
  /\ disk' = tmp
  /\ tmp' = NoFile
  /\ UNCHANGED <<loop, got, rows, code, measured>>

-----------------------------------------------------------------------------
HasError(r) == \E c \in Cell, m \in Mode : r[c][m] = "error"

\* Mutant of Exit: only the results of single_e2e are looked at.
ExitSingle ==
  /\ Goto("exit", "exited")
  /\ code' = IF ~dry /\ \E c \in Cell : rows[c]["single_e2e"] = "error"
             THEN 1 ELSE 0
  /\ UNCHANGED <<loop, got, rows, files, measured>>

Exit ==
  /\ Goto("exit", "exited")
  /\ code' = IF HasError(rows) /\ ~dry THEN 1 ELSE 0
  /\ UNCHANGED <<loop, got, rows, files, measured>>

\* `timeout` or an operator kills the process.
Kill ==
  /\ pc \notin Stopped
  /\ pc' = "killed"
  /\ code' = 1
  /\ UNCHANGED <<loop, got, rows, files, measured>>

\* Somebody runs it again, to the same --output.
Rerun ==
  /\ pc \in Stopped /\ attempt < Attempts
  /\ attempt' = attempt + 1
  /\ dry' \in BOOLEAN
  /\ fw' = 1
  /\ case' = 1
  /\ pc' = "framework"
  /\ got' = NoResult
  /\ rows' = NoRows
  /\ code' = 0
  /\ measured' = NothingMeasured
  /\ UNCHANGED files

Next ==
  \/ SkipFramework \/ Install \/ InstallFails \/ InstallTimesOut \/ Finish
  \/ DryCell \/ CellRefused \/ Serve \/ ServerFails
  \/ MeasureSingle \/ SingleFails
  \/ NoThroughput \/ MeasureThroughput \/ ThroughputRow \/ ThroughputFails
  \/ Append \/ Clear
  \/ OpenTmp \/ Dump \/ WriteFails \/ Replace
  \/ Exit \/ Kill \/ Rerun

Spec == Init /\ [][Next]_vars

-----------------------------------------------------------------------------
(* Properties.                                                             *)

\* What a reader of the output file may rely on, through kills at any step,
\* failed writes, aborted runs and later runs to the same file.
Log == INSTANCE ArtifactLog WITH file <- disk

ImplementsLog == Log!Spec

\* "A finished measurement should survive whatever happens to the ones after
\* it": when the run is at a cell, every row of a cell it has measured before
\* is in the file.  Rows of a failed installation may have to wait.
MeasuredRowsSaved ==
  pc \in {"cell", "single", "throughput", "append"} =>
    \A c \in Cell, m \in Mode :
      rows[c][m] = "ok" =>
        /\ disk.is = "whole"
        /\ disk.attempt = attempt
        /\ disk.rows[c][m] = "ok"

\* A real run that exits with 0 has left a complete artifact of its own with no
\* error in it, and one that exits with 1 has left the error in it, or nothing
\* final: exit codes and artifacts never tell different stories.
ExitTellsTruth ==
  pc = "exited" /\ ~dry =>
    /\ disk.is = "whole" /\ disk.attempt = attempt /\ ~disk.partial
    /\ (code = 0) <=>
         \A c \in Cell : \A m \in Modes[c] : disk.rows[c][m] = "ok"

\* "A finished measurement should survive whatever happens to the ones after
\* it": once the cell it belongs to is in the file, it is there as measured. The
\* code does not keep it: a later failure of the cell replaces all its rows.
FinishedSurvives ==
  disk.is = "whole" /\ disk.attempt = attempt =>
    \A c \in Cell : ~Untouched(disk.rows, c) =>
      \A m \in measured[c] : disk.rows[c][m] = "ok"

=============================================================================
