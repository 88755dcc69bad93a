------------------------------- MODULE Matrix -------------------------------
(***************************************************************************)
(* The benchmark matrix of one run of run_comparison.py and the rows it    *)
(* fills: fw_cases, the cases of each framework in FRAMEWORK_ORDER, and    *)
(* the modes each of them is measured in (_modes_for_case).                *)
(***************************************************************************)
EXTENDS Integers

CONSTANTS
  Frameworks, (* the frameworks are 1..Frameworks, in FRAMEWORK_ORDER      *)
  Cases,      (* how many cases a framework has                            *)
  Modes       (* the modes of each <<framework, case>>                     *)

Mode == {"single_e2e", "throughput"}

Cell == UNION {{f} \X (1..Cases[f]) : f \in 1..Frameworks}

ASSUME MatrixAssumption ==
  /\ Frameworks \in Nat
  /\ Cases \in [1..Frameworks -> Nat]
  /\ Modes \in [Cell -> SUBSET Mode]

\* The order the run takes the cells in.
Before(c, d) == c[1] < d[1] \/ (c[1] = d[1] /\ c[2] < d[2])

Outcome == {"none", "ok", "error"}
Rows == [Cell -> [Mode -> Outcome]]
NoRows == [c \in Cell |-> [m \in Mode |-> "none"]]

\* A cell has all of its rows, or none.
Recorded(r, c) == \A m \in Mode : (r[c][m] # "none") <=> (m \in Modes[c])
Untouched(r, c) == \A m \in Mode : r[c][m] = "none"

\* The rows are those of the first cells of the run.
Prefix(r) ==
  /\ \A c \in Cell : Recorded(r, c) \/ Untouched(r, c)
  /\ \A c, d \in Cell :
       Before(c, d) /\ ~Untouched(r, d) => Recorded(r, c)

Complete(r) == \A c \in Cell : Recorded(r, c)

Grows(old, new) ==
  \A c \in Cell, m \in Mode :
    old[c][m] # "none" => new[c][m] = old[c][m]

=============================================================================
