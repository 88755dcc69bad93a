---------------------------- MODULE ArtifactLog -----------------------------
(***************************************************************************)
(* What a reader of a run's --output file may rely on (the docstring of    *)
(* _write_run_artifact and test_run_artifact_checkpoint.py): the file is   *)
(* there whole or not at all, holds the rows of the first cells of a run,  *)
(* loses none of them while that run goes on, and says "partial: false"    *)
(* only when it has them all.  Another run with the same --output replaces *)
(* the file.                                                               *)
(***************************************************************************)
EXTENDS Matrix

VARIABLE file

NoFile == [is |-> "absent", attempt |-> 0, partial |-> TRUE, rows |-> NoRows]

Artifact(f) ==
  /\ f.is = "whole"
  /\ f.rows \in Rows
  /\ Prefix(f.rows)
  /\ ~f.partial => Complete(f.rows)

\* A run in progress adds to its rows; a later run starts again.
Continues(f, g) ==
  \/ g.attempt = f.attempt /\ f.partial /\ Grows(f.rows, g.rows)
  \/ g.attempt > f.attempt

Init == file = NoFile

Save == Artifact(file') /\ Continues(file, file')

Spec == Init /\ [][Save]_file

=============================================================================
