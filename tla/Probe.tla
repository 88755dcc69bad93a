-------------------------------- MODULE Probe ---------------------------------
(***************************************************************************)
(* The probe as a whole: the matrix is searched (build_matrix), and the    *)
(* invocations of one output directory run what it has (main).             *)
(*                                                                         *)
(* The seed is fixed, so that every build finds the same cells and one     *)
(* search stands for all of them.  The invocations see nothing of it but   *)
(* its cells, which `Matrices` gives: what else it had is gone when it     *)
(* returns.                                                                *)
(***************************************************************************)
EXTENDS ProbePairwise, ProbeRun

probeVars == <<searchVars, vars>>

ProbeInit == SearchInit /\ Init

Searching == offered # <<>>

\* build_matrix returns its cells.
Returns ==
  /\ Searching /\ fixed # {}
  /\ offered' = <<>> /\ window' = 0 /\ maximum' = 0
  /\ selected' = <<>> /\ remaining' = <<>> /\ uncovered' = {}
  /\ fruitless' = FALSE /\ fixed' = {}
  /\ UNCHANGED vars

ProbeNext ==
  \/ Searching /\ SearchNext /\ UNCHANGED vars
  \/ Returns
  \/ ~Searching /\ Next /\ UNCHANGED searchVars

ProbeSpec ==
  /\ ProbeInit /\ [][ProbeNext]_probeVars
  /\ WF_probeVars(ProbeStep /\ UNCHANGED searchVars)

=============================================================================
