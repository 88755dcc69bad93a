------------------------------ MODULE BoxSession ------------------------------
(***************************************************************************)
(* A session on a box: a file the jobs need is pushed to it (RxPut), and   *)
(* when the push says ok, the jobs are started (BoxJobs).                  *)
(*                                                                         *)
(* The jobs see nothing of the push but its outcome, so what it leaves on  *)
(* the box is followed until they start.                                   *)
(***************************************************************************)
EXTENDS RxPut, BoxJobs

sessionVars == <<putVars, boxVars>>

SessionInit == PutInit /\ BoxInit

JobsStart ==
  /\ put = "ok" /\ put' = "over"
  /\ command' = Truncate /\ tried' = 0
  /\ staged' = Whole /\ dst' = Whole
  /\ late' = {} /\ overtook' = {} /\ losses' = 0
  /\ UNCHANGED boxVars

SessionNext ==
  \/ put # "over" /\ PutNext /\ UNCHANGED boxVars
  \/ JobsStart
  \/ put = "over" /\ BoxNext /\ UNCHANGED putVars

SessionSpec == SessionInit /\ [][SessionNext]_sessionVars

=============================================================================
