------------------------------- MODULE Mutex -------------------------------
(***************************************************************************)
(* What scripts/gpu_job_lock.sh promises its callers: at any moment at     *)
(* most one job measures on a box's cards.  Nothing is said here of files, *)
(* pids, polls or stale locks; GpuJobLock is the implementation.           *)
(***************************************************************************)
CONSTANTS
  Job,      (* the jobs that may run on the box                            *)
  Nobody    (* not a job                                                   *)

VARIABLE holder   (* the job that has the cards, or Nobody                 *)

Init == holder = Nobody

\* A job gets the cards, and only while nobody has them.
Take(j) ==
  /\ holder = Nobody
  /\ holder' = j

\* The job that has the cards ends, gives them up or dies.
Give(j) ==
  /\ holder = j
  /\ holder' = Nobody

Next == \E j \in Job : Take(j) \/ Give(j)

Spec == Init /\ [][Next]_holder

=============================================================================
