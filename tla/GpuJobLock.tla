----------------------------- MODULE GpuJobLock -----------------------------
(***************************************************************************)
(* scripts/gpu_job_lock.sh: the directory lock that serialises GPU jobs.   *)
(* Each shell command that touches the lock directory is one action, so    *)
(* TLC interleaves the jobs exactly where the shell can be preempted:      *)
(* between mkdir and the write of the pid, between reading the owner and   *)
(* asking kill -0 about it, between the ownership check and rm -rf.        *)
(*                                                                         *)
(* rm -rf is two steps (unlink the files, rmdir the directory), the second *)
(* of which fails on a directory somebody has written into meanwhile.  The *)
(* file lock/job only words messages and is left out.  A job acquires once:*)
(* every caller under scripts/ does.                                       *)
(***************************************************************************)
EXTENDS Naturals

CONSTANTS
  Job,      (* the shell processes that source the file                    *)
  Host,     (* host names of the boxes that mount the same DBF_STATE_DIR   *)
  Pid,      (* process numbers; each box hands them out on its own         *)
  HostOf,   (* the box a job runs on                                       *)
  PidOf,    (* the number ($$) its box gave it                             *)
  Nobody    (* an empty pid or host file, or one that is not there         *)

ASSUME JobAssumption ==
  /\ HostOf \in [Job -> Host]
  /\ PidOf \in [Job -> Pid]
  /\ Nobody \notin Pid \cup Host \cup Job

VARIABLES
  parent,   (* does the directory that is to contain the lock exist?       *)
  lock,     (* the lock directory and the two files the code decides by    *)
  pc,       (* where each job stands                                       *)
  owner,    (* what a waiting job read from lock/pid                       *)
  leaving   (* why a job releases: "no" is an explicit gpu_lock_release    *)

vars == <<parent, lock, pc, owner, leaving>>

Lock == [dir : BOOLEAN, pid : Pid \cup {Nobody}, host : Host \cup {Nobody}]
NoLock == [dir |-> FALSE, pid |-> Nobody, host |-> Nobody]

Creating  == {"writepid", "writehost", "settrap"}
Judging   == {"look", "host", "alive", "rmfiles", "rmdir"}
Releasing == {"relcheck", "relfiles", "reldir"}
Running   == Creating \cup Judging \cup Releasing \cup {"poll", "hold", "free"}
Gone      == {"idle", "done", "dead"}

TypeOK ==
  /\ parent \in BOOLEAN
  /\ lock \in Lock
  /\ pc \in [Job -> Running \cup Gone]
  /\ owner \in [Job -> Pid \cup {Nobody}]
  /\ leaving \in [Job -> {"no", "exit", "signal"}]

-----------------------------------------------------------------------------
Goto(j, from, to) ==
  /\ pc[j] = from
  /\ pc' = [pc EXCEPT ![j] = to]

\* kill -0 p, asked on box h.
KillZero(h, p) ==
  \E k \in Job : HostOf[k] = h /\ PidOf[k] = p /\ pc[k] \in Running

\* Writing a file into a directory that is gone fails, and the script, which
\* does not run under set -e, goes on.
WriteInto(field, value) ==
  lock' = IF lock.dir THEN [lock EXCEPT ![field] = value] ELSE lock

\* rmdir succeeds on an empty directory only.
RmDir == lock' = IF lock.pid = Nobody /\ lock.host = Nobody THEN NoLock ELSE lock
RmFiles == lock' = [lock EXCEPT !.pid = Nobody, !.host = Nobody]

Init ==
  /\ parent \in BOOLEAN
  /\ lock = NoLock
  /\ pc = [j \in Job |-> "idle"]
  /\ owner = [j \in Job |-> Nobody]
  /\ leaving = [j \in Job |-> "no"]

\* gpu_lock_acquire is called; a missing parent directory fails the job.
Start(j) ==
  /\ ~KillZero(HostOf[j], PidOf[j])
  /\ Goto(j, "idle", IF parent THEN "poll" ELSE "dead")
  /\ UNCHANGED <<parent, lock, owner, leaving>>

\* Mutant of MkDir: mkdir -p, which succeeds on a directory that is there.
MkDirParents(j) ==
  /\ Goto(j, "poll", "writepid")
  /\ lock' = [lock EXCEPT !.dir = TRUE]
  /\ UNCHANGED <<parent, owner, leaving>>

\* mkdir: the one atomic test of the loop.
MkDir(j) ==
  /\ Goto(j, "poll", IF lock.dir THEN "look" ELSE "writepid")
  /\ lock' = [lock EXCEPT !.dir = TRUE]
  /\ UNCHANGED <<parent, owner, leaving>>

WritePid(j) ==
  /\ Goto(j, "writepid", "writehost")
  /\ WriteInto("pid", PidOf[j])
  /\ UNCHANGED <<parent, owner, leaving>>

WriteHost(j) ==
  /\ Goto(j, "writehost", "settrap")
  /\ WriteInto("host", HostOf[j])
  /\ UNCHANGED <<parent, owner, leaving>>

\* The traps are set and gpu_lock_acquire returns: the job uses the cards.
SetTrap(j) ==
  /\ Goto(j, "settrap", "hold")
  /\ UNCHANGED <<parent, lock, owner, leaving>>

ReadOwner(j) ==
  /\ Goto(j, "look", "host")
  /\ owner' = [owner EXCEPT ![j] = lock.pid]
  /\ UNCHANGED <<parent, lock, leaving>>

\* A lock of another box is cleared without asking whether its job runs.
ReadHost(j) ==
  /\ Goto(j, "host", IF lock.host \notin {Nobody, HostOf[j]}
                     THEN "rmfiles" ELSE "alive")
  /\ UNCHANGED <<parent, lock, owner, leaving>>

\* Mutant of Judge: any owner but the job itself is taken for gone.
JudgeNotMe(j) ==
  /\ Goto(j, "alive", IF owner[j] # PidOf[j] THEN "rmfiles" ELSE "poll")
  /\ UNCHANGED <<parent, lock, owner, leaving>>

\* Mutant of Judge: a lock without a pid is taken for one being made.
JudgeEmptyWaits(j) ==
  /\ Goto(j, "alive", IF /\ owner[j] # Nobody
                         /\ ~KillZero(HostOf[j], owner[j])
                      THEN "rmfiles" ELSE "poll")
  /\ UNCHANGED <<parent, lock, owner, leaving>>

\* An empty or dead owner makes the lock stale; a live one is slept on.
Judge(j) ==
  /\ Goto(j, "alive", IF owner[j] = Nobody \/ ~KillZero(HostOf[j], owner[j])
                      THEN "rmfiles" ELSE "poll")
  /\ UNCHANGED <<parent, lock, owner, leaving>>

ClearFiles(j) ==
  /\ Goto(j, "rmfiles", "rmdir")
  /\ RmFiles
  /\ UNCHANGED <<parent, owner, leaving>>

ClearDir(j) ==
  /\ Goto(j, "rmdir", "poll")
  /\ RmDir
  /\ UNCHANGED <<parent, owner, leaving>>

-----------------------------------------------------------------------------
\* The job is over (its EXIT trap runs), or calls gpu_lock_release.
Finish(j) ==
  /\ Goto(j, "hold", "relcheck")
  /\ \E why \in {"no", "exit"} : leaving' = [leaving EXCEPT ![j] = why]
  /\ UNCHANGED <<parent, lock, owner>>

\* Mutant of AfterRelease: the signal handler releases and does not exit, so
\* the shell resumes the job.
AfterReleaseResumes(j) ==
  CASE leaving[j] = "no"     -> "free"
    [] leaving[j] = "signal" -> "hold"
    [] OTHER                 -> "done"

\* Where a job is when its release returns: the EXIT trap and the handler of
\* INT and TERM end it, gpu_lock_release lets it run on without its traps.
AfterRelease(j) == IF leaving[j] = "no" THEN "free" ELSE "done"

\* cat lock/pid against $$, the first half of gpu_lock_release_if_mine.
ReleaseCheck(j) ==
  /\ Goto(j, "relcheck", IF lock.pid = PidOf[j] THEN "relfiles"
                                                ELSE AfterRelease(j))
  /\ UNCHANGED <<parent, lock, owner, leaving>>

ReleaseFiles(j) ==
  /\ Goto(j, "relfiles", "reldir")
  /\ RmFiles
  /\ UNCHANGED <<parent, owner, leaving>>

ReleaseDir(j) ==
  /\ Goto(j, "reldir", AfterRelease(j))
  /\ RmDir
  /\ UNCHANGED <<parent, owner, leaving>>

\* A job that released explicitly ends with no trap left to run.
End(j) ==
  /\ Goto(j, "free", "done")
  /\ UNCHANGED <<parent, lock, owner, leaving>>

-----------------------------------------------------------------------------
\* INT or TERM.  The handler releases and exits, once the traps are set; the
\* shell runs it when the command in the foreground has returned.
Signal(j) ==
  /\ pc[j] \in {"hold", "relcheck"}
  /\ pc' = [pc EXCEPT ![j] = "relcheck"]
  /\ leaving' = [leaving EXCEPT ![j] = "signal"]
  /\ UNCHANGED <<parent, lock, owner>>

\* SIGKILL at any point, or INT or TERM while no trap is set.
Die(j) ==
  /\ pc[j] \in Running
  /\ pc' = [pc EXCEPT ![j] = "dead"]
  /\ UNCHANGED <<parent, lock, owner, leaving>>

\* What a job does of its own accord once it runs.
Step(j) ==
  \/ MkDir(j)     \/ WritePid(j) \/ WriteHost(j)  \/ SetTrap(j)
  \/ ReadOwner(j) \/ ReadHost(j) \/ Judge(j)
  \/ ClearFiles(j) \/ ClearDir(j)
  \/ Finish(j) \/ ReleaseCheck(j) \/ ReleaseFiles(j) \/ ReleaseDir(j)
  \/ End(j)

Next == \E j \in Job : Start(j) \/ Step(j) \/ Signal(j) \/ Die(j)

Spec == Init /\ [][Next]_vars

\* A shell that is not killed goes on, and a job that has the cards ends: the
\* runners put a timeout on each of its cases.  Nothing makes a job start.
Fairness == \A j \in Job : WF_vars(Step(j))

FairSpec == Spec /\ Fairness

-----------------------------------------------------------------------------
(* Two visits to the lock directory do not overlap in time.  This is what  *)
(* a poll interval of GPU_LOCK_POLL = 60 seconds makes likely and nothing  *)
(* in the file enforces.                                                   *)
Inside(j) == pc[j] \in Creating \cup Judging \cup Releasing

OneInside == \A j, k \in Job : Inside(j) /\ Inside(k) => j = k

SerialSpec == Init /\ [][Next /\ OneInside']_vars

\* The two facts about a deployment that the lock relies on.
OneBox == \A j, k \in Job : HostOf[j] = HostOf[k]
DistinctPids == \A j, k \in Job : PidOf[j] = PidOf[k] => j = k

-----------------------------------------------------------------------------
(* Properties.                                                             *)

\* Two jobs of one box never use its cards at the same time: "a lock
\* directory is a real mutex".
MutualExclusion ==
  \A j, k \in Job : /\ pc[j] = "hold"
                    /\ pc[k] = "hold"
                    /\ HostOf[j] = HostOf[k]
                    => j = k

\* While a job uses the cards, the directory exists and names that job, so
\* that the next job to look waits for it.  The lock files of the incident the
\* header of gpu_lock_release_if_mine tells named another job.
HolderIsNamed ==
  \A j \in Job : pc[j] = "hold" => /\ lock.dir
                                   /\ lock.pid = PidOf[j]
                                   /\ lock.host = HostOf[j]

\* gpu_lock_release_if_mine removes the files of a lock only if they name the
\* releasing job, even when another box has meanwhile evicted it.
ReleaseOnlyMine ==
  [][\A j \in Job : /\ pc[j] = "relfiles"
                    /\ pc'[j] = "reldir"
                    => lock.pid = PidOf[j]]_vars

\* A job that has begun to give up its lock never returns to the cards,
\* whatever signal made it give up: "only EXIT may be a bare release".
GivenUpIsStopped ==
  [][\A j \in Job : pc[j] \in Releasing \cup {"free"} => pc'[j] # "hold"]_vars

\* A job that waits gets the cards in the end, unless it is killed: neither a
\* lock left by a dead job nor one of another box blocks it for ever.
EveryWaiterIsServed ==
  \A j \in Job : pc[j] = "poll" ~> pc[j] \in {"hold", "dead"}

\* The job that has the cards, if one has them.
Holder == IF \E j \in Job : pc[j] = "hold"
          THEN CHOOSE j \in Job : pc[j] = "hold"
          ELSE Nobody

Abstract == INSTANCE Mutex WITH holder <- Holder

\* On one box the lock implements the abstract mutex: the cards go from a job
\* to nobody and from nobody to a job, never from one job to another.
ImplementsMutex == Abstract!Spec

=============================================================================
