------------------------------ MODULE Box_proofs ------------------------------
(***************************************************************************)
(* What holds of the jobs on a GPU box.                                    *)
(*                                                                         *)
(* The lock of scripts/gpu_job_lock.sh, for any number of jobs, with kills *)
(* and signals at every point.                                             *)
(*                                                                         *)
(* A session, for a file of any length, any number of lost answers,        *)
(* studies, arms and cases, and any mishaps. The push: as long as no late  *)
(* command has touched the staged chunks they are whole, and a late decode *)
(* can do no harm (Delivered). The jobs: a study whose run goes on without *)
(* the lock has been killed (Alone), so that what is launched during an    *)
(* arm is the arm's own, the runner's or a dead study's; and clearing the  *)
(* cards leaves nothing but what it could not see or could not end.        *)
(***************************************************************************)
EXTENDS GpuJobLock, BoxSession, TLAPS


NobodyHolds == \A k \in Job : pc[k] # "hold"

\* What the lock is while a job is making it.
Made(j) ==
  /\ pc[j] \in Creating => lock.dir
  /\ pc[j] = "writepid" => lock.pid = Nobody
  /\ pc[j] \in {"writehost", "settrap"} => lock.pid = PidOf[j]
  /\ pc[j] \in {"writepid", "writehost"} => lock.host = Nobody
  /\ pc[j] = "settrap" => lock.host = HostOf[j]

\* What a job that looks at the lock knows of it.
Judged(j) ==
  /\ pc[j] \in {"host", "alive"} => owner[j] = lock.pid
  /\ pc[j] \in {"rmfiles", "rmdir"} => NobodyHolds

\* What a job that gives up the lock knows of it.
Released(j) ==
  /\ pc[j] = "relfiles" => lock.pid = PidOf[j]
  /\ pc[j] = "reldir"   => lock.pid = Nobody

\* The inductive invariant of one box with visits that do not overlap.
SerialInv ==
  /\ TypeOK
  /\ OneInside
  /\ HolderIsNamed
  /\ ~lock.dir => lock.pid = Nobody /\ lock.host = Nobody
  /\ \A j \in Job : /\ lock.host \in {Nobody, HostOf[j]}
                    /\ Made(j)
                    /\ Judged(j)
                    /\ Released(j)

-----------------------------------------------------------------------------
LEMMA TypeStep == TypeOK /\ [Next]_vars => TypeOK'
<1>. SUFFICES ASSUME TypeOK, [Next]_vars PROVE TypeOK'
  OBVIOUS
<1>. USE JobAssumption DEF TypeOK, Lock, Running, Gone, Creating, Judging, Releasing
<1>1. ASSUME NEW j \in Job, Start(j) PROVE TypeOK'
  BY <1>1 DEF Start, Goto
<1>2. ASSUME NEW j \in Job, MkDir(j) \/ SetTrap(j) PROVE TypeOK'
  BY <1>2 DEF MkDir, SetTrap, Goto
<1>9. ASSUME NEW j \in Job, WritePid(j) PROVE TypeOK'
  BY <1>9 DEF WritePid, Goto, WriteInto
<1>10. ASSUME NEW j \in Job, WriteHost(j) PROVE TypeOK'
  BY <1>10 DEF WriteHost, Goto, WriteInto
<1>3. ASSUME NEW j \in Job, ReadOwner(j) \/ ReadHost(j) \/ Judge(j)
      PROVE  TypeOK'
  BY <1>3 DEF ReadOwner, ReadHost, Judge, Goto
<1>4. ASSUME NEW j \in Job, ClearFiles(j) \/ ReleaseFiles(j)
      PROVE  TypeOK'
  BY <1>4 DEF ClearFiles, ReleaseFiles, Goto, RmFiles
<1>5. ASSUME NEW j \in Job, ClearDir(j)
      PROVE  TypeOK'
  BY <1>5 DEF ClearDir, Goto, RmDir, NoLock
<1>6. ASSUME NEW j \in Job, ReleaseDir(j)
      PROVE  TypeOK'
  BY <1>6 DEF ReleaseDir, Goto, RmDir, NoLock, AfterRelease
<1>7. ASSUME NEW j \in Job,
             Finish(j) \/ ReleaseCheck(j) \/ End(j) \/ Signal(j) \/ Die(j)
      PROVE  TypeOK'
  BY <1>7 DEF Finish, ReleaseCheck, End, Signal, Die, Goto, AfterRelease
<1>8. CASE UNCHANGED vars
  BY <1>8 DEF vars
<1>. QED
  BY <1>1, <1>2, <1>3, <1>4, <1>5, <1>6, <1>7, <1>8, <1>9, <1>10 DEF Next, Step

\* Type correctness, over every interleaving: gpu_job_lock.sh only ever leaves
\* the lock and the jobs in the states listed.
THEOREM TypeCorrect == Spec => []TypeOK
<1>1. Init => TypeOK
  BY JobAssumption DEF Init, TypeOK, Lock, NoLock, Running, Gone
<1>. QED
  BY <1>1, TypeStep, PTL DEF Spec

-----------------------------------------------------------------------------
\* Nobody comes to hold the lock but by setting the traps after the pid and host
\* are written.
LEMMA HoldsBySetTrap ==
  ASSUME TypeOK, Next, NEW j \in Job, pc'[j] = "hold"
  PROVE  pc[j] \in {"settrap", "hold"}
<1>1. PICK k \in Job : Start(k) \/ Step(k) \/ Signal(k) \/ Die(k)
  BY DEF Next
<1>2. pc \in [Job -> Running \cup Gone]
  BY DEF TypeOK
<1>. USE DEF Goto, Running, Creating, Judging, Releasing, Gone
<1>3. CASE Start(k)
  BY <1>2, <1>3 DEF Start
<1>4. CASE MkDir(k) \/ WritePid(k) \/ WriteHost(k) \/ SetTrap(k)
  BY <1>2, <1>4 DEF MkDir, WritePid, WriteHost, SetTrap
<1>5. CASE ReadOwner(k) \/ ReadHost(k) \/ Judge(k)
  BY <1>2, <1>5 DEF ReadOwner, ReadHost, Judge
<1>6. CASE ClearFiles(k) \/ ClearDir(k) \/ Finish(k) \/ ReleaseFiles(k) \/ End(k)
  BY <1>2, <1>6 DEF ClearFiles, ClearDir, Finish, ReleaseFiles, End
<1>7. CASE ReleaseCheck(k) \/ ReleaseDir(k)
  BY <1>2, <1>7 DEF ReleaseCheck, ReleaseDir, AfterRelease
<1>8. CASE Signal(k) \/ Die(k)
  BY <1>2, <1>8 DEF Signal, Die
<1>. QED
  BY <1>1, <1>3, <1>4, <1>5, <1>6, <1>7, <1>8 DEF Step

\* For any jobs and boxes and with every interleaving, a job that gives up its
\* lock, whatever signal made it, never returns to the cards.
THEOREM ReleasedIsStopped == Spec => GivenUpIsStopped
<1>1. TypeOK /\ [Next]_vars =>
        [\A j \in Job : pc[j] \in Releasing \cup {"free"} => pc'[j] # "hold"]_vars
  BY HoldsBySetTrap DEF Releasing
<1>. QED
  BY <1>1, TypeCorrect, PTL DEF Spec, GivenUpIsStopped

-----------------------------------------------------------------------------
LEMMA SerialInit == ASSUME OneBox, Init PROVE SerialInv
<1>1. TypeOK
  BY JobAssumption DEF Init, TypeOK, Lock, NoLock, Running, Gone
<1>. QED
  BY <1>1 DEF Init, SerialInv, OneInside, Inside, Creating, Judging, Releasing,
     HolderIsNamed, NoLock, Made, Judged, Released, NobodyHolds

LEMMA SerialStep ==
  ASSUME OneBox, DistinctPids, SerialInv, [Next /\ OneInside']_vars
  PROVE  SerialInv'
<1>. USE JobAssumption DEF SerialInv
<1>t. TypeOK'
  BY TypeStep
<1>i. OneInside'
  BY DEF OneInside, Inside, vars
<1>n. CASE UNCHANGED vars
  BY <1>n, <1>t, <1>i DEF vars, HolderIsNamed, NoLock, Made, Judged, Released,
     NobodyHolds
<1>. SUFFICES ASSUME NEW j \in Job, Start(j) \/ Step(j) \/ Signal(j) \/ Die(j)
              PROVE  SerialInv'
  BY <1>n DEF Next
<1>. USE DEF OneBox, DistinctPids, TypeOK, Lock, Goto, HolderIsNamed, NoLock, Made,
             Judged, Released, NobodyHolds, OneInside, Inside,
             Creating, Judging, Releasing
<1>1. CASE Start(j)
  BY <1>1, <1>t, <1>i DEF Start
<1>2. CASE MkDir(j)
  <2>1. lock'.dir /\ lock'.pid = lock.pid /\ lock'.host = lock.host
    BY <1>2 DEF MkDir
  <2>2. CASE lock.dir
    BY <1>2, <2>1, <2>2, <1>t, <1>i DEF MkDir
  <2>3. CASE ~lock.dir
    BY <1>2, <2>1, <2>3, <1>t, <1>i DEF MkDir
  <2>. QED
    BY <2>2, <2>3
<1>3. CASE WritePid(j)
  <2>1. lock'.dir /\ lock'.pid = PidOf[j] /\ lock'.host = Nobody
    BY <1>3 DEF WritePid, WriteInto
  <2>. QED
    BY <1>3, <2>1, <1>t, <1>i DEF WritePid
<1>4. CASE WriteHost(j)
  <2>1. lock'.dir /\ lock'.pid = PidOf[j] /\ lock'.host = HostOf[j]
    BY <1>4 DEF WriteHost, WriteInto
  <2>. QED
    BY <1>4, <2>1, <1>t, <1>i DEF WriteHost
<1>5. CASE SetTrap(j)
  BY <1>5, <1>t, <1>i DEF SetTrap
<1>6. CASE ReadOwner(j)
  BY <1>6, <1>t, <1>i DEF ReadOwner
<1>7. CASE ReadHost(j)
  BY <1>7, <1>t, <1>i DEF ReadHost
<1>8. CASE Judge(j)
  BY <1>8, <1>t, <1>i DEF Judge, KillZero, Running
<1>9. CASE ClearFiles(j)
  BY <1>9, <1>t, <1>i DEF ClearFiles, RmFiles
<1>10. CASE ClearDir(j)
  BY <1>10, <1>t, <1>i DEF ClearDir, RmDir
<1>11. CASE Finish(j)
  BY <1>11, <1>t, <1>i DEF Finish
<1>12. CASE ReleaseCheck(j)
  BY <1>12, <1>t, <1>i DEF ReleaseCheck, AfterRelease
<1>13. CASE ReleaseFiles(j)
  BY <1>13, <1>t, <1>i DEF ReleaseFiles, RmFiles
<1>14. CASE ReleaseDir(j)
  BY <1>14, <1>t, <1>i DEF ReleaseDir, RmDir, AfterRelease
<1>15. CASE End(j)
  BY <1>15, <1>t, <1>i DEF End
<1>16. CASE Signal(j)
  BY <1>16, <1>t, <1>i DEF Signal
<1>17. CASE Die(j)
  BY <1>17, <1>t, <1>i DEF Die
<1>. QED
  BY <1>1, <1>2, <1>3, <1>4, <1>5, <1>6, <1>7, <1>8, <1>9, <1>10, <1>11, <1>12, <1>13, <1>14, <1>15, <1>16, <1>17 DEF Step

LEMMA SerialInvHolds ==
  ASSUME OneBox, DistinctPids PROVE SerialSpec => []SerialInv
<1>1. Init => SerialInv
  BY SerialInit
<1>2. SerialInv /\ [Next /\ OneInside']_vars => SerialInv'
  BY SerialStep
<1>. QED
  BY <1>1, <1>2, PTL DEF SerialSpec

\* On one box, with a number for each job, two jobs never use the cards at the
\* same time as long as their visits to the lock directory do not overlap:
\* whoever is killed, and wherever, the lock of gpu_job_lock.sh is a mutex.
THEOREM SerialMutualExclusion ==
  ASSUME OneBox, DistinctPids PROVE SerialSpec => []MutualExclusion
<1>1. SerialInv => MutualExclusion
  BY DEF SerialInv, HolderIsNamed, MutualExclusion, DistinctPids
<1>. QED
  BY <1>1, SerialInvHolds, PTL

\* Under the same conditions the lock always names the job on the cards.
THEOREM SerialHolderIsNamed ==
  ASSUME OneBox, DistinctPids PROVE SerialSpec => []HolderIsNamed
<1>1. SerialInv => HolderIsNamed
  BY DEF SerialInv
<1>. QED
  BY <1>1, SerialInvHolds, PTL

-----------------------------------------------------------------------------
\* The check of gpu_lock_release_if_mine is enough on any number of boxes, if
\* visits do not overlap: what is removed names the job that removes it.
THEOREM SerialReleaseOnlyMine == SerialSpec => ReleaseOnlyMine
<1>. DEFINE Checked == OneInside /\ \A j \in Job : pc[j] = "relfiles" => lock.pid = PidOf[j]
<1>1. Init => Checked
  BY DEF Init, OneInside, Inside, Creating, Judging, Releasing
<1>2. TypeOK /\ Checked /\ [Next /\ OneInside']_vars => Checked'
  <2>. SUFFICES ASSUME TypeOK, Checked, [Next /\ OneInside']_vars PROVE Checked'
    OBVIOUS
  <2>1. CASE UNCHANGED vars
    BY <2>1 DEF vars, OneInside, Inside
  <2>2. ASSUME NEW j \in Job, OneInside', Start(j) \/ Step(j) \/ Signal(j) \/ Die(j)
        PROVE  Checked'
    <3>. USE DEF OneInside, Inside, Creating, Judging, Releasing, Goto, TypeOK
    <3>1. CASE \/ Start(j) \/ Finish(j) \/ End(j) \/ Signal(j) \/ Die(j)
               \/ SetTrap(j) \/ ReadOwner(j) \/ ReadHost(j) \/ Judge(j)
      BY <2>2, <3>1 DEF Start, Finish, End, Signal, Die, SetTrap, ReadOwner,
                        ReadHost, Judge
    <3>2. CASE MkDir(j)
      <4>1. lock'.pid = lock.pid
        BY <3>2 DEF MkDir, Lock
      <4>. QED
        BY <2>2, <3>2, <4>1 DEF MkDir
    <3>3. CASE WritePid(j) \/ WriteHost(j)
      BY <2>2, <3>3 DEF WritePid, WriteHost
    <3>4. CASE ClearFiles(j) \/ ClearDir(j)
      BY <2>2, <3>4 DEF ClearFiles, ClearDir
    <3>5. CASE ReleaseCheck(j)
      BY <2>2, <3>5 DEF ReleaseCheck, AfterRelease
    <3>6. CASE ReleaseFiles(j) \/ ReleaseDir(j)
      BY <2>2, <3>6 DEF ReleaseFiles, ReleaseDir, AfterRelease
    <3>. QED
      BY <2>2, <3>1, <3>2, <3>3, <3>4, <3>5, <3>6 DEF Step
  <2>. QED
    BY <2>1, <2>2 DEF Next
<1>3. Checked => \A j \in Job : /\ pc[j] = "relfiles"
                                /\ pc'[j] = "reldir"
                                => lock.pid = PidOf[j]
  OBVIOUS
<1>4. SerialSpec => Spec
  BY PTL DEF SerialSpec, Spec
<1>. QED
  BY <1>1, <1>2, <1>3, <1>4, TypeCorrect, PTL DEF SerialSpec, ReleaseOnlyMine

-----------------------------------------------------------------------------
LEMMA HolderIs ==
  ASSUME MutualExclusion, OneBox, NEW j \in Job, pc[j] = "hold"
  PROVE  Holder = j
BY DEF Holder, MutualExclusion, OneBox

LEMMA NoHolder ==
  ASSUME NobodyHolds PROVE Holder = Nobody
BY DEF Holder, NobodyHolds

\* The lock, on one box and with visits that do not overlap, implements the
\* abstract Mutex: a step of any job takes the cards from nobody, gives them to
\* nobody, or leaves the holder alone.
THEOREM SerialImplementsMutex ==
  ASSUME OneBox, DistinctPids PROVE SerialSpec => ImplementsMutex
<1>1. Init => Abstract!Init
  BY NoHolder DEF Init, Abstract!Init, NobodyHolds
<1>2. SerialInv /\ SerialInv' /\ [Next /\ OneInside']_vars
        => [Abstract!Next]_Holder
  <2>. SUFFICES ASSUME SerialInv, SerialInv', [Next /\ OneInside']_vars
                PROVE  Abstract!Next \/ Holder' = Holder
    OBVIOUS
  <2>m. MutualExclusion /\ MutualExclusion'
    BY DEF SerialInv, HolderIsNamed, MutualExclusion, DistinctPids
  <2>1. CASE pc' = pc
    BY <2>1 DEF Holder
  <2>2. ASSUME NEW j \in Job, Start(j) \/ Step(j) \/ Signal(j) \/ Die(j)
        PROVE  Abstract!Next \/ Holder' = Holder
    <3>1. \A k \in Job : k # j => pc'[k] = pc[k]
      BY <2>2 DEF Start, Step, Signal, Die, MkDir, WritePid, WriteHost, SetTrap,
         ReadOwner, ReadHost, Judge, ClearFiles, ClearDir, Finish, ReleaseCheck,
         ReleaseFiles, ReleaseDir, End, Goto, SerialInv, TypeOK
    <3>2. CASE NobodyHolds /\ NobodyHolds'
      BY <3>2 DEF Holder, NobodyHolds
    <3>3. CASE NobodyHolds /\ ~NobodyHolds'
      <4>1. pc'[j] = "hold"
        BY <3>1, <3>3 DEF NobodyHolds
      <4>2. Holder' = j
        BY <4>1, <2>m DEF Holder, MutualExclusion, OneBox
      <4>. QED
        BY <4>2, <3>3, NoHolder DEF Abstract!Next, Abstract!Take
    <3>4. CASE ~NobodyHolds /\ NobodyHolds'
      <4>1. PICK k \in Job : pc[k] = "hold"
        BY <3>4 DEF NobodyHolds
      <4>2. Holder = k
        BY <4>1, <2>m, HolderIs
      <4>3. Holder' = Nobody
        BY <3>4 DEF Holder, NobodyHolds
      <4>. QED
        BY <4>2, <4>3 DEF Abstract!Next, Abstract!Give
    <3>5. CASE ~NobodyHolds /\ ~NobodyHolds'
      <4>1. PICK k \in Job : pc[k] = "hold"
        BY <3>5 DEF NobodyHolds
      <4>2. PICK l \in Job : pc'[l] = "hold"
        BY <3>5 DEF NobodyHolds
      <4>3. k = l
        <5>1. CASE l # j
          BY <5>1, <3>1, <4>1, <4>2, <2>m DEF MutualExclusion, OneBox
        <5>2. CASE l = j /\ k # j
          <6>1. pc'[k] = "hold"
            BY <5>2, <3>1, <4>1
          <6>. QED
            BY <6>1, <4>2, <2>m DEF MutualExclusion, OneBox
        <5>. QED
          BY <5>1, <5>2
      <4>4. Holder = k
        BY <4>1, <2>m, HolderIs
      <4>5. Holder' = l
        BY <4>2, <2>m DEF Holder, MutualExclusion, OneBox
      <4>. QED
        BY <4>3, <4>4, <4>5
    <3>. QED
      BY <3>2, <3>3, <3>4, <3>5
  <2>. QED
    BY <2>1, <2>2 DEF Next, vars
<1>. QED
  BY <1>1, <1>2, SerialInvHolds, PTL
     DEF SerialSpec, ImplementsMutex, Abstract!Spec

-----------------------------------------------------------------------------
(* The session.                                                            *)


\* What a delivered file may have become.
Delivered ==
  \/ staged = Whole /\ dst = Whole
  \/ overtook \ {Decode} # {} /\ (dst = Whole \/ Decode \in overtook)

PushInv == put = "ok" => Delivered

-----------------------------------------------------------------------------
Server == [of : Process, at : Nat,
           is : {"loading", "resident", "stuck"}, missed : BOOLEAN]

JobTypes ==
  /\ holder \in Study \cup {NoStudy}
  /\ shell \in [Study -> {"waits", "lives", "done", "dead"}]
  /\ stage \in {"clear", "run", "over"}
  /\ runner \in {"idle", "kill", "wait", "run", "done"}

RunTypes ==
  /\ at \in [Process -> Nat] /\ \A j \in Study : at[j] \in 1..Arms
  /\ matrix \in [Process -> {"none", "setup", "health", "measure", "wrote",
                             "nothing"}]

ServerTypes == servers \subseteq Server

ResultTypes == result \in [1..Arms -> Process \cup {NoFile, Earlier}]

Types == JobTypes /\ RunTypes /\ ServerTypes /\ ResultTypes

\* A study has a run only while it has the lock, or when it was killed.
Alone ==
  \A j \in Study :
    /\ InRun(j) /\ j # holder => shell[j] = "dead"
    /\ shell[j] = "waits" => j # holder /\ matrix[j] = "none"

\* The one that has the lock has a run only between clearing and reporting.
Staged == holder # NoStudy => stage = "run" \/ matrix[holder] = "none"

Excused(s) ==
  s.of = Runner \/ s.missed \/ s.is = "stuck" \/ shell[s.of] = "dead"

ArmAlone ==
  holder # NoStudy /\ stage = "run" =>
    \A s \in servers : Excused(s) \/ s \in Own(holder)

CaseAlone ==
  /\ runner # "run" => matrix[Runner] = "none"
  /\ \A s \in servers : s.of = Runner =>
       /\ runner = "wait" => s.missed \/ s.is # "loading"
       /\ runner = "run" => s.missed \/ s \in Own(Runner)

NobodyDead == \A j \in Study : shell[j] # "dead"

Written ==
  NobodyDead /\ holder # NoStudy /\ matrix[holder] = "wrote" =>
    result[at[holder]] = holder

JobsInv ==
  /\ Types /\ Alone /\ Staged /\ ArmAlone /\ CaseAlone /\ Written
  /\ ReportedIsOwn

SessionInv == PushInv /\ JobsInv

-----------------------------------------------------------------------------
(* The push.                                                               *)

LEMMA PushStep == PushInv /\ PutNext => PushInv'
<1>. SUFFICES ASSUME PushInv, PutNext, put' = "ok" PROVE Delivered'
  BY DEF PushInv
<1>. USE PutAssumption
<1>1. CASE Answered
  <2>1. command = Decode /\ dst' = Whole
    BY <1>1 DEF Answered, Verdict
  <2>2. staged' = staged /\ dst' = staged
    BY <1>1, <2>1 DEF Answered, Runs, Decode, Truncate
  <2>. QED
    BY <2>1, <2>2 DEF Delivered, Whole
<1>2. CASE Lost
  BY <1>2 DEF Lost
<1>3. CASE Refused
  BY <1>3 DEF Refused
<1>4. CASE RunsLate
  <2>1. PICK l \in late : Runs(l[1]) /\ overtook' = overtook \cup {l[1]}
    BY <1>4 DEF RunsLate
  <2>2. Delivered
    BY <1>4 DEF RunsLate, PushInv
  <2>3. CASE l[1] = Decode
    <3>1. staged' = staged /\ dst' = staged
      BY <2>1, <2>3 DEF Runs, Decode, Truncate
    <3>. QED
      BY <2>1, <2>2, <2>3, <3>1 DEF Delivered, Whole, Decode
  <2>4. CASE l[1] # Decode
    <3>1. dst' = dst
      BY <2>1, <2>4 DEF Runs
    <3>. QED
      BY <2>1, <2>2, <2>4, <3>1 DEF Delivered, Whole, Decode
  <2>. QED
    BY <2>3, <2>4
<1>. QED
  BY <1>1, <1>2, <1>3, <1>4 DEF PutNext

-----------------------------------------------------------------------------
(* The steps of the jobs.                                                  *)

LEMMA Distinct ==
  /\ Runner \notin Study /\ NoStudy \notin Study
  /\ Arms \in Nat \ {0} /\ Cases \in Nat \ {0}
BY BoxAssumption

\* What is left on the cards when they have been cleared.
LEMMA Cleaned ==
  ASSUME ServerTypes, KillOnCards
  PROVE  /\ ServerTypes'
         /\ \A s \in servers' :
              /\ s.missed \/ s.is = "stuck"
              /\ \E t \in servers : /\ s.of = t.of /\ s.at = t.at
                                    /\ t.missed => s.missed
<1>1. ASSUME NEW s \in servers'
      PROVE  \E t \in servers :
               \/ s = [t EXCEPT !.missed = @ \/ t.is = "loading"]
                    /\ t.is # "resident"
               \/ s = [t EXCEPT !.is = "stuck"]
               \/ s = [t EXCEPT !.missed = @ \/ t.is # "stuck"]
  BY <1>1 DEF KillOnCards, Spared, OnCards, Unseen
<1>2. ASSUME NEW s \in servers'
      PROVE  /\ s \in Server
             /\ s.missed \/ s.is = "stuck"
             /\ \E t \in servers : /\ s.of = t.of /\ s.at = t.at
                                   /\ t.missed => s.missed
  <2>1. PICK t \in servers :
           \/ s = [t EXCEPT !.missed = @ \/ t.is = "loading"]
                /\ t.is # "resident"
           \/ s = [t EXCEPT !.is = "stuck"]
           \/ s = [t EXCEPT !.missed = @ \/ t.is # "stuck"]
    BY <1>1
  <2>2. t \in Server
    BY DEF ServerTypes
  <2>3. CASE s = [t EXCEPT !.is = "stuck"]
    BY <2>2, <2>3 DEF Server
  <2>4. CASE s = [t EXCEPT !.missed = @ \/ t.is = "loading"] /\ t.is # "resident"
    <3>1. CASE t.is = "loading"
      <4>1. s = [t EXCEPT !.missed = TRUE]
        BY <2>4, <3>1
      <4>. QED
        BY <2>2, <4>1 DEF Server
    <3>2. CASE t.is # "loading"
      <4>1. t.is = "stuck" /\ t.missed \in BOOLEAN
        BY <2>2, <2>4, <3>2 DEF Server
      <4>2. s = [t EXCEPT !.missed = t.missed]
        BY <2>4, <3>2, <4>1
      <4>. QED
        BY <2>2, <4>1, <4>2 DEF Server
    <3>. QED
      BY <3>1, <3>2
  <2>5. CASE s = [t EXCEPT !.missed = @ \/ t.is # "stuck"]
    <3>1. CASE t.is # "stuck"
      <4>1. s = [t EXCEPT !.missed = TRUE]
        BY <2>5, <3>1
      <4>. QED
        BY <2>2, <4>1 DEF Server
    <3>2. CASE t.is = "stuck"
      <4>1. t.missed \in BOOLEAN
        BY <2>2 DEF Server
      <4>2. s = [t EXCEPT !.missed = t.missed]
        BY <2>5, <3>2, <4>1
      <4>. QED
        BY <2>2, <3>2, <4>1, <4>2 DEF Server
    <3>. QED
      BY <3>1, <3>2
  <2>. QED
    BY <2>1, <2>3, <2>4, <2>5
<1>. QED
  BY <1>2 DEF ServerTypes

\* A case that starts on cards it could not read has missed what is of the runner.
LEMMA Missed ==
  ASSUME ServerTypes, servers' = NotRead
  PROVE  /\ ServerTypes'
         /\ \A s \in servers' :
              /\ s.of = Runner => s.missed
              /\ \E t \in servers : /\ s.of = t.of /\ s.at = t.at /\ s.is = t.is
                                    /\ t.of # Runner => s = t
<1>1. ASSUME NEW s \in servers'
      PROVE  /\ s \in Server
             /\ s.of = Runner => s.missed
             /\ \E t \in servers : /\ s.of = t.of /\ s.at = t.at /\ s.is = t.is
                                   /\ t.of # Runner => s = t
  <2>1. PICK t \in servers : s = [t EXCEPT !.missed = @ \/ t.of = Runner]
    BY <1>1 DEF NotRead
  <2>2. t \in Server
    BY DEF ServerTypes
  <2>3. CASE t.of = Runner
    <3>1. s = [t EXCEPT !.missed = TRUE]
      BY <2>1, <2>3
    <3>. QED
      BY <2>2, <2>3, <3>1 DEF Server
  <2>4. CASE t.of # Runner
    <3>1. s = [t EXCEPT !.missed = t.missed] /\ t.missed \in BOOLEAN
      BY <2>1, <2>2, <2>4 DEF Server
    <3>2. s = t
      BY <2>2, <3>1 DEF Server
    <3>. QED
      BY <2>2, <2>4, <3>2
  <2>. QED
    BY <2>3, <2>4
<1>. QED
  BY <1>1 DEF ServerTypes

\* The kinds of steps.
StudyStep == ClearCards \/ Report \/ \E j \in Study : Acquire(j) \/ Release(j) \/ Killed(j)
MatrixStep == \E p \in Process : RunStep(p)
ServerStep == \E s \in servers : ServerLoads(s) \/ ServerGone(s)
RunnersStep == RunnerStarts \/ RunnerStep

LEMMA Kinds ==
  BoxNext => StudyStep \/ MatrixStep \/ ServerStep \/ RunnersStep
BY DEF BoxNext, Uses, StudyStep, MatrixStep, ServerStep, RunnersStep

\* What the steps of runs and servers leave alone.
LEMMA MatrixFrame ==
  ASSUME MatrixStep
  PROVE  UNCHANGED <<holder, shell, stage, at, said, runner>>
BY DEF MatrixStep, RunStep, LaunchServer, Healthy, Ends, TimesOut, Unread,
   lockVars

LEMMA ServerFrame ==
  ASSUME ServerStep
  PROVE  UNCHANGED <<holder, shell, stage, at, said, runner, matrix, result>>
BY DEF ServerStep, ServerLoads, ServerGone, Unread, lockVars

\* What the runner's own steps leave alone.
LEMMA RunnersFrame ==
  ASSUME Types, RunnersStep
  PROVE  /\ UNCHANGED <<holder, shell, stage, said, result>>
         /\ \E c \in Nat : at' = [at EXCEPT ![Runner] = c]
                             \/ UNCHANGED at
         /\ \E m \in {"setup", "none"} :
              matrix' = [matrix EXCEPT ![Runner] = m] \/ UNCHANGED matrix
         /\ servers' = servers \/ servers' = NotRead \/ KillOnCards
<1>. USE DEF lockVars, Becomes
<1>1. CASE RunnerStarts \/ RunnerKills
  BY <1>1 DEF RunnerStarts, RunnerKills
<1>2. CASE CaseStarts \/ KeepsWaiting
  BY <1>2 DEF CaseStarts, KeepsWaiting
<1>3. CASE Contaminated \/ CaseEnds
  <2>1. at[Runner] + 1 \in Nat
    BY DEF Types, RunTypes, Process
  <2>2. UNCHANGED at \/ at' = [at EXCEPT ![Runner] = at[Runner] + 1]
    BY <1>3 DEF Contaminated, CaseEnds, NextCase
  <2>3. /\ UNCHANGED <<holder, shell, stage, said, result>>
        /\ matrix' = [matrix EXCEPT ![Runner] = "none"] \/ UNCHANGED matrix
        /\ servers' = servers \/ KillOnCards
    BY <1>3 DEF Contaminated, CaseEnds
  <2>. QED
    BY <2>1, <2>2, <2>3
<1>. QED
  BY <1>1, <1>2, <1>3 DEF RunnersStep, RunnerStep

LEMMA JobTypesStep ==
  ASSUME Types, BoxNext
  PROVE  JobTypes'
<1>. USE Distinct DEF JobTypes, Types, lockVars
<1>1. CASE MatrixStep \/ ServerStep
  BY <1>1, MatrixFrame, ServerFrame
<1>2. CASE ClearCards
  BY <1>2 DEF ClearCards, Cleared
<1>3. CASE Report
  BY <1>3 DEF Report
<1>4. CASE \E j \in Study : Acquire(j)
  BY <1>4 DEF Acquire, CardLock!Take
<1>5. CASE \E j \in Study : Release(j) \/ Killed(j)
  BY <1>5 DEF Release, Killed, Leaves, CardLock!Give
<1>6. CASE RunnersStep
  BY <1>6 DEF RunnersStep, RunnerStarts, RunnerAt, RunnerStep, RunnerKills,
     CaseStarts, KeepsWaiting, Contaminated, CaseEnds, NextCase
<1>. QED
  BY <1>1, <1>2, <1>3, <1>4, <1>5, <1>6, Kinds DEF StudyStep

LEMMA RunTypesStep ==
  ASSUME Types, BoxNext
  PROVE  RunTypes'
<1>. USE Distinct DEF RunTypes, Types, Becomes, Process
<1>1. CASE MatrixStep
  <2>1. UNCHANGED at
    BY <1>1, MatrixFrame
  <2>2. PICK p \in Process : RunStep(p)
    BY <1>1 DEF MatrixStep
  <2>3. \E m \in {"health", "measure", "wrote", "nothing"} :
          matrix' = [matrix EXCEPT ![p] = m]
    BY <2>2 DEF RunStep, LaunchServer, Healthy, Ends, Writes, TimesOut
  <2>. QED
    BY <2>1, <2>3
<1>2. CASE ServerStep
  BY <1>2, ServerFrame
<1>3. CASE ClearCards
  BY <1>3 DEF ClearCards, Cleared, JobTypes
<1>4. CASE Report
  <2>1. holder \in Study /\ matrix' = [matrix EXCEPT ![holder] = "none"]
    BY <1>4 DEF Report, JobTypes
  <2>2. \/ UNCHANGED at
        \/ at[holder] < Arms /\ at' = [at EXCEPT ![holder] = @ + 1]
    BY <1>4 DEF Report
  <2>3. at[holder] \in 1..Arms
    BY <2>1
  <2>4. matrix' \in [Process -> {"none", "setup", "health", "measure", "wrote",
                                 "nothing"}]
    BY <2>1
  <2>5. at' \in [Process -> Nat] /\ \A j \in Study : at'[j] \in 1..Arms
    BY <2>1, <2>2, <2>3
  <2>. QED
    BY <2>4, <2>5
<1>5. CASE \E j \in Study : Acquire(j) \/ Release(j) \/ Killed(j)
  BY <1>5 DEF Acquire, Release, Killed, Leaves
<1>6. CASE RunnersStep
  <2>1. PICK c \in Nat : at' = [at EXCEPT ![Runner] = c] \/ UNCHANGED at
    BY <1>6, RunnersFrame
  <2>2. PICK m \in {"setup", "none"} :
          matrix' = [matrix EXCEPT ![Runner] = m] \/ UNCHANGED matrix
    BY <1>6, RunnersFrame
  <2>3. at' \in [Process -> Nat] /\ \A j \in Study : at'[j] = at[j]
    BY <2>1
  <2>4. matrix' \in [Process -> {"none", "setup", "health", "measure", "wrote",
                                 "nothing"}]
    BY <2>2
  <2>. QED
    BY <2>3, <2>4
<1>. QED
  BY <1>1, <1>2, <1>3, <1>4, <1>5, <1>6, Kinds DEF StudyStep

LEMMA ServerTypesStep ==
  ASSUME Types, BoxNext
  PROVE  ServerTypes'
<1>. USE DEF Types
<1>1. CASE MatrixStep
  <2>1. PICK p \in Process : RunStep(p)
    BY <1>1 DEF MatrixStep
  <2>2. [of |-> p, at |-> at[p], is |-> "loading", missed |-> FALSE] \in Server
    BY DEF Server, RunTypes
  <2>. QED
    BY <2>1, <2>2
    DEF RunStep, LaunchServer, Healthy, Ends, TimesOut, ServerTypes
<1>2. CASE ServerStep
  <2>1. PICK s \in servers : ServerLoads(s) \/ ServerGone(s)
    BY <1>2 DEF ServerStep
  <2>2. s \in Server /\ [s EXCEPT !.is = "resident"] \in Server
    BY DEF ServerTypes, Server
  <2>. QED
    BY <2>1, <2>2 DEF ServerLoads, ServerGone, ServerTypes
<1>3. CASE KillOnCards
  BY <1>3, Cleaned
<1>4. CASE UNCHANGED servers
  BY <1>4 DEF ServerTypes
<1>5. StudyStep => KillOnCards \/ UNCHANGED servers
  BY DEF StudyStep, ClearCards, Report, Acquire, Release, Killed, Leaves
<1>6. CASE servers' = NotRead
  BY <1>6, Missed
<1>. QED
  BY <1>1, <1>2, <1>3, <1>4, <1>5, <1>6, Kinds, RunnersFrame

LEMMA ResultTypesStep ==
  ASSUME Types, BoxNext
  PROVE  ResultTypes'
<1>. USE DEF Types, ResultTypes
<1>1. CASE MatrixStep
  <2>1. PICK p \in Process : RunStep(p)
    BY <1>1 DEF MatrixStep
  <2>2. UNCHANGED result \/ result' = [result EXCEPT ![at[p]] = p]
    BY <2>1 DEF RunStep, LaunchServer, Healthy, Ends, Writes, TimesOut
  <2>. QED
    BY <2>2
<1>2. StudyStep => UNCHANGED result
  BY DEF StudyStep, ClearCards, Cleared, Report, Acquire, Release, Killed,
     Leaves
<1>. QED
  BY <1>1, <1>2, Kinds, ServerFrame, RunnersFrame

LEMMA TypesStep ==
  ASSUME Types, BoxNext
  PROVE  Types'
BY JobTypesStep, RunTypesStep, ServerTypesStep, ResultTypesStep DEF Types

-----------------------------------------------------------------------------
(* Studies among themselves.                                               *)

\* How a run that somebody is in goes on, and whose it is.
LEMMA RunSteps ==
  ASSUME Types, NEW p \in Process, RunStep(p)
  PROVE  /\ InRun(p)
         /\ \E m \in {"health", "measure", "wrote", "nothing"} :
              matrix' = [matrix EXCEPT ![p] = m]
         /\ \A q \in Process : q # p => matrix'[q] = matrix[q]
         /\ matrix'[p] # "none"
         /\ \A s \in servers' :
              s \in servers \/ s = [of |-> p, at |-> at[p], is |-> "loading",
                                    missed |-> FALSE]
<1>1. /\ InRun(p)
      /\ \E m \in {"health", "measure", "wrote", "nothing"} :
           matrix' = [matrix EXCEPT ![p] = m]
  BY DEF RunStep, LaunchServer, Healthy, Ends, Writes, TimesOut, InRun, Becomes
<1>2. matrix \in [Process -> {"none", "setup", "health", "measure", "wrote",
                              "nothing"}]
  BY DEF Types, RunTypes
<1>3. \A s \in servers' :
        s \in servers \/ s = [of |-> p, at |-> at[p], is |-> "loading",
                              missed |-> FALSE]
  BY DEF RunStep, LaunchServer, Healthy, Ends, TimesOut
<1>. QED
  BY <1>1, <1>2, <1>3

LEMMA AloneStep ==
  ASSUME Types, Alone, Staged, BoxNext
  PROVE  Alone' /\ Staged'
<1>. USE Distinct DEF Alone, Staged, InRun
<1>t. /\ matrix \in [Process -> {"none", "setup", "health", "measure", "wrote",
                                "nothing"}]
      /\ shell \in [Study -> {"waits", "lives", "done", "dead"}]
      /\ holder \in Study \cup {NoStudy} /\ Study \subseteq Process
  BY DEF Types, RunTypes, JobTypes, Process
<1>1. CASE MatrixStep
  <2>1. PICK p \in Process : RunStep(p)
    BY <1>1 DEF MatrixStep
  <2>2. InRun(p) /\ \A q \in Process : q # p => matrix'[q] = matrix[q]
    BY <2>1, RunSteps
  <2>3. UNCHANGED <<holder, shell, stage>>
    BY <1>1, MatrixFrame
  <2>. QED
    BY <1>t, <2>2, <2>3
<1>2. CASE ServerStep
  BY <1>2, ServerFrame
<1>3. CASE ClearCards
  <2>1. /\ holder \in Study /\ matrix' = [matrix EXCEPT ![holder] = "setup"]
        /\ stage' = "run" /\ UNCHANGED <<holder, shell>>
        /\ stage = "clear"
    BY <1>3, <1>t DEF ClearCards, Cleared, Becomes, lockVars
  <2>2. shell[holder] # "waits"
    BY <2>1
  <2>. QED
    BY <1>t, <2>1, <2>2
<1>4. CASE Report
  <2>1. /\ holder \in Study /\ matrix' = [matrix EXCEPT ![holder] = "none"]
        /\ UNCHANGED <<holder, shell>>
    BY <1>4, <1>t DEF Report, Becomes, lockVars
  <2>. QED
    BY <1>t, <2>1
<1>5. CASE \E j \in Study : Acquire(j)
  <2>1. PICK j \in Study : Acquire(j)
    BY <1>5
  <2>2. /\ shell[j] = "waits" /\ holder = NoStudy /\ holder' = j
        /\ shell' = [shell EXCEPT ![j] = "lives"]
        /\ UNCHANGED matrix
    BY <2>1 DEF Acquire, CardLock!Take
  <2>. QED
    BY <1>t, <2>2
<1>6. CASE \E j \in Study : Release(j) \/ Killed(j)
  <2>1. PICK j \in Study : Release(j) \/ Killed(j)
    BY <1>6
  <2>2. /\ holder = j /\ holder' = NoStudy /\ UNCHANGED matrix
        /\ \/ ~InRun(j) /\ shell' = [shell EXCEPT ![j] = "done"]
           \/ shell' = [shell EXCEPT ![j] = "dead"]
    BY <2>1 DEF Release, Killed, Leaves, CardLock!Give
  <2>. QED
    BY <1>t, <2>2
<1>7. CASE RunnersStep
  <2>1. UNCHANGED <<holder, shell, stage>>
    BY <1>7, RunnersFrame
  <2>2. \A j \in Study : matrix'[j] = matrix[j]
    BY <1>7, <1>t, RunnersFrame
  <2>. QED
    BY <1>t, <2>1, <2>2
<1>. QED
  BY <1>1, <1>2, <1>3, <1>4, <1>5, <1>6, <1>7, Kinds DEF StudyStep

LEMMA ArmAloneStep ==
  ASSUME Types, Alone, Staged, ArmAlone, BoxNext
  PROVE  ArmAlone'
<1>. USE Distinct
<1>t. /\ holder \in Study \cup {NoStudy} /\ Study \subseteq Process
      /\ servers \subseteq Server
      /\ shell \in [Study -> {"waits", "lives", "done", "dead"}]
      /\ at \in [Process -> Nat]
  BY DEF Types, JobTypes, RunTypes, ServerTypes, Process
<1>1. CASE MatrixStep
  <2>1. PICK p \in Process : RunStep(p)
    BY <1>1 DEF MatrixStep
  <2>2. UNCHANGED <<holder, shell, stage, at>>
    BY <1>1, MatrixFrame
  <2>. SUFFICES ASSUME holder # NoStudy, stage = "run", NEW s \in servers'
                PROVE  Excused(s) \/ (s.of = holder /\ s.at = at[holder])
    BY <2>2 DEF ArmAlone, Excused, Own
  <2>3. CASE s \in servers
    BY <2>3 DEF ArmAlone, Excused, Own
  <2>4. CASE s = [of |-> p, at |-> at[p], is |-> "loading", missed |-> FALSE]
    <3>1. s.of = p /\ s.at = at[p] /\ InRun(p)
      BY <2>1, <2>4, RunSteps
    <3>2. p = Runner \/ p = holder \/ shell[p] = "dead"
      BY <3>1 DEF Alone, Process
    <3>3. CASE p = holder
      BY <3>1, <3>3
    <3>4. CASE p # holder
      <4>1. s.of = Runner \/ shell[s.of] = "dead"
        BY <3>1, <3>2, <3>4
      <4>. QED
        BY <4>1 DEF Excused
    <3>. QED
      BY <3>3, <3>4
  <2>. QED
    BY <2>1, <2>3, <2>4, RunSteps
<1>2. CASE ServerStep
  <2>1. UNCHANGED <<holder, shell, stage, at>>
    BY <1>2, ServerFrame
  <2>. SUFFICES ASSUME holder # NoStudy, stage = "run", NEW s \in servers'
                PROVE  Excused(s) \/ (s.of = holder /\ s.at = at[holder])
    BY <2>1 DEF ArmAlone, Excused, Own
  <2>2. PICK t \in servers :
          \/ s = t
          \/ s = [t EXCEPT !.is = "resident"] /\ t.is = "loading"
    BY <1>2 DEF ServerStep, ServerLoads, ServerGone
  <2>3. s.of = t.of /\ s.at = t.at /\ s.missed = t.missed
        /\ (t.is = "stuck" => s = t)
    <3>1. t \in Server
      BY <1>t
    <3>. QED
      BY <2>2, <3>1 DEF Server
  <2>4. Excused(t) \/ t \in Own(holder)
    BY DEF ArmAlone
  <2>5. CASE Excused(t)
    BY <2>3, <2>5 DEF Excused
  <2>6. CASE t \in Own(holder)
    BY <2>3, <2>6 DEF Own
  <2>. QED
    BY <2>4, <2>5, <2>6
<1>3. CASE KillOnCards /\ UNCHANGED <<holder, shell, stage>> /\ RunnersStep
  <2>1. at'[holder] = at[holder] \/ holder = NoStudy
    BY <1>3, <1>t, RunnersFrame
  <2>. SUFFICES ASSUME holder # NoStudy, stage = "run", NEW s \in servers'
                PROVE  Excused(s)
    BY <1>3 DEF ArmAlone, Excused
  <2>. QED
    BY <1>3, Cleaned DEF Types, Excused
<1>4. CASE ClearCards
  <2>1. KillOnCards /\ UNCHANGED shell
    BY <1>4 DEF ClearCards, Cleared, lockVars
  <2>2. \A s \in servers' : Excused(s)
    BY <2>1, Cleaned DEF Types, Excused
  <2>. QED
    BY <2>1, <2>2 DEF ArmAlone, Excused
<1>5. CASE Report
  BY <1>5 DEF Report, ArmAlone
<1>6. CASE \E j \in Study : Acquire(j)
  BY <1>6 DEF Acquire, ArmAlone
<1>7. CASE \E j \in Study : Release(j) \/ Killed(j)
  BY <1>7 DEF Release, Killed, Leaves, CardLock!Give, ArmAlone
<1>8. CASE (servers' = servers \/ servers' = NotRead) /\ RunnersStep
  <2>1. UNCHANGED <<holder, shell, stage>>
    BY <1>8, RunnersFrame
  <2>2. holder # NoStudy => at'[holder] = at[holder]
    BY <1>8, <1>t, RunnersFrame
  <2>3. CASE servers' = servers
    BY <2>1, <2>2, <2>3 DEF ArmAlone, Excused, Own
  <2>4. CASE servers' = NotRead
    <3>. SUFFICES ASSUME holder # NoStudy, stage = "run", NEW s \in servers'
                  PROVE  Excused(s) \/ (s.of = holder /\ s.at = at[holder])
      BY <2>1, <2>2 DEF ArmAlone, Excused, Own
    <3>1. PICK t \in servers : /\ s.of = t.of /\ s.at = t.at /\ s.is = t.is
                               /\ t.of # Runner => s = t
      BY <2>4, Missed DEF Types
    <3>. QED
      BY <3>1 DEF ArmAlone, Excused, Own
  <2>. QED
    BY <1>8, <2>3, <2>4
<1>. QED
  BY <1>1, <1>2, <1>3, <1>4, <1>5, <1>6, <1>7, <1>8, Kinds, RunnersFrame
  DEF StudyStep

-----------------------------------------------------------------------------
(* The runner.                                                             *)

LEMMA CaseAloneStep ==
  ASSUME Types, CaseAlone, BoxNext
  PROVE  CaseAlone'
<1>. USE Distinct
<1>t. /\ holder \in Study \cup {NoStudy} /\ Runner \in Process
      /\ Study \subseteq Process
      /\ servers \subseteq Server /\ at \in [Process -> Nat]
      /\ matrix \in [Process -> {"none", "setup", "health", "measure", "wrote",
                                 "nothing"}]
  BY DEF Types, JobTypes, RunTypes, ServerTypes, Process
<1>1. CASE MatrixStep
  <2>1. PICK p \in Process : RunStep(p)
    BY <1>1 DEF MatrixStep
  <2>2. UNCHANGED <<runner, at>>
    BY <1>1, MatrixFrame
  <2>3. runner # "run" => p # Runner /\ matrix'[Runner] = "none"
    BY <1>t, <2>1, RunSteps DEF CaseAlone, InRun
  <2>. SUFFICES ASSUME NEW s \in servers', s.of = Runner
                PROVE  /\ runner = "wait" => s.missed \/ s.is # "loading"
                       /\ runner = "run" => s.missed \/ s.at = at[Runner]
    BY <2>2, <2>3 DEF CaseAlone, Own
  <2>4. CASE s \in servers
    BY <2>4 DEF CaseAlone, Own
  <2>5. CASE s = [of |-> p, at |-> at[p], is |-> "loading", missed |-> FALSE]
    BY <2>3, <2>5
  <2>. QED
    BY <2>1, <2>4, <2>5, RunSteps
<1>2. CASE ServerStep
  <2>1. UNCHANGED <<runner, at, matrix>>
    BY <1>2, ServerFrame
  <2>. SUFFICES ASSUME NEW s \in servers', s.of = Runner
                PROVE  /\ runner = "wait" => s.missed \/ s.is # "loading"
                       /\ runner = "run" => s.missed \/ s.at = at[Runner]
    BY <2>1 DEF CaseAlone, Own
  <2>2. PICK t \in servers :
          \/ s = t
          \/ s = [t EXCEPT !.is = "resident"] /\ t.is = "loading"
    BY <1>2 DEF ServerStep, ServerLoads, ServerGone
  <2>3. /\ s.of = t.of /\ s.at = t.at /\ s.missed = t.missed
        /\ s.is = t.is \/ s.is = "resident"
    <3>1. t \in Server
      BY <1>t
    <3>. QED
      BY <2>2, <3>1 DEF Server
  <2>. QED
    BY <2>3 DEF CaseAlone, Own
<1>3. CASE StudyStep
  <2>1. UNCHANGED <<runner, matrix[Runner], at[Runner]>>
    BY <1>3, <1>t DEF StudyStep, ClearCards, Cleared, Report, Acquire, Release,
       Killed, Leaves, Becomes
  <2>2. CASE UNCHANGED servers
    BY <2>1, <2>2 DEF CaseAlone, Own
  <2>3. CASE KillOnCards
    <3>. SUFFICES ASSUME NEW s \in servers', s.of = Runner
                  PROVE  /\ runner = "wait" => s.missed \/ s.is # "loading"
                         /\ runner = "run" => s.missed \/ s.at = at[Runner]
      BY <2>1 DEF CaseAlone, Own
    <3>1. PICK t \in servers : s.of = t.of /\ s.at = t.at
                               /\ (t.missed => s.missed)
      BY <2>3, Cleaned DEF Types
    <3>2. s.missed \/ s.is = "stuck"
      BY <2>3, Cleaned DEF Types
    <3>. QED
      BY <3>1, <3>2 DEF CaseAlone, Own
  <2>4. KillOnCards \/ UNCHANGED servers
    BY <1>3 DEF StudyStep, ClearCards, Report, Acquire, Release, Killed, Leaves
  <2>. QED
    BY <2>2, <2>3, <2>4
<1>4. CASE RunnerStarts
  BY <1>4 DEF RunnerStarts, RunnerAt, CaseAlone
<1>5. CASE RunnerKills
  <2>1. KillOnCards /\ runner = "kill" /\ runner' = "wait" /\ UNCHANGED matrix
    BY <1>5 DEF RunnerKills, RunnerAt
  <2>2. \A s \in servers' : s.missed \/ s.is = "stuck"
    BY <2>1, Cleaned DEF Types
  <2>. QED
    BY <2>1, <2>2 DEF CaseAlone
<1>6. CASE CaseStarts
  <2>1. runner = "wait" /\ runner' = "run" /\ UNCHANGED at
    BY <1>6 DEF CaseStarts, RunnerAt
  <2>2. CASE servers' = servers /\ \A s \in servers : s.is = "loading"
    BY <2>1, <2>2 DEF CaseAlone
  <2>3. CASE servers' = NotRead
    <3>1. \A s \in servers' : s.of = Runner => s.missed
      BY <2>3, Missed DEF Types
    <3>. QED
      BY <2>1, <3>1 DEF CaseAlone
  <2>. QED
    BY <1>6, <2>2, <2>3 DEF CaseStarts, Held
<1>7. CASE KeepsWaiting
  <2>1. KillOnCards /\ UNCHANGED <<runner, matrix>> /\ runner = "wait"
    BY <1>7 DEF KeepsWaiting
  <2>2. \A s \in servers' : s.missed \/ s.is = "stuck"
    BY <2>1, Cleaned DEF Types
  <2>. QED
    BY <2>1, <2>2 DEF CaseAlone
<1>8. CASE Contaminated
  BY <1>8 DEF Contaminated, NextCase, CaseAlone
<1>9. CASE CaseEnds
  <2>1. runner' \in {"kill", "done"} /\ matrix' = [matrix EXCEPT ![Runner] = "none"]
    BY <1>9 DEF CaseEnds, NextCase, Becomes
  <2>. QED
    BY <1>t, <2>1 DEF CaseAlone
<1>. QED
  BY <1>1, <1>2, <1>3, <1>4, <1>5, <1>6, <1>7, <1>8, <1>9, Kinds
  DEF RunnersStep, RunnerStep

-----------------------------------------------------------------------------
(* What is reported.                                                       *)

LEMMA WrittenStep ==
  ASSUME Types, Alone, Staged, Written, ReportedIsOwn, BoxNext
  PROVE  Written' /\ ReportedIsOwn'
<1>. USE Distinct
<1>t. /\ holder \in Study \cup {NoStudy} /\ Runner \in Process
      /\ Study \subseteq Process
      /\ shell \in [Study -> {"waits", "lives", "done", "dead"}]
      /\ matrix \in [Process -> {"none", "setup", "health", "measure", "wrote",
                                 "nothing"}]
      /\ result \in [1..Arms -> Process \cup {NoFile, Earlier}]
      /\ \A j \in Study : at[j] \in 1..Arms
  BY DEF Types, JobTypes, RunTypes, ResultTypes, Process
<1>1. CASE MatrixStep
  <2>1. PICK p \in Process : RunStep(p)
    BY <1>1 DEF MatrixStep
  <2>2. UNCHANGED <<holder, shell, at, said>>
    BY <1>1, MatrixFrame
  <2>3. /\ InRun(p)
        /\ \A q \in Process : q # p => matrix'[q] = matrix[q]
    BY <2>1, RunSteps
  <2>4. \/ matrix'[p] # "wrote" /\ UNCHANGED result
        \/ p \in Study /\ result' = [result EXCEPT ![at[p]] = p]
        \/ p \notin Study /\ UNCHANGED result
    BY <1>t, <2>1 DEF RunStep, LaunchServer, Healthy, Ends, Writes, TimesOut,
       Becomes
  <2>5. NobodyDead => p = Runner \/ p = holder
    BY <2>3 DEF NobodyDead, Alone, Process
  <2>6. ReportedIsOwn'
    BY <2>2 DEF ReportedIsOwn
  <2>7. Written'
    <3>. SUFFICES ASSUME NobodyDead, holder # NoStudy, matrix'[holder] = "wrote"
                  PROVE  result'[at[holder]] = holder
      BY <2>2 DEF Written, NobodyDead
    <3>1. CASE p = Runner
      BY <1>t, <2>3, <2>4, <3>1 DEF Written
    <3>2. CASE p = holder
      BY <1>t, <2>4, <3>2 DEF Written
    <3>. QED
      BY <2>5, <3>1, <3>2
  <2>. QED
    BY <2>6, <2>7
<1>2. CASE ServerStep
  <2>1. UNCHANGED <<holder, shell, at, said, matrix, result>>
    BY <1>2, ServerFrame
  <2>. QED
    BY <2>1 DEF Written, ReportedIsOwn, NobodyDead
<1>3. CASE ClearCards
  <2>1. /\ holder \in Study /\ matrix' = [matrix EXCEPT ![holder] = "setup"]
        /\ said'.how = "none" /\ UNCHANGED holder
    BY <1>3, <1>t DEF ClearCards, Cleared, Becomes, lockVars, NothingSaid
  <2>. QED
    BY <1>t, <2>1 DEF Written, ReportedIsOwn
<1>4. CASE Report
  <2>1. /\ holder \in Study /\ matrix' = [matrix EXCEPT ![holder] = "none"]
        /\ UNCHANGED <<holder, shell>>
        /\ said' = [by |-> holder, from |-> result[at[holder]],
                    how |-> matrix[holder]]
    BY <1>4, <1>t DEF Report, Becomes, lockVars
  <2>2. NobodyDead /\ said'.how = "wrote" => said'.from = said'.by
    BY <2>1 DEF Written
  <2>. QED
    BY <1>t, <2>1, <2>2 DEF Written, ReportedIsOwn, NobodyDead
<1>5. CASE \E j \in Study : Acquire(j)
  <2>1. PICK j \in Study : Acquire(j)
    BY <1>5
  <2>2. /\ shell[j] = "waits" /\ holder' = j
        /\ shell' = [shell EXCEPT ![j] = "lives"]
        /\ UNCHANGED <<matrix, said>>
    BY <2>1 DEF Acquire, CardLock!Take
  <2>3. matrix'[j] = "none"
    BY <2>2 DEF Alone
  <2>4. NobodyDead' => NobodyDead
    BY <1>t, <2>2 DEF NobodyDead
  <2>. QED
    BY <2>2, <2>3, <2>4 DEF Written, ReportedIsOwn, NobodyDead
<1>6. CASE \E j \in Study : Release(j) \/ Killed(j)
  <2>1. holder' = NoStudy /\ said'.how = "none"
    BY <1>6 DEF Release, Killed, Leaves, CardLock!Give, NothingSaid
  <2>. QED
    BY <2>1 DEF Written, ReportedIsOwn
<1>7. CASE RunnersStep
  <2>1. UNCHANGED <<holder, shell, said, result>>
    BY <1>7, RunnersFrame
  <2>2. \A j \in Study : matrix'[j] = matrix[j] /\ at'[j] = at[j]
    <3>1. /\ \E m \in {"setup", "none"} :
               matrix' = [matrix EXCEPT ![Runner] = m] \/ UNCHANGED matrix
          /\ \E c \in Nat : at' = [at EXCEPT ![Runner] = c] \/ UNCHANGED at
      BY <1>7, RunnersFrame
    <3>2. at \in [Process -> Nat]
      BY DEF Types, RunTypes
    <3>. QED
      BY <1>t, <3>1, <3>2
  <2>. QED
    BY <1>t, <2>1, <2>2 DEF Written, ReportedIsOwn, NobodyDead
<1>. QED
  BY <1>1, <1>2, <1>3, <1>4, <1>5, <1>6, <1>7, Kinds DEF StudyStep

-----------------------------------------------------------------------------
LEMMA SessionStarts == SessionInit => SessionInv
<1>. SUFFICES ASSUME SessionInit PROVE SessionInv
  OBVIOUS
<1>. USE Distinct DEF SessionInit, PutInit, BoxInit, CardLock!Init
<1>1. PushInv
  BY DEF PushInv
<1>2. Types
  BY DEF Types, JobTypes, RunTypes, ServerTypes, ResultTypes, Process
<1>3. Alone /\ Staged /\ ArmAlone /\ Written
  BY DEF Alone, Staged, ArmAlone, Written, InRun, Process
<1>4. CaseAlone /\ ReportedIsOwn
  BY DEF CaseAlone, ReportedIsOwn, NothingSaid, Process
<1>. QED
  BY <1>1, <1>2, <1>3, <1>4 DEF SessionInv, JobsInv

LEMMA JobsStep == JobsInv /\ BoxNext => JobsInv'
BY TypesStep, AloneStep, ArmAloneStep, CaseAloneStep, WrittenStep DEF JobsInv

LEMMA PushStays == PushInv /\ UNCHANGED putVars => PushInv'
BY DEF PushInv, Delivered, putVars, Whole, Decode

LEMMA JobsStay == JobsInv /\ UNCHANGED boxVars => JobsInv'
<1>. SUFFICES ASSUME JobsInv, UNCHANGED boxVars PROVE JobsInv'
  OBVIOUS
<1>. USE DEF JobsInv, boxVars, lockVars
<1>1. Types'
  BY DEF Types, JobTypes, RunTypes, ServerTypes, ResultTypes
<1>2. Alone' /\ Staged' /\ ArmAlone'
  BY DEF Alone, Staged, ArmAlone, InRun, Excused, Own
<1>3. CaseAlone' /\ Written' /\ ReportedIsOwn'
  BY DEF CaseAlone, Written, ReportedIsOwn, NobodyDead, Own
<1>. QED
  BY <1>1, <1>2, <1>3

LEMMA SessionInductive ==
  SessionInv /\ [SessionNext]_sessionVars => SessionInv'
<1>. SUFFICES ASSUME SessionInv, [SessionNext]_sessionVars PROVE SessionInv'
  OBVIOUS
<1>1. CASE PutNext /\ UNCHANGED boxVars
  BY <1>1, PushStep, JobsStay DEF SessionInv
<1>2. CASE JobsStart
  <2>1. put' = "over" /\ UNCHANGED boxVars
    BY <1>2 DEF JobsStart
  <2>. QED
    BY <2>1, JobsStay DEF SessionInv, PushInv
<1>3. CASE BoxNext /\ UNCHANGED putVars
  BY <1>3, PushStays, JobsStep DEF SessionInv
<1>4. CASE UNCHANGED sessionVars
  BY <1>4, PushStays, JobsStay DEF SessionInv, sessionVars
<1>. QED
  BY <1>1, <1>2, <1>3, <1>4 DEF SessionNext

LEMMA SessionInvariant == SessionSpec => []SessionInv
BY SessionStarts, SessionInductive, PTL DEF SessionSpec

-----------------------------------------------------------------------------
(* The results.                                                            *)

\* A pushed file that was called ok is whole, for any number of chunks, tries
\* and lost answers, unless two commands ran after they were given up
\* (rxput.sh, the comparison of the checksums).
THEOREM PushIsWhole == SessionSpec => []PushedIsWhole
<1>1. SessionInv => PushedIsWhole
  BY DEF SessionInv, PushInv, Delivered, PushedIsWhole
<1>. QED
  BY <1>1, SessionInvariant, PTL

\* However many studies, runner cases and mishaps there are, an arm that is
\* measured shares the cards with nothing that clearing them could have ended,
\* unless a study was killed or the runner takes part.
THEOREM StudiesMeasureAlone == SessionSpec => []StudyCompany
<1>1. SessionInv => StudyCompany
  BY DEF SessionInv, JobsInv, Staged, ArmAlone, Excused, StudyCompany, Beside
<1>. QED
  BY <1>1, SessionInvariant, PTL

\* A case of the runner is not measured beside what an earlier case of it left
\* on the cards in sight of the check (wait_gpus_free).
THEOREM CasesMeasureAlone == SessionSpec => []RunnerCompany
<1>1. SessionInv => RunnerCompany
  BY DEF SessionInv, JobsInv, CaseAlone, RunnerCompany, Beside
<1>. QED
  BY <1>1, SessionInvariant, PTL

\* A study reports what its own run wrote, for any number of studies and arms,
\* as long as none is killed (the result files' names do not tell studies apart).
THEOREM ReportsAreOwn == SessionSpec => []ReportedIsOwn
<1>1. SessionInv => ReportedIsOwn
  BY DEF SessionInv, JobsInv
<1>. QED
  BY <1>1, SessionInvariant, PTL

\* A study that clears the cards ends no server of a study that is still
\* running: for any number of studies, the lock keeps them apart.
THEOREM ClearingIsSafe == SessionSpec => ClearingSparesStudies
<1>1. SessionInv =>
        [stage = "clear" /\ stage' = "run" =>
           \A s \in servers \ servers' :
             s.of \in Study \ {holder} /\ InRun(s.of) => shell[s.of] = "dead"]_boxVars
  BY DEF SessionInv, JobsInv, Alone
<1>. QED
  BY <1>1, SessionInvariant, PTL DEF ClearingSparesStudies

=============================================================================
