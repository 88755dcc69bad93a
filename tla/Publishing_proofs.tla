-------------------------- MODULE Publishing_proofs ---------------------------
(***************************************************************************)
(* What is published, and of what. First the overlapping biweekly runs     *)
(* (BiweeklyRun), for any number of them, any days, any number of lost     *)
(* answers and any size of result: a result file has one writer unless two *)
(* launches were inside of its guard at a time, and what is published is   *)
(* one result of the run's own RUN_ID, whole, unless its RAW file was      *)
(* written between the two readings of another run. Then a                 *)
(* case's configuration, its runs and the page (ConfigLife), for any       *)
(* contents of its source file, boxes, runs and publications: what the     *)
(* build's lint promises of the boxes, the drift gate, and the page.       *)
(*                                                                         *)
(* OneWriter rests on the .started files: whoever has a runner has touched *)
(* one, so a launch whose test comes later does not pass, and one whose    *)
(* test came before has raced. PublishedIsOneResult rests on the result    *)
(* file that the checksum was taken of when the RAW file was compared, and *)
(* on who has written RAW since. The properties of ConfigLife rest on      *)
(* little of its state (LifeInv, PageInv): they are about what its         *)
(* operators make of any contents that the build lets pass.                *)
(***************************************************************************)
EXTENDS BiweeklyRun, ConfigLife, Walks_proofs, FiniteSetTheorems

-----------------------------------------------------------------------------
(* Overlapping biweekly runs.                                              *)

\* PERSIST does not change once something has been sent to the box.
Settled ==
  \A r \in Run : pc[r] \in {"acquire", "setup"} =>
    \A a \in LaunchNo : exec[r][a] = "none"

\* An attempt that rxrun has yet to make has left nothing behind.
Fresh ==
  \A r \in Run : pc[r] = "launch" =>
    \A a \in LaunchNo : a > tries[r] => exec[r][a] = "none"

Marked ==
  \A r \in Run : \A a \in LaunchNo : Started(r, a) => key(r) \in started

\* Where no two launches were inside the guard at a time, one that is has found
\* no mark, there is none yet, and it is alone.
Guarded ==
  \A r \in Run : \A a \in LaunchNo :
    Inside(r, a) /\ key(r) \notin raced =>
      /\ key(r) \notin started
      /\ \A s \in Run : \A b \in LaunchNo :
           Inside(s, b) /\ key(s) = key(r) => s = r /\ b = a

\* A result file is of the RUN_ID it lies under, whoever wrote it, and so is the
\* one whose checksum a run has.
Filed ==
  /\ \A k \in Key : result[k] # NoFile => id[result[k].by] = k[2]
  /\ \A r \in Run : sum[r] # NoFile => id[sum[r].by] = id[r]

\* RAW once it is checked, MERGED once it is built, and what is published.
Checked ==
  \A r \in Run : id[r] \notin torn =>
    /\ pc[r] = "build" => Whole(raw[id[r]], id[r])
    /\ mergedOf[id[r]] # <<>> => Whole(mergedOf[id[r]], id[r])
    /\ published[r] # <<>> => Whole(published[r], id[r])

RunsInv ==
  TypeOK /\ Settled /\ Fresh /\ Marked /\ Guarded /\ OneWriter /\ Filed /\ Checked

-----------------------------------------------------------------------------
LEMMA Keys == ASSUME TypeOK, NEW r \in Run PROVE key(r) \in Key
BY DEF TypeOK, Key, key

LEMMA RunsInit == Init => RunsInv
<1>. SUFFICES ASSUME Init PROVE RunsInv
  OBVIOUS
<1>. USE BiweeklyAssumption
<1>1. TypeOK
  BY DEF Init, TypeOK, Dir, Key, Chunk, LaunchNo
<1>2. Settled /\ Fresh /\ Marked /\ Guarded /\ OneWriter
  BY DEF Init, Settled, Fresh, Marked, Guarded, OneWriter, Started, Inside
<1>3. Filed /\ Checked
  BY <1>1 DEF Init, Filed, Checked, Key, TypeOK
<1>. QED
  BY <1>1, <1>2, <1>3 DEF RunsInv

-----------------------------------------------------------------------------
(* The types.                                                              *)

State == {"none", "sent", "passed", "guarded", "up", "ended"}

ScriptTypes ==
  /\ id \in [Run -> RunId]
  /\ pc \in [Run -> {"acquire", "setup", "launch", "watch", "probe", "split",
                     "truncate", "list", "chunks", "md5", "build", "publish",
                     "ended"}]
  /\ box \in [Run -> {"none", "held", "gone"}]
  /\ dir \in [Run -> Dir]
  /\ exec \in [Run -> [LaunchNo -> State]]

CountTypes ==
  /\ tries \in [Run -> LaunchNo]
  /\ streak \in [Run -> 0..2]

MarkTypes == started \subseteq Key /\ done \subseteq started /\ raced \subseteq Key

FileTypes ==
  /\ result \in [Key -> Result \cup {NoFile}]
  /\ parts \in [Dir -> [1..MaxParts -> Chunk]]

PullTypes ==
  /\ todo \in [Run -> SUBSET (1..MaxParts)]
  /\ sum \in [Run -> Result \cup {NoFile}]
  /\ raw \in [RunId -> Seq(Chunk)]
  /\ mergedOf \in [RunId -> Seq(Chunk)]
  /\ torn \subseteq RunId
  /\ published \in [Run -> Seq(Chunk)]

LEMMA Types ==
  TypeOK <=> ScriptTypes /\ CountTypes /\ MarkTypes /\ FileTypes /\ PullTypes
BY DEF TypeOK, ScriptTypes, CountTypes, MarkTypes, FileTypes, PullTypes, State

\* The steps that neither test a marker nor set one.
RunnerStep(r) ==
  \E a \in LaunchNo : RunnerSaves(r, a) \/ RunnerEnds(r, a) \/ RunnerDies(r, a)

GuardStep(r) == \E a \in LaunchNo : LaunchTest(r, a) \/ LaunchStart(r, a)

Step(r) == ScriptStep(r) \/ Expire(r) \/ RunnerStep(r) \/ GuardStep(r)

\* The processes on a box after a step that takes the box away, or does not.
LEMMA AfterBox ==
  ASSUME ScriptTypes, NEW r \in Run, BoxGone(r) \/ UNCHANGED <<box, exec>>
  PROVE  /\ box' \in [Run -> {"none", "held", "gone"}]
         /\ exec' \in [Run -> [LaunchNo -> State]]
         /\ \A s \in Run : s # r => box'[s] = box[s] /\ exec'[s] = exec[s]
         /\ box'[r] = "held" => box[r] = "held"
         /\ \A a \in LaunchNo :
              \/ exec'[r][a] = exec[r][a] \/ exec'[r][a] = "none"
              \/ exec'[r][a] = "ended" /\ Started(r, a)
<1>1. CASE UNCHANGED <<box, exec>>
  BY <1>1 DEF ScriptTypes
<1>2. CASE BoxGone(r)
  <2>. DEFINE after == [a \in LaunchNo |-> IF Started(r, a) THEN "ended" ELSE "none"]
  <2>1. box' = [box EXCEPT ![r] = "gone"] /\ exec' = [exec EXCEPT ![r] = after]
    BY <1>2 DEF BoxGone
  <2>2. after \in [LaunchNo -> State]
    BY DEF State
  <2>3. \A a \in LaunchNo : after[a] = "none" \/ (after[a] = "ended" /\ Started(r, a))
    OBVIOUS
  <2>. HIDE DEF after
  <2>. QED
    BY <2>1, <2>2, <2>3 DEF ScriptTypes
<1>. QED
  BY <1>1, <1>2

\* What the steps that are not of the guard do to boxes, processes, directories
\* and the script's own place.
Calm(r) ==
  /\ ScriptTypes'
  /\ UNCHANGED <<id, started, raced>>
  /\ \A s \in Run : s # r =>
       /\ box'[s] = box[s] /\ exec'[s] = exec[s] /\ dir'[s] = dir[s]
       /\ pc'[s] = pc[s] /\ tries'[s] = tries[s]
  /\ box'[r] = "held" => box[r] = "held" \/ pc[r] = "acquire"
  /\ dir'[r] = dir[r] \/ pc[r] = "setup"
  /\ \A a \in LaunchNo :
       \/ exec'[r][a] = exec[r][a] \/ exec'[r][a] = "none"
       \/ exec'[r][a] = "sent" /\ pc'[r] = "launch" /\ a <= tries'[r]
       \/ exec'[r][a] = "ended" /\ Started(r, a)
  /\ pc'[r] \in {"acquire", "setup"} => pc[r] \in {"acquire", "setup"}
  /\ pc'[r] = "launch" =>
       \/ pc[r] = "launch" /\ tries'[r] >= tries[r]
       \/ pc[r] = "setup"

LEMMA ScriptCalm ==
  ASSUME TypeOK, NEW r \in Run, ScriptStep(r)
  PROVE  Calm(r)
<1>0. ScriptTypes /\ tries \in [Run -> Nat]
  BY Types, BiweeklyAssumption DEF CountTypes, LaunchNo
<1>. USE DEF Goto, At, script, marks, files
<1>1. CASE Acquire(r) \/ AcquireFails(r)
  <2>1. UNCHANGED <<id, started, raced, exec, dir, tries>>
    BY <1>1 DEF Acquire, AcquireFails
  <2>. QED
    BY <1>0, <1>1, <2>1 DEF Acquire, AcquireFails, Calm, ScriptTypes
<1>2. CASE Setup(r)
  <2>1. exec' = [exec EXCEPT ![r] = [exec[r] EXCEPT ![0] = "sent"]]
    BY <1>0, <1>2 DEF Setup, ScriptTypes
  <2>2. [exec[r] EXCEPT ![0] = "sent"] \in [LaunchNo -> State]
    BY <1>0 DEF ScriptTypes, State
  <2>3. exec' \in [Run -> [LaunchNo -> State]] /\ \A a \in LaunchNo : a # 0 => exec'[r][a] = exec[r][a]
    BY <1>0, <2>1, <2>2 DEF ScriptTypes
  <2>4. ScriptTypes'
    BY <1>0, <1>2, <2>3 DEF Setup, ScriptTypes, Dir
  <2>5. exec'[r][0] = "sent" /\ 0 <= tries'[r]
    BY <1>0, <1>2, <2>1, BiweeklyAssumption DEF Setup, ScriptTypes, LaunchNo
  <2>. QED
    BY <1>0, <1>2, <2>1, <2>3, <2>4, <2>5 DEF Setup, Calm, ScriptTypes
<1>3. ASSUME NEW from \in {"setup", "launch", "probe", "md5", "build", "publish"}, Exit(r, from)
      PROVE  Calm(r)
  <2>1. BoxGone(r) \/ UNCHANGED <<box, exec>>
    BY <1>3 DEF Exit
  <2>2. /\ pc' = [pc EXCEPT ![r] = "ended"] /\ tries' = [tries EXCEPT ![r] = 0]
        /\ UNCHANGED <<id, dir, started, raced>>
    BY <1>3 DEF Exit
  <2>3. ScriptTypes'
    BY <1>0, <2>1, <2>2, AfterBox DEF ScriptTypes
  <2>. QED
    BY <1>0, <2>1, <2>2, <2>3, AfterBox DEF Calm, ScriptTypes
<1>4. CASE Launch(r)
  BY <1>0, <1>4 DEF Launch, Calm, ScriptTypes
<1>5. CASE LaunchAgain(r)
  <2>1. tries[r] + 1 \in LaunchNo
    BY <1>0, <1>5, BiweeklyAssumption DEF LaunchAgain, LaunchNo
  <2>2. exec' = [exec EXCEPT ![r] = [exec[r] EXCEPT ![tries[r] + 1] = "sent"]]
    BY <1>0, <1>5 DEF LaunchAgain, ScriptTypes
  <2>3. [exec[r] EXCEPT ![tries[r] + 1] = "sent"] \in [LaunchNo -> State]
    BY <1>0 DEF ScriptTypes, State
  <2>4. /\ exec' \in [Run -> [LaunchNo -> State]]
        /\ \A a \in LaunchNo : a # tries[r] + 1 => exec'[r][a] = exec[r][a]
        /\ exec'[r][tries[r] + 1] = "sent"
    BY <1>0, <2>1, <2>2, <2>3 DEF ScriptTypes
  <2>5. tries' = [tries EXCEPT ![r] = @ + 1] /\ UNCHANGED <<id, pc, box, dir, started, raced>> /\ pc[r] = "launch"
    BY <1>5 DEF LaunchAgain
  <2>6. tries'[r] = tries[r] + 1 /\ tries'[r] >= tries[r]
    BY <1>0, <2>5
  <2>. QED
    BY <1>0, <2>2, <2>4, <2>5, <2>6 DEF Calm, ScriptTypes
<1>6. ASSUME NEW from, NEW to, NEW n, Watches(r, from, to, n),
             from \in {"watch", "probe"}, to \in {"watch", "probe", "split"}
      PROVE  Calm(r)
  BY <1>0, <1>6 DEF Watches, Calm, ScriptTypes
<1>7. CASE WatchStep(r)
  BY <1>3, <1>6, <1>7 DEF WatchStep, SeesDone, NotDone, Alive, Dead, DeadThrice, Unreachable
<1>8. CASE Split(r) \/ Truncate(r) \/ List(r) \/ PullChunk(r)
  BY <1>0, <1>8 DEF Split, Truncate, List, PullChunk, Calm, ScriptTypes
<1>9. CASE RemoteMd5(r) \/ Verified(r) \/ Build(r)
  BY <1>0, <1>9 DEF RemoteMd5, Verified, Build, Calm, ScriptTypes
<1>10. CASE SetupFails(r) \/ LaunchFails(r) \/ NotVerified(r) \/ BuildFails(r) \/ Publish(r) \/ PublishFails(r)
  BY <1>3, <1>10 DEF SetupFails, LaunchFails, NotVerified, BuildFails, Publish, PublishFails
<1>. QED
  BY <1>1, <1>2, <1>4, <1>5, <1>7, <1>8, <1>9, <1>10 DEF ScriptStep, PullStep

LEMMA RunnerCalm ==
  ASSUME TypeOK, NEW r \in Run, RunnerStep(r) \/ Expire(r)
  PROVE  Calm(r)
<1>0. ScriptTypes /\ tries \in [Run -> Nat]
  BY Types, BiweeklyAssumption DEF CountTypes, LaunchNo
<1>. USE DEF script, marks, files
<1>1. CASE Expire(r)
  BY <1>0, <1>1, AfterBox DEF Expire, Calm, ScriptTypes
<1>2. ASSUME NEW a \in LaunchNo, RunnerSaves(r, a)
      PROVE  Calm(r)
  BY <1>0, <1>2 DEF RunnerSaves, Calm, ScriptTypes
<1>3. ASSUME NEW a \in LaunchNo, RunnerEnds(r, a) \/ RunnerDies(r, a)
      PROVE  Calm(r)
  <2>1. /\ exec[r][a] = "up" /\ exec' = [exec EXCEPT ![r][a] = "ended"]
        /\ UNCHANGED <<id, started, raced, box, pc, tries, dir>>
    BY <1>3 DEF RunnerEnds, RunnerDies
  <2>2. exec' = [exec EXCEPT ![r] = [exec[r] EXCEPT ![a] = "ended"]]
    BY <1>0, <2>1 DEF ScriptTypes
  <2>3. [exec[r] EXCEPT ![a] = "ended"] \in [LaunchNo -> State]
    BY <1>0 DEF ScriptTypes, State
  <2>4. /\ exec' \in [Run -> [LaunchNo -> State]]
        /\ \A b \in LaunchNo : exec'[r][b] = exec[r][b] \/ (exec'[r][b] = "ended" /\ Started(r, b))
    BY <1>0, <2>1, <2>2, <2>3 DEF ScriptTypes, Started
  <2>5. ScriptTypes'
    BY <1>0, <2>1, <2>4 DEF ScriptTypes
  <2>. QED
    BY <1>0, <2>1, <2>2, <2>4, <2>5 DEF Calm, ScriptTypes
<1>. QED
  BY <1>1, <1>2, <1>3 DEF RunnerStep

\* A test or a start changes the execution it is of, and nobody's box, key or pc.
LEMMA GuardFrame ==
  ASSUME TypeOK, NEW r \in Run, NEW a \in LaunchNo, NEW to \in State,
         exec' = [exec EXCEPT ![r][a] = to], UNCHANGED <<id, script, box>>
  PROVE  /\ ScriptTypes' /\ CountTypes'
         /\ exec'[r][a] = to
         /\ \A s \in Run : \A b \in LaunchNo : s # r \/ b # a => exec'[s][b] = exec[s][b]
         /\ \A s \in Run : key(s)' = key(s)
<1>0. ScriptTypes /\ CountTypes
  BY Types
<1>1. exec' = [exec EXCEPT ![r] = [exec[r] EXCEPT ![a] = to]]
  BY <1>0 DEF ScriptTypes
<1>2. [exec[r] EXCEPT ![a] = to] \in [LaunchNo -> State]
  BY <1>0 DEF ScriptTypes
<1>. QED
  BY <1>0, <1>1, <1>2 DEF ScriptTypes, CountTypes, script, key

LEMMA CountTypesStep ==
  ASSUME TypeOK, NEW r \in Run, ScriptStep(r)
  PROVE  CountTypes'
<1>0. CountTypes /\ 0 \in LaunchNo /\ 0 \in 0..2
  BY Types, BiweeklyAssumption DEF LaunchNo
<1>. USE DEF CountTypes
<1>1. ASSUME NEW from, Exit(r, from) PROVE CountTypes'
  BY <1>0, <1>1 DEF Exit
<1>2. ASSUME NEW from, NEW to, NEW n \in 0..2, Watches(r, from, to, n) PROVE CountTypes'
  BY <1>0, <1>2 DEF Watches
<1>3. CASE Launch(r)
  BY <1>0, <1>3 DEF Launch
<1>4. CASE LaunchAgain(r)
  <2>1. tries[r] + 1 \in LaunchNo
    BY <1>0, <1>4, BiweeklyAssumption DEF LaunchAgain, LaunchNo
  <2>. QED
    BY <1>0, <1>4, <2>1 DEF LaunchAgain
<1>5. CASE WatchStep(r)
  <2>1. streak[r] \in 0..2 /\ (streak[r] < 2 => streak[r] + 1 \in 0..2)
    BY <1>0
  <2>2. CASE DeadThrice(r)
    BY <1>1, <2>2 DEF DeadThrice
  <2>3. CASE Dead(r)
    BY <1>2, <2>1, <2>3 DEF Dead
  <2>4. CASE SeesDone(r) \/ NotDone(r) \/ Alive(r) \/ Unreachable(r)
    BY <1>0, <1>2, <2>1, <2>4 DEF SeesDone, NotDone, Alive, Unreachable
  <2>. QED
    BY <1>5, <2>2, <2>3, <2>4 DEF WatchStep
<1>6. CASE Acquire(r) \/ AcquireFails(r) \/ Setup(r)
  BY <1>0, <1>6 DEF Acquire, AcquireFails, Setup
<1>7. CASE Split(r) \/ Truncate(r) \/ List(r) \/ PullChunk(r) \/ RemoteMd5(r) \/ Verified(r) \/ Build(r)
  BY <1>0, <1>7 DEF Split, Truncate, List, PullChunk, RemoteMd5, Verified, Build, script
<1>8. CASE SetupFails(r) \/ LaunchFails(r) \/ NotVerified(r) \/ BuildFails(r) \/ Publish(r) \/ PublishFails(r)
  BY <1>1, <1>8 DEF SetupFails, LaunchFails, NotVerified, BuildFails, Publish, PublishFails
<1>. QED
  BY <1>3, <1>4, <1>5, <1>6, <1>7, <1>8 DEF ScriptStep, PullStep

LEMMA MarkTypesStep ==
  ASSUME TypeOK, Marked, NEW r \in Run, Step(r)
  PROVE  MarkTypes'
<1>. USE DEF MarkTypes
<1>0. key(r) \in Key /\ MarkTypes
  BY Keys, Types
<1>1. CASE ScriptStep(r)
  <2>1. Calm(r) /\ (UNCHANGED done)
    BY <1>1, ScriptCalm DEF ScriptStep, Acquire, AcquireFails, Setup, SetupFails,
       Launch, LaunchAgain, LaunchFails, WatchStep, SeesDone, NotDone, Alive, Dead,
       DeadThrice, Unreachable, Watches, PullStep, Split, Truncate, List, PullChunk,
       RemoteMd5, Verified, NotVerified, Build, BuildFails, Publish, PublishFails,
       Exit, marks
  <2>. QED
    BY <1>0, <2>1 DEF Calm
<1>2. CASE RunnerStep(r) \/ Expire(r)
  <2>1. Calm(r) /\ done' \subseteq done \cup {key(r)}
    BY <1>2, RunnerCalm DEF RunnerStep, RunnerSaves, RunnerEnds, RunnerDies, Expire, marks
  <2>2. done' = done \/ key(r) \in started
    BY <1>2 DEF RunnerStep, RunnerSaves, RunnerEnds, RunnerDies, Expire, marks, Marked, Started
  <2>. QED
    BY <1>0, <2>1, <2>2 DEF Calm
<1>3. ASSUME NEW a \in LaunchNo, LaunchTest(r, a) PROVE MarkTypes'
  BY <1>0, <1>3 DEF LaunchTest, GuardTest
<1>4. ASSUME NEW a \in LaunchNo, LaunchStart(r, a) PROVE MarkTypes'
  BY <1>0, <1>4 DEF LaunchStart
<1>. QED
  BY <1>1, <1>2, <1>3, <1>4 DEF Step, GuardStep

\* Who changes the files and what was pulled.
LEMMA Frame ==
  ASSUME NEW r \in Run, Step(r)
  PROVE  /\ UNCHANGED id
         /\ Split(r) \/ UNCHANGED parts
         /\ (\E a \in LaunchNo : RunnerSaves(r, a) \/ RunnerEnds(r, a)) \/ UNCHANGED result
         /\ PullStep(r) \/ UNCHANGED pull
<1>. USE DEF files
<1>1. CASE Acquire(r) \/ AcquireFails(r) \/ Setup(r) \/ SetupFails(r)
  BY <1>1 DEF Acquire, AcquireFails, Setup, SetupFails, Exit
<1>2. CASE Launch(r) \/ LaunchAgain(r) \/ LaunchFails(r)
  BY <1>2 DEF Launch, LaunchAgain, LaunchFails, Exit
<1>3. CASE WatchStep(r)
  BY <1>3 DEF WatchStep, SeesDone, NotDone, Alive, Dead, DeadThrice,
     Unreachable, Watches, Exit
<1>4. CASE PullStep(r)
  BY <1>4 DEF PullStep, Split, Truncate, List, PullChunk, RemoteMd5, Verified,
     NotVerified, Build, BuildFails, Publish, PublishFails, Exit
<1>5. CASE RunnerStep(r) \/ Expire(r)
  BY <1>5 DEF RunnerStep, RunnerSaves, RunnerEnds, RunnerDies, Expire
<1>6. CASE GuardStep(r)
  BY <1>6 DEF GuardStep, LaunchTest, LaunchStart
<1>. QED
  BY <1>1, <1>2, <1>3, <1>4, <1>5, <1>6 DEF Step, ScriptStep

LEMMA FileTypesStep ==
  ASSUME TypeOK, NEW r \in Run, Step(r)
  PROVE  FileTypes'
<1>. USE BiweeklyAssumption DEF FileTypes
<1>0. key(r) \in Key /\ FileTypes /\ dir[r] \in Dir
  BY Keys, Types DEF ScriptTypes
<1>1. parts' \in [Dir -> [1..MaxParts -> Chunk]]
  <2>1. CASE UNCHANGED parts
    BY <1>0, <2>1
  <2>2. CASE Split(r)
    <3>1. SUFFICES ASSUME result[key(r)] # NoFile,
                          parts' = [parts EXCEPT ![dir[r]] =
                            [i \in 1..MaxParts |->
                               IF i <= result[key(r)].size
                               THEN <<result[key(r)], i>> ELSE @[i]]]
                   PROVE  parts' \in [Dir -> [1..MaxParts -> Chunk]]
      BY <1>0, <2>2 DEF Split
    <3>2. result[key(r)] \in Result /\ parts[dir[r]] \in [1..MaxParts -> Chunk]
      BY <1>0, <3>1
    <3>3. [i \in 1..MaxParts |->
             IF i <= result[key(r)].size THEN <<result[key(r)], i>>
                                         ELSE parts[dir[r]][i]]
            \in [1..MaxParts -> Chunk]
      BY <3>2 DEF Chunk
    <3>. QED
      BY <1>0, <3>1, <3>3
  <2>. QED
    BY <2>1, <2>2, Frame
<1>2. result' \in [Key -> Result \cup {NoFile}]
  <2>1. CASE UNCHANGED result
    BY <1>0, <2>1
  <2>2. \A n \in 1..MaxParts : Write(r, [by |-> r, size |-> n]) => result' \in [Key -> Result \cup {NoFile}]
    BY <1>0 DEF Write, Result
  <2>3. 1 \in 1..MaxParts
    OBVIOUS
  <2>4. ASSUME NEW a \in LaunchNo, RunnerSaves(r, a) \/ RunnerEnds(r, a)
        PROVE  result' \in [Key -> Result \cup {NoFile}]
    BY <2>1, <2>2, <2>3, <2>4 DEF RunnerSaves, RunnerEnds
  <2>. QED
    BY <2>1, <2>4, Frame
<1>. QED
  BY <1>1, <1>2

LEMMA PullTypesStep ==
  ASSUME TypeOK, NEW r \in Run, Step(r)
  PROVE  PullTypes'
<1>. USE DEF PullTypes
<1>0. /\ PullTypes /\ FileTypes /\ dir[r] \in Dir /\ id[r] \in RunId /\ key(r) \in Key
      /\ <<>> \in Seq(Chunk)
  BY Types, Keys DEF ScriptTypes
<1>1. CASE UNCHANGED pull
  BY <1>0, <1>1 DEF pull
<1>2. \A content \in Seq(Chunk) :
        WriteRaw(r, content) => raw' \in [RunId -> Seq(Chunk)] /\ torn' \subseteq RunId
  BY <1>0 DEF WriteRaw
<1>3. CASE Split(r)
  BY <1>1, <1>3 DEF Split
<1>4. CASE Truncate(r)
  BY <1>0, <1>2, <1>4 DEF Truncate
<1>5. CASE List(r)
  BY <1>0, <1>5 DEF List
<1>6. CASE PullChunk(r)
  <2>1. PICK i \in todo[r] :
          /\ todo' = [todo EXCEPT ![r] = @ \ {i}]
          /\ \E got \in {<<parts[dir[r]][i]>>, << <<>> >>, <<>>} :
               WriteRaw(r, raw[id[r]] \o got)
    BY <1>6 DEF PullChunk
  <2>2. PICK got \in {<<parts[dir[r]][i]>>, << <<>> >>, <<>>} :
          WriteRaw(r, raw[id[r]] \o got)
    BY <2>1
  <2>3. parts[dir[r]][i] \in Chunk /\ <<>> \in Chunk
    <3>1. <<>> \in Chunk
      BY DEF Chunk
    <3>2. parts[dir[r]] \in [1..MaxParts -> Chunk] /\ i \in 1..MaxParts
      BY <1>0, <2>1 DEF FileTypes
    <3>. QED
      BY <3>1, <3>2
  <2>4. got \in Seq(Chunk)
    <3>1. CASE got = <<>>
      BY <3>1
    <3>2. CASE got = << <<>> >>
      BY <2>3, <3>2
    <3>3. CASE got = <<parts[dir[r]][i]>>
      <4>. DEFINE c == parts[dir[r]][i]
      <4>1. c \in Chunk /\ got = <<c>>
        BY <2>3, <3>3
      <4>. HIDE DEF c
      <4>. QED
        BY <4>1
    <3>. QED
      BY <2>2, <3>1, <3>2, <3>3
  <2>5. raw[id[r]] \in Seq(Chunk)
    BY <1>0
  <2>6. raw[id[r]] \o got \in Seq(Chunk)
    BY <2>4, <2>5
  <2>7. raw' \in [RunId -> Seq(Chunk)] /\ torn' \subseteq RunId
    BY <1>2, <2>2, <2>6
  <2>8. todo' \in [Run -> SUBSET (1..MaxParts)]
    BY <1>0, <2>1
  <2>. QED
    BY <1>0, <1>6, <2>7, <2>8 DEF PullChunk
<1>7. CASE RemoteMd5(r)
  <2>1. result[key(r)] \in Result \cup {NoFile}
    BY <1>0 DEF FileTypes
  <2>. QED
    BY <1>0, <1>7, <2>1 DEF RemoteMd5
<1>8. CASE Verified(r) \/ NotVerified(r)
  BY <1>0, <1>8 DEF Verified, NotVerified
<1>9. CASE Build(r)
  BY <1>0, <1>9 DEF Build
<1>10. CASE Publish(r)
  BY <1>0, <1>10 DEF Publish
<1>11. CASE BuildFails(r) \/ PublishFails(r)
  BY <1>1, <1>11 DEF BuildFails, PublishFails
<1>. QED
  BY <1>1, <1>3, <1>4, <1>5, <1>6, <1>7, <1>8, <1>9, <1>10, <1>11, Frame DEF PullStep

LEMMA TypesStep ==
  ASSUME TypeOK, Marked, NEW r \in Run, Step(r)
  PROVE  TypeOK'
<1>1. (MarkTypes /\ FileTypes /\ PullTypes)'
  BY MarkTypesStep, FileTypesStep, PullTypesStep
<1>2. (ScriptTypes /\ CountTypes)'
  <2>1. CASE ScriptStep(r)
    BY <2>1, ScriptCalm, CountTypesStep DEF Calm
  <2>2. CASE RunnerStep(r) \/ Expire(r)
    <3>1. UNCHANGED <<tries, streak>>
      BY <2>2 DEF RunnerStep, RunnerSaves, RunnerEnds, RunnerDies, Expire, script
    <3>. QED
      BY <2>2, <3>1, RunnerCalm, Types DEF Calm, CountTypes
  <2>3. CASE GuardStep(r)
    <3>1. PICK a \in LaunchNo : LaunchTest(r, a) \/ LaunchStart(r, a)
      BY <2>3 DEF GuardStep
    <3>2. \E to \in State : exec' = [exec EXCEPT ![r][a] = to]
      BY <3>1 DEF LaunchTest, GuardTest, LaunchStart, State
    <3>. QED
      BY <3>1, <3>2, GuardFrame DEF LaunchTest, LaunchStart
  <2>. QED
    BY <2>1, <2>2, <2>3 DEF Step
<1>. QED
  BY <1>1, <1>2 DEF TypeOK, ScriptTypes, CountTypes, MarkTypes, FileTypes,
     PullTypes, State

-----------------------------------------------------------------------------
(* The writer of a result.                                                 *)

WriterInv == Settled /\ Fresh /\ Marked /\ Guarded /\ OneWriter

\* A step that is not of the guard starts nothing, brings no launch inside the
\* guard, and moves no directory that something was started or marked in.
LEMMA CalmKeeps ==
  ASSUME TypeOK, TypeOK', WriterInv, NEW r \in Run, Calm(r)
  PROVE  WriterInv'
<1>0. /\ tries \in [Run -> Nat] /\ tries' \in [Run -> Nat]
      /\ LaunchNo \subseteq Nat
  BY BiweeklyAssumption DEF TypeOK, LaunchNo
<1>1. Settled'
  <2>. SUFFICES ASSUME NEW s \in Run, pc'[s] \in {"acquire", "setup"}, NEW a \in LaunchNo
                PROVE  exec'[s][a] = "none"
    BY DEF Settled
  <2>1. pc[s] \in {"acquire", "setup"}
    BY DEF Calm
  <2>2. exec[s][a] = "none" /\ ~Started(s, a)
    BY <2>1 DEF WriterInv, Settled, Started
  <2>. QED
    BY <2>2 DEF Calm
<1>2. Fresh'
  <2>. SUFFICES ASSUME NEW s \in Run, pc'[s] = "launch", NEW a \in LaunchNo, a > tries'[s]
                PROVE  exec'[s][a] = "none"
    BY DEF Fresh
  <2>1. CASE s # r
    BY <2>1 DEF Calm, WriterInv, Fresh
  <2>2. CASE s = r
    <3>1. exec[r][a] = "none"
      <4>1. CASE pc[r] = "setup"
        BY <4>1 DEF WriterInv, Settled
      <4>2. CASE pc[r] = "launch" /\ tries'[r] >= tries[r]
        <5>1. tries[r] \in Nat /\ tries'[r] \in Nat /\ a \in Nat
          BY <1>0
        <5>2. a > tries[r]
          BY <2>2, <4>2, <5>1
        <5>. QED
          BY <4>2, <5>2 DEF WriterInv, Fresh
      <4>. QED
        BY <2>2, <4>1, <4>2 DEF Calm
    <3>2. ~Started(r, a)
      BY <3>1 DEF Started
    <3>3. tries'[r] \in Nat /\ a \in Nat
      BY <1>0
    <3>4. ~(a <= tries'[r])
      BY <2>2, <3>3
    <3>. QED
      BY <2>2, <3>1, <3>2, <3>4 DEF Calm
  <2>. QED
    BY <2>1, <2>2
<1>3. ASSUME NEW s \in Run, NEW a \in LaunchNo
      PROVE  /\ Started(s, a)' => Started(s, a)
             /\ Inside(s, a)' => Inside(s, a)
             /\ Started(s, a)' \/ Inside(s, a)' => key(s)' = key(s)
  <2>1. CASE s # r
    BY <2>1 DEF Calm, Started, Inside, key
  <2>2. CASE s = r
    <3>1. Started(r, a)' => Started(r, a)
      BY DEF Calm, Started
    <3>2. exec'[r][a] = "passed" => exec[r][a] = "passed"
      BY DEF Calm
    <3>3. exec[r][a] # "none" => pc[r] \notin {"acquire", "setup"}
      BY DEF WriterInv, Settled
    <3>4. Inside(r, a)' => Inside(r, a)
      BY <3>2, <3>3 DEF Calm, Inside
    <3>5. Started(r, a) \/ Inside(r, a) => dir'[r] = dir[r]
      BY <3>3 DEF Calm, Started, Inside
    <3>. QED
      BY <2>2, <3>1, <3>4, <3>5 DEF Calm, key
  <2>. QED
    BY <2>1, <2>2
<1>4. UNCHANGED <<started, raced>>
  BY DEF Calm
<1>5. Marked'
  BY <1>3, <1>4 DEF WriterInv, Marked
<1>6. Guarded'
  BY <1>3, <1>4 DEF WriterInv, Guarded
<1>7. OneWriter'
  BY <1>3, <1>4 DEF WriterInv, OneWriter
<1>. QED
  BY <1>1, <1>2, <1>5, <1>6, <1>7 DEF WriterInv

LEMMA TestKeeps ==
  ASSUME TypeOK, WriterInv, NEW r \in Run, NEW a \in LaunchNo, LaunchTest(r, a)
  PROVE  WriterInv'
<1>1. /\ exec[r][a] = "sent" /\ box[r] = "held"
      /\ UNCHANGED <<id, script, box, started>>
  BY DEF LaunchTest, Reachable
<1>2. PICK to \in {"guarded", "passed"} :
        /\ exec' = [exec EXCEPT ![r][a] = to]
        /\ to = "passed" => key(r) \notin started
        /\ raced \subseteq raced'
        /\ to = "guarded" => raced' = raced
        /\ to = "passed" /\ key(r) \notin raced' =>
             \A s \in Run : \A b \in LaunchNo : Inside(s, b) => key(s) # key(r)
  BY DEF LaunchTest, GuardTest
<1>3. /\ exec'[r][a] = to
      /\ \A s \in Run : \A b \in LaunchNo : s # r \/ b # a => exec'[s][b] = exec[s][b]
      /\ \A s \in Run : key(s)' = key(s)
  BY <1>1, <1>2, GuardFrame DEF State
<1>. HIDE DEF WriterInv
<1>4. /\ \A s \in Run : \A b \in LaunchNo : Started(s, b)' <=> Started(s, b)
      /\ \A s \in Run : \A b \in LaunchNo : s # r \/ b # a => (Inside(s, b)' <=> Inside(s, b))
      /\ Inside(r, a)' => to = "passed"
  BY <1>1, <1>2, <1>3 DEF Started, Inside
<1>5. Settled' /\ Fresh'
  BY <1>1, <1>3 DEF WriterInv, Settled, Fresh, script
<1>6. Marked' /\ OneWriter'
  BY <1>1, <1>2, <1>3, <1>4 DEF WriterInv, Marked, OneWriter
<1>7. Guarded'
  <2>. SUFFICES ASSUME NEW s \in Run, NEW b \in LaunchNo, Inside(s, b)', key(s) \notin raced'
                PROVE  /\ key(s) \notin started
                       /\ \A u \in Run : \A c \in LaunchNo :
                            Inside(u, c)' /\ key(u) = key(s) => u = s /\ c = b
    BY <1>1, <1>3 DEF Guarded
  <2>1. CASE s = r /\ b = a
    BY <1>2, <1>4, <2>1
  <2>2. CASE ~(s = r /\ b = a)
    <3>1. Inside(s, b) /\ key(s) \notin raced
      BY <1>2, <1>4, <2>2
    <3>2. Inside(r, a)' => key(r) # key(s)
      BY <1>2, <1>4, <3>1
    <3>. QED
      BY <1>4, <3>1, <3>2 DEF WriterInv, Guarded
  <2>. QED
    BY <2>1, <2>2
<1>. QED
  BY <1>5, <1>6, <1>7 DEF WriterInv

LEMMA StartKeeps ==
  ASSUME TypeOK, WriterInv, NEW r \in Run, NEW a \in LaunchNo, LaunchStart(r, a)
  PROVE  WriterInv'
<1>1. /\ Inside(r, a) /\ exec' = [exec EXCEPT ![r][a] = "up"]
      /\ started' = started \cup {key(r)}
      /\ UNCHANGED <<id, script, box, raced>>
  BY DEF LaunchStart
<1>2. /\ exec'[r][a] = "up"
      /\ \A s \in Run : \A b \in LaunchNo : s # r \/ b # a => exec'[s][b] = exec[s][b]
      /\ \A s \in Run : key(s)' = key(s)
  BY <1>1, GuardFrame DEF State
<1>3. /\ \A s \in Run : \A b \in LaunchNo : s # r \/ b # a => (Started(s, b)' <=> Started(s, b))
      /\ \A s \in Run : \A b \in LaunchNo : Inside(s, b)' => Inside(s, b) /\ ~(s = r /\ b = a)
      /\ Started(r, a)'
  BY <1>1, <1>2 DEF Started, Inside
<1>4. Settled' /\ Fresh'
  BY <1>1, <1>2 DEF WriterInv, Settled, Fresh, script, Inside
<1>5. Marked'
  BY <1>1, <1>2, <1>3 DEF WriterInv, Marked
<1>6. Guarded'
  BY <1>1, <1>2, <1>3 DEF WriterInv, Guarded
<1>7. OneWriter'
  <2>1. key(r) \in raced \/ \A s \in Run : \A b \in LaunchNo : Started(s, b) => key(s) # key(r)
    BY <1>1 DEF WriterInv, Guarded, Marked
  <2>. QED
    BY <1>1, <1>2, <1>3, <2>1 DEF WriterInv, OneWriter
<1>. QED
  BY <1>4, <1>5, <1>6, <1>7 DEF WriterInv

LEMMA WritersStep ==
  ASSUME TypeOK, WriterInv, NEW r \in Run, Step(r)
  PROVE  WriterInv'
<1>1. TypeOK'
  BY TypesStep DEF WriterInv
<1>. QED
  BY <1>1, ScriptCalm, RunnerCalm, CalmKeeps, TestKeeps, StartKeeps DEF Step, GuardStep

-----------------------------------------------------------------------------
(* What is published.                                                      *)

LEMMA FiledStep ==
  ASSUME TypeOK, Filed, NEW r \in Run, Step(r)
  PROVE  Filed'
<1>1. key(r) \in Key /\ key(r)[2] = id[r] /\ UNCHANGED id
  BY Keys, Frame DEF key
<1>2. result \in [Key -> Result \cup {NoFile}] /\ sum \in [Run -> Result \cup {NoFile}]
  BY DEF TypeOK
<1>3. \A k \in Key : result'[k] # NoFile => id[result'[k].by] = k[2]
  <2>1. CASE UNCHANGED result
    BY <2>1 DEF Filed
  <2>2. \A n \in 1..MaxParts : Write(r, [by |-> r, size |-> n]) =>
          \A k \in Key : result'[k] # NoFile => id[result'[k].by] = k[2]
    <3>. SUFFICES ASSUME NEW n \in 1..MaxParts, Write(r, [by |-> r, size |-> n]),
                         NEW k \in Key, result'[k] # NoFile
                  PROVE  id[result'[k].by] = k[2]
      OBVIOUS
    <3>1. CASE k = key(r)
      BY <1>1, <1>2, <3>1 DEF Write
    <3>2. CASE k # key(r)
      BY <1>2, <3>2 DEF Write, Filed
    <3>. QED
      BY <3>1, <3>2
  <2>3. 1 \in 1..MaxParts
    BY BiweeklyAssumption
  <2>4. ASSUME NEW a \in LaunchNo, RunnerSaves(r, a) \/ RunnerEnds(r, a)
        PROVE  \A k \in Key : result'[k] # NoFile => id[result'[k].by] = k[2]
    BY <2>1, <2>2, <2>3, <2>4 DEF RunnerSaves, RunnerEnds
  <2>. QED
    BY <2>1, <2>4, Frame
<1>4. \A s \in Run : sum'[s] # NoFile => id[sum'[s].by] = id[s]
  <2>1. CASE UNCHANGED sum
    BY <2>1 DEF Filed
  <2>2. CASE RemoteMd5(r)
    <3>1. sum'[r] \in {result[key(r)], NoFile} /\ \A s \in Run : s # r => sum'[s] = sum[s]
      BY <1>2, <2>2 DEF RemoteMd5
    <3>. QED
      BY <1>1, <3>1 DEF Filed
  <2>3. CASE Verified(r) \/ NotVerified(r)
    BY <1>2, <2>3 DEF Verified, NotVerified, Filed
  <2>4. CASE PullStep(r)
    BY <2>1, <2>2, <2>3, <2>4 DEF PullStep, Split, Truncate, List, PullChunk, Build,
       BuildFails, Publish, PublishFails, pull
  <2>. QED
    BY <2>1, <2>4, Frame DEF pull
<1>. QED
  BY <1>1, <1>3, <1>4 DEF Filed

\* Who comes to read RAW again.
LEMMA BuildFrame ==
  ASSUME TypeOK, NEW r \in Run, Step(r)
  PROVE  /\ \A s \in Run : s # r => pc'[s] = pc[s]
         /\ pc'[r] = "build" => Verified(r) \/ pc[r] = "build"
<1>0. ScriptTypes
  BY Types
<1>. USE DEF Goto, At
<1>1. CASE RunnerStep(r) \/ Expire(r) \/ GuardStep(r)
  BY <1>1 DEF RunnerStep, RunnerSaves, RunnerEnds, RunnerDies, Expire, GuardStep,
     LaunchTest, LaunchStart, script
<1>2. CASE ScriptStep(r)
  <2>1. \A s \in Run : s # r => pc'[s] = pc[s]
    BY <1>2, ScriptCalm DEF Calm
  <2>2. pc' = pc \/ \E from, to : pc' = [pc EXCEPT ![r] = to] /\ (to = "build" => Verified(r))
    BY <1>2 DEF ScriptStep, Acquire, AcquireFails, Setup, SetupFails, Launch,
       LaunchAgain, LaunchFails, WatchStep, SeesDone, NotDone, Alive, Dead,
       DeadThrice, Unreachable, Watches, PullStep, Split, Truncate, List, PullChunk,
       RemoteMd5, Verified, NotVerified, Build, BuildFails, Publish, PublishFails,
       Exit, script
  <2>. QED
    BY <1>0, <2>1, <2>2 DEF ScriptTypes
<1>. QED
  BY <1>1, <1>2 DEF Step

LEMMA CheckedStep ==
  ASSUME TypeOK, Filed, Checked, NEW r \in Run, Step(r)
  PROVE  Checked'
<1>0. /\ UNCHANGED id /\ \A s \in Run : id[s] \in RunId
      /\ raw \in [RunId -> Seq(Chunk)] /\ mergedOf \in [RunId -> Seq(Chunk)]
      /\ published \in [Run -> Seq(Chunk)]
  BY Frame DEF TypeOK
<1>1. \A content : \A i : Whole(content, i)' <=> Whole(content, i)
  BY <1>0 DEF Whole
<1>2. torn \subseteq torn'
  BY Frame DEF PullStep, pull, Split, Truncate, List, PullChunk, WriteRaw, RemoteMd5,
     Verified, NotVerified, Build, BuildFails, Publish, PublishFails
<1>3. SUFFICES ASSUME NEW s \in Run, id[s] \notin torn'
               PROVE  /\ pc'[s] = "build" => Whole(raw'[id[s]], id[s])
                      /\ mergedOf'[id[s]] # <<>> => Whole(mergedOf'[id[s]], id[s])
                      /\ published'[s] # <<>> => Whole(published'[s], id[s])
  BY <1>0, <1>1 DEF Checked
<1>4. id[s] \notin torn
  BY <1>2, <1>3
<1>5. pc'[s] = "build" => Whole(raw'[id[s]], id[s])
  <2>. SUFFICES ASSUME pc'[s] = "build" PROVE Whole(raw'[id[s]], id[s])
    OBVIOUS
  <2>1. CASE pc[s] = "build"
    <3>1. Whole(raw[id[s]], id[s])
      BY <1>4, <2>1 DEF Checked
    <3>2. ASSUME NEW content, WriteRaw(r, content) PROVE raw'[id[s]] = raw[id[s]]
      <4>1. id[s] # id[r]
        BY <1>3, <2>1, <3>2 DEF WriteRaw
      <4>. QED
        BY <1>0, <3>2, <4>1 DEF WriteRaw
    <3>3. raw'[id[s]] = raw[id[s]]
      BY <3>2, Frame DEF PullStep, pull, Split, Truncate, List, PullChunk, RemoteMd5,
         Verified, NotVerified, Build, BuildFails, Publish, PublishFails
    <3>. QED
      BY <3>1, <3>3
  <2>2. CASE pc[s] # "build"
    <3>1. s = r /\ Verified(r)
      BY <2>2, BuildFrame
    <3>2. sum[r] \in Result /\ raw[id[r]] = Chunks(sum[r]) /\ id[sum[r].by] = id[r] /\ raw' = raw
      BY <3>1 DEF Verified, SameMd5, Filed, TypeOK
    <3>. QED
      BY <3>1, <3>2 DEF Whole
  <2>. QED
    BY <2>1, <2>2
<1>6. mergedOf'[id[s]] # <<>> => Whole(mergedOf'[id[s]], id[s])
  <2>1. CASE UNCHANGED mergedOf
    BY <1>4, <2>1 DEF Checked
  <2>2. CASE Build(r)
    <3>1. mergedOf' = [mergedOf EXCEPT ![id[r]] = raw[id[r]]] /\ pc[r] = "build"
      BY <2>2 DEF Build, Goto, At
    <3>2. CASE id[s] = id[r]
      BY <1>0, <1>4, <3>1, <3>2 DEF Checked
    <3>3. CASE id[s] # id[r]
      BY <1>0, <1>4, <3>1, <3>3 DEF Checked
    <3>. QED
      BY <3>2, <3>3
  <2>3. Build(r) \/ UNCHANGED mergedOf
    BY Frame DEF PullStep, pull, Split, Truncate, List, PullChunk, RemoteMd5,
       Verified, NotVerified, BuildFails, Publish, PublishFails
  <2>. QED
    BY <2>1, <2>2, <2>3
<1>7. published'[s] # <<>> => Whole(published'[s], id[s])
  <2>1. CASE UNCHANGED published
    BY <1>4, <2>1 DEF Checked
  <2>2. CASE Publish(r)
    <3>1. published' = [published EXCEPT ![r] = mergedOf[id[r]]]
      BY <2>2 DEF Publish
    <3>. QED
      BY <1>0, <1>4, <3>1 DEF Checked
  <2>3. Publish(r) \/ UNCHANGED published
    BY Frame DEF PullStep, pull, Split, Truncate, List, PullChunk, RemoteMd5,
       Verified, NotVerified, Build, BuildFails, PublishFails
  <2>. QED
    BY <2>1, <2>2, <2>3
<1>. QED
  BY <1>5, <1>6, <1>7

-----------------------------------------------------------------------------
LEMMA RunsInductive == RunsInv /\ [Next]_vars => RunsInv'
<1>. SUFFICES ASSUME RunsInv, [Next]_vars PROVE RunsInv'
  OBVIOUS
<1>0. WriterInv
  BY DEF RunsInv, WriterInv
<1>1. CASE Next
  <2>1. PICK r \in Run : Step(r)
    BY <1>1 DEF Next, Step, BoxStep, RunnerStep, GuardStep
  <2>2. TypeOK' /\ Filed' /\ Checked'
    BY <2>1, TypesStep, FiledStep, CheckedStep DEF RunsInv
  <2>3. WriterInv'
    BY <1>0, <2>1, WritersStep DEF RunsInv
  <2>. QED
    BY <2>2, <2>3 DEF RunsInv, WriterInv
<1>2. CASE UNCHANGED vars
  <2>. USE <1>2 DEF vars, script, marks, files, pull
  <2>1. TypeOK'
    BY DEF RunsInv, TypeOK
  <2>2. (Settled /\ Fresh /\ Marked)'
    BY DEF RunsInv, Settled, Fresh, Marked, Started, key
  <2>3. (Guarded /\ OneWriter)'
    BY DEF RunsInv, Guarded, OneWriter, Started, Inside, key
  <2>4. (Filed /\ Checked)'
    BY DEF RunsInv, Filed, Checked, Whole
  <2>. QED
    BY <2>1, <2>2, <2>3, <2>4 DEF RunsInv
<1>. QED
  BY <1>1, <1>2

LEMMA RunsInvariant == Spec => []RunsInv
BY RunsInit, RunsInductive, PTL DEF Spec

-----------------------------------------------------------------------------
(* The results.                                                            *)

\* The state of the runs and of the files they share is well typed
\* (biweekly_fair_bench.sh).
THEOREM TypeCorrect == Spec => []TypeOK
<1>1. RunsInv => TypeOK
  BY DEF RunsInv
<1>. QED
  BY <1>1, RunsInvariant, PTL

\* Any number of runs of one day, each launched any number of times with lost
\* launches that run late, start at most one runner that writes their result
\* file, unless two launches were between test and touch of its .started at a
\* time: the guard is a test and a touch, and this is what they are good for.
THEOREM WritersAreAlone == Spec => []OneWriter
<1>1. RunsInv => OneWriter
  BY DEF RunsInv
<1>. QED
  BY <1>1, RunsInvariant, PTL

\* Whatever chunks lie in the shared directory, are lost or are pulled twice, and
\* whoever fills the RAW file of the day at the same time, a run publishes one
\* result file of its own RUN_ID, whole, unless RAW was written between a run's
\* check of the md5 and its second reading of RAW.
THEOREM PublishedIsWhole == Spec => []PublishedIsOneResult
<1>1. RunsInv => PublishedIsOneResult
  BY DEF RunsInv, Checked, PublishedIsOneResult
<1>. QED
  BY <1>1, RunsInvariant, PTL

-----------------------------------------------------------------------------
(* A case's configuration and its publication: the selection of a profile. *)

LEMMA NamedIs ==
  ASSUME NEW profiles \in Seq(CommandProfile), NEW asked
  PROVE  Named(profiles, asked) # <<>> =>
           /\ Named(profiles, asked)[1] \in ToSet(profiles)
           /\ Named(profiles, asked)[1].key = asked
BY KeptElements DEF Named

LEMMA SelectedIs ==
  ASSUME NEW profiles \in Seq(CommandProfile), NEW candidates
  PROVE  /\ profiles = <<>> => SelectProfile(profiles, candidates) = NoProfile
         /\ profiles # <<>> => SelectProfile(profiles, candidates) \in ToSet(profiles)
<1>. DEFINE matches == GuardMatches(profiles, candidates)
<1>1. matches # <<>> => matches[1] \in ToSet(profiles)
  BY KeptElements DEF GuardMatches
<1>2. profiles # <<>> => profiles[1] \in ToSet(profiles)
  BY DEF ToSet
<1>3. profiles # <<>> => WithoutMatch(profiles)[1] \in ToSet(profiles)
  BY <1>2, NamedIs DEF WithoutMatch
<1>. QED
  BY <1>1, <1>3 DEF SelectProfile

\* The two tuples of tokens are one.
LEMMA SameTokens ==
  HARDWARE_PROFILE_TOKENS = HARDWARE_TOKENS /\ \A text : RunTokens(text) = HardwareTokens(text)
<1>1. HARDWARE_PROFILE_TOKENS = HARDWARE_TOKENS
  BY DEF HARDWARE_PROFILE_TOKENS, HARDWARE_TOKENS
<1>2. RunTokensOf = GuardTokensOf
  BY <1>1 DEF RunTokensOf, GuardTokensOf
<1>. QED
  BY <1>1, <1>2 DEF RunTokens, HardwareTokens

\* So are the two ways to match.
LEMMA SameMatches ==
  ASSUME NEW profiles, NEW candidates
  PROVE  HardwareMatches(profiles, candidates) = GuardMatches(profiles, candidates)
<1>3. \A v : RunTokens(v) = HardwareTokens(v)
  BY SameTokens
<1>4. \A p : ProfileMatches(p, candidates)
               <=> \E c \in ToSet(candidates) : \E v \in {p.name} \cup p.hardware : c \in HardwareTokens(v)
  BY <1>3 DEF ProfileMatches
<1>5. {p \in ToSet(profiles) : p.key # DEFAULT_PROFILE /\ ProfileMatches(p, candidates)}
        = {p \in ToSet(profiles) :
             /\ p.key # DEFAULT_PROFILE
             /\ \E c \in ToSet(candidates) : \E v \in {p.name} \cup p.hardware : c \in HardwareTokens(v)}
  BY <1>4
<1>. QED
  BY <1>5 DEF HardwareMatches, GuardMatches

\* The runner and its mirror select the same profile when none is asked for.
LEMMA MirrorSelects ==
  ASSUME NEW profiles \in Seq(CommandProfile), NEW candidates
  PROVE  LET chosen == SelectCommandProfile(profiles, NoName, candidates)
         IN  /\ chosen[1] = SelectProfile(profiles, candidates)
             /\ chosen[2] \in {"inline", "hardware", "default", "first"}
             /\ chosen[2] = "inline" <=> profiles = <<>>
<1>. DEFINE matches == HardwareMatches(profiles, candidates)
<1>4. GuardMatches(profiles, candidates) = matches
  BY SameMatches
<1>1. CASE profiles = <<>>
  BY <1>1 DEF SelectCommandProfile, SelectProfile
<1>2. CASE profiles # <<>> /\ matches # <<>>
  BY <1>2, <1>4 DEF SelectCommandProfile, SelectProfile
<1>3. CASE profiles # <<>> /\ matches = <<>>
  <2>1. WithoutMatch(profiles)[2] \in {"default", "first"}
    BY DEF WithoutMatch
  <2>. QED
    BY <1>3, <1>4, <2>1 DEF SelectCommandProfile, SelectProfile
<1>. QED
  BY <1>1, <1>2, <1>3

LEMMA NameSelects ==
  ASSUME NEW profiles \in Seq(CommandProfile), profiles # <<>>, NEW candidates,
         NEW asked, asked # NoName
  PROVE  SelectCommandProfile(profiles, asked, candidates) =
           IF Named(profiles, asked) = <<>> THEN <<NoProfile, "unknown">>
           ELSE <<Named(profiles, asked)[1], "explicit">>
BY DEF SelectCommandProfile

-----------------------------------------------------------------------------
(* The built configuration.                                                *)

LEMMA PassingIs ==
  ASSUME NEW s \in Passing
  PROVE  /\ s \in DOMAIN Catalog /\ BuildPasses(Catalog[s]) /\ Config[s] = Built(Catalog[s])
         /\ DOMAIN Catalog[s] = Frameworks
         /\ \A fw \in Frameworks : IsEntry(Catalog[s][fw])
<1>1. s \in DOMAIN Catalog /\ BuildPasses(Catalog[s]) /\ Config[s] = Built(Catalog[s])
  BY DEF Passing, Config
<1>. QED
  BY <1>1, CatalogAssumption DEF BuildPasses, WellClassified

LEMMA BodyIs ==
  ASSUME NEW s \in Passing
  PROVE  /\ DOMAIN Config[s].frameworks = {fw \in Frameworks : IsPublished(Catalog[s][fw])}
         /\ \A fw \in DOMAIN Config[s].frameworks : Config[s].frameworks[fw] = BodyOf(Catalog[s][fw])
<1>. DEFINE entries == Catalog[s]
<1>1. Config[s] = Built(entries)
  BY PassingIs
<1>. HIDE DEF entries
<1>2. Built(entries).frameworks = [fw \in {f \in Frameworks : IsPublished(entries[f])} |-> BodyOf(entries[fw])]
  BY DEF Built
<1>. QED
  BY <1>1, <1>2 DEF entries

LEMMA StatusIs ==
  ASSUME NEW s \in Passing, NEW fw \in Frameworks, NEW candidates \in Seq(Tokens)
  PROVE  StatusOn(Config[s], fw, candidates) = ResolveStatus(Catalog[s][fw], candidates)
<1>. DEFINE entries == Catalog[s]
            entry == entries[fw]
            config == Built(entries)
            seen == [status     |-> IF fw \in DOMAIN config.statuses THEN config.statuses[fw] ELSE "supported",
                     byHardware |-> IF fw \in DOMAIN config.byHardware THEN config.byHardware[fw] ELSE <<>>]
<1>1. Config[s] = config
  BY PassingIs
<1>. HIDE DEF entries
<1>2. seen.status = entry.status
  <2>1. config.statuses = [f \in {g \in Frameworks : entries[g].status # "supported"} |-> entries[f].status]
    BY DEF Built
  <2>. HIDE DEF config
  <2>. QED
    BY <2>1
<1>3. seen.byHardware = IF DOMAIN entry.byHardware = {} THEN <<>> ELSE entry.byHardware
  <2>1. config.byHardware = [f \in {g \in Frameworks : DOMAIN entries[g].byHardware # {}} |-> entries[f].byHardware]
    BY DEF Built
  <2>. HIDE DEF config
  <2>. QED
    BY <2>1
<1>4. DOMAIN seen.byHardware = DOMAIN entry.byHardware
  <2>1. DOMAIN <<>> = {}
    OBVIOUS
  <2>. HIDE DEF seen
  <2>. QED
    BY <1>3, <2>1
<1>5. StatusOn(config, fw, candidates) = ResolveStatus(seen, candidates)
  BY DEF StatusOn
<1>6. Kept(candidates, {}) = <<>>
  BY KeptElements
<1>. HIDE DEF seen, entry, config
<1>7. ResolveStatus(seen, candidates) = ResolveStatus(entry, candidates)
  BY <1>2, <1>3, <1>4, <1>6 DEF ResolveStatus
<1>. QED
  BY <1>1, <1>5, <1>7 DEF entry, entries

LEMMA Candidates ==
  ASSUME NEW host
  PROVE  /\ RunCandidates(host) \in Seq(Tokens) /\ GuardCandidates(host) \in Seq(Tokens)
         /\ ToSet(GuardCandidates(host)) \subseteq Tokens
<1>. DEFINE all == HARDWARE_PROFILE_TOKENS
<1>0. HARDWARE_TOKENS = all
  BY SameTokens
<1>1. all \in Seq(Tokens)
  BY DEF HARDWARE_PROFILE_TOKENS, Tokens, ToSet
<1>2. ToSet(all) = Tokens
  BY DEF Tokens
<1>. HIDE DEF all
<1>3. \A found : Kept(all, found) \in Seq(Tokens) /\ ToSet(Kept(all, found)) \subseteq Tokens
  BY <1>1, <1>2, KeptElements
<1>. QED
  BY <1>0, <1>3 DEF RunCandidates, GuardCandidates, all

-----------------------------------------------------------------------------
(* The rows of a run.                                                      *)

EntryOf(run, fw)    == Catalog[run.config][fw]
BoxOf(run)          == Told(run).box
AskedFor(run, fw)   == Asked(Told(run), fw)
ResolvedOf(run, fw) ==
  ResolveFrameworkConfig(BodyOf(EntryOf(run, fw)), AskedFor(run, fw), RunCandidates(BoxOf(run)))
RowOf(run, fw, mode) ==
  Row(fw, mode, ResolvedOf(run, fw), BoxOf(run), Told(run).outcome)

\* The frameworks with rows in the artifact of a run.
Attempted(run) ==
  {fw \in DOMAIN ApplyHardwareStatuses(Config[run.config], RunCandidates(BoxOf(run))).frameworks :
     Told(run).outcome = "killed" => fw = "sglang"}

LEMMA AppliedIs ==
  ASSUME NEW s \in Passing, NEW candidates
  PROVE  LET now == ApplyHardwareStatuses(Config[s], candidates).frameworks
         IN  /\ DOMAIN now \subseteq DOMAIN Config[s].frameworks
             /\ \A fw \in DOMAIN now : now[fw] = Config[s].frameworks[fw]
<1>. DEFINE config == Config[s]
            now == ApplyHardwareStatuses(config, candidates).frameworks
<1>. HIDE DEF config
<1>1. now = config.frameworks \/ \E S : now = Restrict(config.frameworks, DOMAIN config.frameworks \ S)
  BY DEF ApplyHardwareStatuses
<1>. HIDE DEF now
<1>2. DOMAIN now \subseteq DOMAIN config.frameworks /\ \A fw \in DOMAIN now : now[fw] = config.frameworks[fw]
  BY <1>1 DEF Restrict
<1>. QED
  BY <1>2 DEF now, config

LEMMA ArtifactIs ==
  ASSUME NEW run \in Conditions
  PROVE  /\ run.config \in Passing
         /\ Attempted(run) \subseteq {fw \in Frameworks : IsPublished(EntryOf(run, fw))}
         /\ Artifact[run].rows = {RowOf(run, fw, mode) : fw \in Attempted(run), mode \in Told(run).modes}
         /\ Artifact[run].hardware = Hardware(BoxOf(run))
         /\ Artifact[run].partial = (Told(run).outcome = "killed")
         /\ Artifact[run].raises <=> \E fw \in Attempted(run) : ResolvedOf(run, fw).how = "unknown"
<1>. DEFINE c == Told(run)
            host == c.box
            candidates == RunCandidates(host)
            bodies == ApplyHardwareStatuses(Config[run.config], candidates).frameworks
            entries == Entries(bodies, c, candidates)
<1>1. run.config \in Passing
  BY DEF Conditions
<1>2. /\ DOMAIN bodies \subseteq {fw \in Frameworks : IsPublished(EntryOf(run, fw))}
      /\ \A fw \in DOMAIN bodies : bodies[fw] = BodyOf(EntryOf(run, fw))
  <2>. HIDE DEF candidates
  <2>. QED
    BY <1>1, AppliedIs, BodyIs DEF EntryOf
<1>3. Artifact[run] = ArtifactOf(entries, c)
  BY DEF Artifact, MatrixOn
<1>4. DOMAIN entries = Attempted(run)
  BY DEF Entries, Attempted, BoxOf
<1>5. \A fw \in Attempted(run) : entries[fw] = ResolvedOf(run, fw)
  <2>. TAKE fw \in Attempted(run)
  <2>1. fw \in DOMAIN bodies
    BY DEF Attempted, BoxOf
  <2>2. bodies[fw] = BodyOf(EntryOf(run, fw))
    BY <1>2, <2>1
  <2>3. entries[fw] = ResolveFrameworkConfig(bodies[fw], Asked(c, fw), candidates)
    <3>. HIDE DEF bodies, c, candidates
    <3>. QED
      BY <1>4 DEF Entries
  <2>. QED
    BY <2>2, <2>3 DEF ResolvedOf, AskedFor, BoxOf
<1>. HIDE DEF entries, bodies, candidates
<1>6. ArtifactOf(entries, c).rows = {RowOf(run, fw, mode) : fw \in Attempted(run), mode \in c.modes}
  <2>1. ArtifactOf(entries, c).rows = {Row(fw, mode, entries[fw], c.box, c.outcome) : fw \in DOMAIN entries, mode \in c.modes}
    BY DEF ArtifactOf
  <2>. HIDE DEF c
  <2>2. \A fw \in Attempted(run), mode \in c.modes :
          Row(fw, mode, entries[fw], c.box, c.outcome) = RowOf(run, fw, mode)
    BY <1>5 DEF RowOf, BoxOf, c
  <2>. QED
    BY <1>4, <2>1, <2>2
<1>7. ArtifactOf(entries, c).hardware = Hardware(c.box) /\ ArtifactOf(entries, c).partial = (c.outcome = "killed")
  BY DEF ArtifactOf
<1>9. ArtifactOf(entries, c).raises <=> \E fw \in Attempted(run) : ResolvedOf(run, fw).how = "unknown"
  BY <1>4, <1>5 DEF ArtifactOf
<1>8. Attempted(run) \subseteq DOMAIN bodies
  BY DEF Attempted, bodies, candidates, BoxOf
<1>. QED
  BY <1>1, <1>2, <1>3, <1>6, <1>7, <1>8, <1>9 DEF BoxOf

LEMMA ResolvedIs ==
  ASSUME NEW run \in Conditions, NEW fw \in Frameworks
  PROVE  LET r == ResolvedOf(run, fw)
             entry == EntryOf(run, fw)
         IN  /\ IsEntry(entry)
             /\ \/ r.profile = NoProfile /\ r.how \in {"inline", "unknown"}
                \/ r.profile \in ToSet(entry.profiles) /\ r.profile \in CommandProfile
             /\ r.cfg = ResolvedConfig(BodyOf(entry), r.profile)
             /\ r.exception = ExceptionOf(BodyOf(entry), r.profile)
             /\ AskedFor(run, fw) = NoName =>
                  /\ r.how \in {"inline", "hardware", "default", "first"}
                  /\ r.profile = SelectProfile(entry.profiles, RunCandidates(BoxOf(run)))
                  /\ r.how = "inline" <=> entry.profiles = <<>>
             /\ AskedFor(run, fw) # NoName /\ entry.profiles # <<>> =>
                  IF Named(entry.profiles, AskedFor(run, fw)) = <<>>
                  THEN r.profile = NoProfile /\ r.how = "unknown"
                  ELSE r.profile = Named(entry.profiles, AskedFor(run, fw))[1] /\ r.how = "explicit"
             /\ entry.profiles = <<>> => r.profile = NoProfile /\ r.how = "inline"
<1>. DEFINE entry == EntryOf(run, fw)
            body == BodyOf(entry)
            asked == AskedFor(run, fw)
            candidates == RunCandidates(BoxOf(run))
            chosen == SelectCommandProfile(entry.profiles, asked, candidates)
            r == ResolvedOf(run, fw)
<1>1. IsEntry(entry)
  BY PassingIs DEF Conditions, EntryOf
<1>2. entry.profiles \in Seq(CommandProfile) /\ body.profiles = entry.profiles
  BY <1>1 DEF IsEntry, BodyOf
<1>3. /\ r.profile = chosen[1] /\ r.how = chosen[2]
      /\ r.cfg = ResolvedConfig(body, chosen[1]) /\ r.exception = ExceptionOf(body, chosen[1])
  <2>1. r = ResolvedAs(body, chosen)
    BY <1>2 DEF ResolvedOf, ResolveFrameworkConfig
  <2>. HIDE DEF r, body, chosen
  <2>. QED
    BY <2>1 DEF ResolvedAs
<1>. HIDE DEF entry, asked, candidates, r
<1>4. entry.profiles = <<>> => chosen = <<NoProfile, "inline">>
  BY DEF SelectCommandProfile
<1>5. asked = NoName =>
        /\ chosen[1] = SelectProfile(entry.profiles, candidates)
        /\ chosen[2] \in {"inline", "hardware", "default", "first"}
        /\ chosen[2] = "inline" <=> entry.profiles = <<>>
  BY <1>2, MirrorSelects
<1>6. asked # NoName /\ entry.profiles # <<>> =>
        chosen = IF Named(entry.profiles, asked) = <<>> THEN <<NoProfile, "unknown">>
                 ELSE <<Named(entry.profiles, asked)[1], "explicit">>
  BY <1>2, NameSelects
<1>7. \/ chosen[1] = NoProfile /\ chosen[2] \in {"inline", "unknown"}
      \/ chosen[1] \in ToSet(entry.profiles)
  <2>. HIDE DEF chosen
  <2>1. CASE entry.profiles = <<>>
    BY <2>1, <1>4
  <2>2. CASE entry.profiles # <<>> /\ asked = NoName
    BY <2>2, <1>2, <1>5, SelectedIs
  <2>3. CASE entry.profiles # <<>> /\ asked # NoName
    BY <2>3, <1>2, <1>6, NamedIs
  <2>. QED
    BY <2>1, <2>2, <2>3
<1>8. ToSet(entry.profiles) \subseteq CommandProfile
  BY <1>2 DEF ToSet
<1>. HIDE DEF chosen
<1>9. asked # NoName /\ entry.profiles # <<>> =>
        IF Named(entry.profiles, asked) = <<>>
        THEN r.profile = NoProfile /\ r.how = "unknown"
        ELSE r.profile = Named(entry.profiles, asked)[1] /\ r.how = "explicit"
  BY <1>3, <1>6
<1>10. entry.profiles = <<>> => r.profile = NoProfile /\ r.how = "inline"
  BY <1>3, <1>4
<1>. QED
  BY <1>1, <1>3, <1>5, <1>7, <1>8, <1>9, <1>10 DEF entry, asked, candidates, r

LEMMA ConfigOf ==
  ASSUME NEW entry, IsEntry(entry), NEW p, p = NoProfile \/ p \in CommandProfile
  PROVE  LET cfg == ResolvedConfig(BodyOf(entry), p)
         IN  /\ cfg.args = IF p = NoProfile THEN entry.args ELSE Given(p.args, entry.args, NoArgs)
             /\ cfg.args \in Seq(STRING)
             /\ cfg.opts \in Settings
             /\ p.key = NoProfile.key <=> p = NoProfile
<1>1. p.key = NoProfile.key <=> p = NoProfile
  BY DEF CommandProfile, NoProfile
<1>2. CASE p = NoProfile
  BY <1>1, <1>2 DEF ResolvedConfig, BodyOf, IsEntry
<1>3. CASE p # NoProfile
  <2>1. p \in CommandProfile
    BY <1>3
  <2>2. p.args \in Seq(STRING) /\ p.opts \in Settings /\ entry.args \in Seq(STRING) /\ entry.opts \in Settings
    BY <2>1 DEF CommandProfile, IsEntry
  <2>3. ResolvedConfig(BodyOf(entry), p) = MergeNested(BodyOf(entry), p)
    BY <1>1, <1>3 DEF ResolvedConfig
  <2>4. MergeNested(BodyOf(entry), p).args = Given(p.args, entry.args, NoArgs)
    BY DEF MergeNested, BodyOf
  <2>5. MergeNested(BodyOf(entry), p).opts
          = [k \in DOMAIN entry.opts |-> Given(p.opts[k], entry.opts[k], "unset")]
    BY DEF MergeNested, BodyOf
  <2>6. [k \in DOMAIN entry.opts |-> Given(p.opts[k], entry.opts[k], "unset")] \in Settings
    BY <2>2 DEF Settings, Given
  <2>. QED
    BY <1>1, <1>3, <2>2, <2>3, <2>4, <2>5, <2>6 DEF Given
<1>. QED
  BY <1>2, <1>3

-----------------------------------------------------------------------------
(* A run without compile.                                                  *)

LEMMA Wider ==
  ASSUME NEW S, NEW x, NEW y, NEW z, NEW s \in Seq(S)
  PROVE  LET T == S \cup {x, y, z}
         IN  s \in Seq(T) /\ <<x>> \in Seq(T) /\ s \o <<x>> \in Seq(T) /\ s \o <<>> \in Seq(T) /\ s \o <<>> = s
<1>. DEFINE T == S \cup {x, y, z}
<1>1. \A i \in 1 .. Len(s) : s[i] \in T
  OBVIOUS
<1>2. s = [i \in 1 .. Len(s) |-> s[i]] /\ Len(s) \in Nat
  OBVIOUS
<1>3. x \in T
  OBVIOUS
<1>. HIDE DEF T
<1>4. s \in Seq(T)
  BY <1>1, <1>2
<1>5. <<x>> \in Seq(T)
  BY <1>3
<1>. QED
  BY <1>4, <1>5 DEF T

LEMMA LastIsLast ==
  ASSUME NEW T, NEW command \in Seq(T), NEW switch \in T, NEW kinds, switch \in kinds
  PROVE  LastOf(command \o <<switch>>, kinds) = switch
<1>1. command \o <<switch>> = Append(command, switch)
  OBVIOUS
<1>2. Kept(Append(command, switch), kinds) = Append(Kept(command, kinds), switch)
  BY KeptAppend
<1>3. Kept(command, kinds) \in Seq(T)
  BY KeptElements
<1>. DEFINE kept == Kept(command, kinds)
<1>. HIDE DEF kept
<1>4. Append(kept, switch) # <<>> /\ Last(Append(kept, switch)) = switch
  BY <1>3 DEF Last, kept
<1>. QED
  BY <1>1, <1>2, <1>4 DEF LastOf, kept

\* What the server of a row is started with.
LEMMA RowIs ==
  ASSUME NEW run \in Conditions, NEW fw \in Frameworks, NEW mode
  PROVE  LET row == RowOf(run, fw, mode)
             r == ResolvedOf(run, fw)
         IN  /\ row.fw = fw /\ row.mode = mode /\ row.how = r.how /\ row.exception = r.exception
             /\ row.profile = r.profile.key
             /\ row.command = BuildServerCmd(fw, r.cfg, BoxOf(run).extra, BoxOf(run).compileOff)
             /\ row.opts = ServerOpts(fw, r.cfg, BoxOf(run).compileOff)
             /\ row.compile_disable = ServerEnv(r.cfg.env, BoxOf(run).compileOff)
             /\ row.figure = SpeedOf(r.profile)
<1>. DEFINE r == ResolvedOf(run, fw)
            host == BoxOf(run)
<1>. HIDE DEF r, host
<1>. QED
  BY DEF RowOf, Row, r, host

LEMMA CompileOffRow ==
  ASSUME NEW run \in Conditions, NEW row \in Artifact[run].rows
  PROVE  BoxOf(run).compileOff =>
           /\ row.compile_disable = "1"
           /\ row.fw = "vllm-omni" => LastOf(row.command, {"compile", "eager"}) = "eager"
           /\ row.fw = "fastvideo" => LastOf(row.command, {"compile", "no-compile"}) = "no-compile"
           /\ row.fw = "lightx2v" => row.opts.compile = "off"
<1>1. PICK fw \in Attempted(run), mode \in Told(run).modes : row = RowOf(run, fw, mode)
  BY ArtifactIs
<1>2. fw \in Frameworks
  BY ArtifactIs
<1>. DEFINE cfg == ResolvedOf(run, fw).cfg
<1>3. cfg.args \in Seq(STRING) /\ cfg.opts \in Settings
  BY <1>2, ResolvedIs, ConfigOf
<1>. DEFINE off == BoxOf(run).compileOff
            extra == BoxOf(run).extra
<1>4. /\ row.fw = fw /\ row.command = BuildServerCmd(fw, cfg, extra, off)
      /\ row.opts = ServerOpts(fw, cfg, off) /\ row.compile_disable = ServerEnv(cfg.env, off)
  <2>. DEFINE that == RowOf(run, fw, mode)
  <2>1. /\ that.fw = fw /\ that.command = BuildServerCmd(fw, cfg, extra, off)
        /\ that.opts = ServerOpts(fw, cfg, off) /\ that.compile_disable = ServerEnv(cfg.env, off)
    BY <1>2, RowIs
  <2>. QED
    BY <1>1, <2>1
<1>. HIDE DEF cfg
<1>. SUFFICES ASSUME off
              PROVE  /\ row.compile_disable = "1"
                     /\ row.fw = "vllm-omni" => LastOf(row.command, {"compile", "eager"}) = "eager"
                     /\ row.fw = "fastvideo" => LastOf(row.command, {"compile", "no-compile"}) = "no-compile"
                     /\ row.fw = "lightx2v" => row.opts.compile = "off"
  OBVIOUS
<1>9. off
  OBVIOUS
<1>. HIDE DEF off
<1>. DEFINE T == STRING \cup {"tp", "eager", "no-compile"}
<1>5. ASSUME fw = "vllm-omni" PROVE LastOf(row.command, {"compile", "eager"}) = "eager"
  <2>. DEFINE x == cfg.args \o Flag(cfg.gpus > 1 /\ ToSet(cfg.args) \cap ParallelArgs = {}, <<"tp">>)
  <2>1. x \in Seq(T)
    <3>. DEFINE args == cfg.args
    <3>. HIDE DEF args
    <3>1. args \o <<"tp">> \in Seq(T) /\ args \o <<>> \in Seq(T)
      BY <1>3, Wider DEF args
    <3>. QED
      BY <3>1 DEF Flag, args
  <2>2. row.command = x \o <<"eager">>
    BY <1>4, <1>5, <1>9 DEF BuildServerCmd, BuildVllmCmd, Flag
  <2>. HIDE DEF x
  <2>. QED
    BY <2>1, <2>2, LastIsLast
<1>6. ASSUME fw = "fastvideo" PROVE LastOf(row.command, {"compile", "no-compile"}) = "no-compile"
  <2>1. cfg.args \in Seq(T)
    BY <1>3, Wider
  <2>2. row.command = cfg.args \o <<"no-compile">>
    BY <1>4, <1>6, <1>9 DEF BuildServerCmd, BuildFastvideoCmd, Flag
  <2>. QED
    BY <2>1, <2>2, LastIsLast
<1>7. ASSUME fw = "lightx2v" PROVE row.opts.compile = "off"
  BY <1>3, <1>4, <1>7, <1>9 DEF ServerOpts, WriteLightx2vConfig, Settings
<1>8. row.compile_disable = "1"
  BY <1>4, <1>9 DEF ServerEnv
<1>. QED
  BY <1>4, <1>5, <1>6, <1>7, <1>8

-----------------------------------------------------------------------------
(* The policy.                                                             *)

LEMMA Joined ==
  ASSUME NEW S, NEW s \in Seq(S), NEW d \in Seq(S)
  PROVE  /\ s \o d \in Seq(S) /\ Len(s \o d) = Len(s) + Len(d) /\ Len(s) \in Nat /\ Len(d) \in Nat
         /\ \A i \in 1 .. Len(s) : (s \o d)[i] = s[i]
         /\ \A i \in 1 .. Len(d) : (s \o d)[Len(s) + i] = d[i]
<1>1. Len(s) \in Nat /\ Len(d) \in Nat /\ Len(s \o d) = Len(s) + Len(d) /\ s \o d \in Seq(S)
  OBVIOUS
<1>2. \A i \in 1 .. Len(s) : (s \o d)[i] = s[i]
  OBVIOUS
<1>3. \A i \in 1 .. Len(d) : (s \o d)[Len(s) + i] = d[i]
  OBVIOUS
<1>. QED
  BY <1>1, <1>2, <1>3

LEMMA JoinedSwitches ==
  ASSUME NEW S, NEW s \in Seq(S), NEW d \in Seq(S)
  PROVE  ToSet(s \o d) = ToSet(s) \cup ToSet(d)
<1>1. Len(s) \in Nat /\ Len(d) \in Nat /\ Len(s \o d) = Len(s) + Len(d) /\ s \o d \in Seq(S)
  BY Joined
<1>2. \A i \in 1 .. Len(s) : (s \o d)[i] = s[i]
  BY Joined
<1>3. \A i \in 1 .. Len(d) : (s \o d)[Len(s) + i] = d[i]
  BY Joined
<1>4. ToSet(s) \subseteq ToSet(s \o d)
  BY <1>1, <1>2 DEF ToSet
<1>5. ToSet(d) \subseteq ToSet(s \o d)
  <2>1. \A i \in 1 .. Len(d) : Len(s) + i \in 1 .. Len(s \o d)
    BY <1>1
  <2>2. ASSUME NEW i \in 1 .. Len(d) PROVE d[i] \in ToSet(s \o d)
    <3>1. Len(s) + i \in DOMAIN (s \o d)
      BY <1>1, <2>1
    <3>2. (s \o d)[Len(s) + i] \in ToSet(s \o d)
      BY <3>1 DEF ToSet
    <3>. QED
      BY <3>2, <1>3
  <2>3. DOMAIN d = 1 .. Len(d)
    OBVIOUS
  <2>. QED
    BY <2>2, <2>3 DEF ToSet
<1>6. ToSet(s \o d) \subseteq ToSet(s) \cup ToSet(d)
  <2>1. ASSUME NEW i \in 1 .. Len(s \o d) PROVE (s \o d)[i] \in ToSet(s) \cup ToSet(d)
    <3>1. CASE i \in 1 .. Len(s)
      BY <3>1, <1>2 DEF ToSet
    <3>2. CASE i \notin 1 .. Len(s)
      <4>1. i - Len(s) \in 1 .. Len(d) /\ i = Len(s) + (i - Len(s))
        BY <3>2, <1>1
      <4>2. (s \o d)[i] = d[i - Len(s)]
        BY <4>1, <1>3
      <4>. QED
        BY <4>1, <4>2 DEF ToSet
    <3>. QED
      BY <3>1, <3>2
  <2>. QED
    BY <1>1, <2>1 DEF ToSet
<1>. QED
  BY <1>4, <1>5, <1>6

LEMMA AddsOnly ==
  ASSUME NEW S, NEW args \in Seq(S), NEW w, NEW flag, flag = <<w>> \/ flag = <<>>
  PROVE  /\ ToSet(args) \subseteq ToSet(args \o flag)
         /\ ToSet(args \o flag) \subseteq ToSet(args) \cup {w}
         /\ ToSet(flag \o args) \subseteq ToSet(args) \cup {w}
<1>. DEFINE T == S \cup {w, w, w}
<1>1. args \in Seq(T) /\ <<w>> \in Seq(T) /\ <<>> \in Seq(T)
  <2>1. args \in Seq(T) /\ <<w>> \in Seq(T)
    BY Wider
  <2>. HIDE DEF T
  <2>2. <<>> \in Seq(T)
    OBVIOUS
  <2>. QED
    BY <2>1, <2>2
<1>. HIDE DEF T
<1>2. ToSet(<<w>>) = {w} /\ ToSet(<<>>) = {}
  BY DEF ToSet
<1>3. flag \in Seq(T) /\ ToSet(flag) \subseteq {w}
  BY <1>1, <1>2
<1>4. ToSet(args \o flag) = ToSet(args) \cup ToSet(flag) /\ ToSet(flag \o args) = ToSet(args) \cup ToSet(flag)
  <2>1. \A s, d \in Seq(T) : ToSet(s \o d) = ToSet(s) \cup ToSet(d)
    BY JoinedSwitches
  <2>. QED
    BY <1>1, <1>3, <2>1
<1>. QED
  BY <1>3, <1>4

\* sglang's command: its arguments, those the environment adds, and nothing
\* that the policy forbids.
LEMMA SglangCommand ==
  ASSUME NEW cfg, cfg.args \in Seq(STRING), NEW extra \in Seq(STRING)
  PROVE  ToSet(BuildSglangCmd(cfg, extra))
           \subseteq (ToSet(cfg.args) \cup ToSet(extra)) \cup {"num-gpus", "backend-sglang"}
<1>. DEFINE args == cfg.args
            more == <<"num-gpus">>
            one == <<"backend-sglang">>
            T == STRING \cup {"num-gpus", "backend-sglang", "none"}
<1>1. args \in Seq(T) /\ extra \in Seq(T) /\ more \in Seq(T) /\ one \in Seq(T) /\ <<>> \in Seq(T)
  <2>. HIDE DEF args
  <2>1. args \in Seq(T) /\ extra \in Seq(T) /\ more \in Seq(T)
    BY Wider DEF args
  <2>2. one \in Seq(STRING \cup {"backend-sglang", "num-gpus", "none"})
    BY <2>1, Wider
  <2>3. STRING \cup {"backend-sglang", "num-gpus", "none"} = T
    OBVIOUS
  <2>. HIDE DEF T
  <2>4. <<>> \in Seq(T)
    OBVIOUS
  <2>. QED
    BY <2>1, <2>2, <2>3, <2>4
<1>. HIDE DEF T
<1>2. PICK flag : (flag = more \/ flag = <<>>) /\ BuildSglangCmd(cfg, extra) = ((one \o flag) \o args) \o extra
  <2>1. CASE cfg.gpus > 1
    BY <2>1 DEF BuildSglangCmd, Flag
  <2>2. CASE ~ (cfg.gpus > 1)
    BY <2>2 DEF BuildSglangCmd, Flag
  <2>. QED
    BY <2>1, <2>2
<1>3. ToSet(one) = {"backend-sglang"} /\ ToSet(flag) \subseteq {"num-gpus"}
  BY <1>2 DEF ToSet
<1>. HIDE DEF one, more, args
<1>5. flag \in Seq(T)
  BY <1>1, <1>2
<1>6. /\ ToSet((one \o flag) \o args) = (ToSet(one) \cup ToSet(flag)) \cup ToSet(args)
      /\ (one \o flag) \o args \in Seq(T)
  <2>1. one \o flag \in Seq(T)
    BY <1>1, <1>5
  <2>2. \A s, d \in Seq(T) : ToSet(s \o d) = ToSet(s) \cup ToSet(d)
    BY JoinedSwitches
  <2>3. ToSet(one \o flag) = ToSet(one) \cup ToSet(flag)
    BY <1>1, <1>5, <2>2
  <2>. DEFINE head == one \o flag
  <2>. HIDE DEF head
  <2>4. ToSet(head \o args) = ToSet(head) \cup ToSet(args)
    BY <1>1, <2>1, <2>2 DEF head
  <2>5. head \o args \in Seq(T)
    BY <1>1, <2>1 DEF head
  <2>. QED
    BY <2>3, <2>4, <2>5 DEF head
<1>7. ToSet(BuildSglangCmd(cfg, extra)) = ((ToSet(one) \cup ToSet(flag)) \cup ToSet(args)) \cup ToSet(extra)
  <2>. DEFINE most == (one \o flag) \o args
  <2>1. most \in Seq(T) /\ ToSet(most) = (ToSet(one) \cup ToSet(flag)) \cup ToSet(args)
    BY <1>6
  <2>2. BuildSglangCmd(cfg, extra) = most \o extra
    BY <1>2
  <2>. HIDE DEF most
  <2>3. ToSet(most \o extra) = ToSet(most) \cup ToSet(extra)
    BY <1>1, <2>1, JoinedSwitches
  <2>. QED
    BY <2>1, <2>2, <2>3
<1>8. ((ToSet(one) \cup ToSet(flag)) \cup ToSet(args)) \cup ToSet(extra)
        \subseteq (ToSet(args) \cup ToSet(extra)) \cup {"num-gpus", "backend-sglang"}
  BY <1>3
<1>. QED
  BY <1>7, <1>8 DEF args

LEMMA SelectedThere ==
  ASSUME NEW run \in Conditions, ~ Artifact[run].raises, NEW fw \in Attempted(run),
         ResolvedOf(run, fw).how # "explicit",
         Len(RunCandidates(BoxOf(run))) = 1,
         RunCandidates(BoxOf(run))[1] \in ToSet(POLICY_HARDWARE)
  PROVE  LET hw == RunCandidates(BoxOf(run))[1]
             entry == EntryOf(run, fw)
         IN  /\ ResolvedOf(run, fw).profile = SelectedOn(entry, hw)
             /\ Supported(run, fw) => ResolveStatus(entry, GuardCandidates(ClassBox(hw))) = "supported"
<1>. DEFINE candidates == RunCandidates(BoxOf(run))
            hw == candidates[1]
            entry == EntryOf(run, fw)
            r == ResolvedOf(run, fw)
<1>1. fw \in Frameworks /\ run.config \in Passing
  BY ArtifactIs
<1>2. candidates \in Seq(Tokens) /\ Len(candidates) = 1
  BY Candidates
<1>3. hw \in ToSet(POLICY_HARDWARE)
  OBVIOUS
<1>4. r.how # "unknown"
  BY ArtifactIs
<1>5. AskedFor(run, fw) = NoName \/ entry.profiles = <<>>
  BY <1>1, <1>4, ResolvedIs
<1>6. r.profile = SelectProfile(entry.profiles, candidates)
  <2>1. CASE AskedFor(run, fw) = NoName
    BY <1>1, <2>1, ResolvedIs
  <2>2. CASE entry.profiles = <<>>
    <3>1. r.profile = NoProfile
      BY <1>1, <2>2, ResolvedIs
    <3>2. entry.profiles \in Seq(CommandProfile)
      BY <1>1, PassingIs DEF EntryOf, IsEntry
    <3>3. SelectProfile(entry.profiles, candidates) = NoProfile
      BY <2>2, <3>2, SelectedIs
    <3>. QED
      BY <3>1, <3>3
  <2>. QED
    BY <1>5, <2>1, <2>2
<1>7. StatusOn(Config[run.config], fw, candidates) = ResolveStatus(entry, candidates)
  BY <1>1, <1>2, StatusIs DEF EntryOf
<1>. HIDE DEF candidates
<1>8. candidates = <<hw>>
  BY <1>2
<1>9. GuardCandidates(ClassBox(hw)) = candidates
  BY <1>3, <1>8, ClassBoxAssumption
<1>. QED
  BY <1>6, <1>7, <1>9 DEF SelectedOn, Supported, BoxOf, candidates

LEMMA SglangPolicy ==
  ASSUME NEW run \in Conditions, ~ Artifact[run].raises, NEW fw \in Attempted(run), NEW mode,
         fw = "sglang",
         ResolvedOf(run, fw).how # "explicit", ResolvedOf(run, fw).exception # "dated",
         Len(RunCandidates(BoxOf(run))) = 1,
         RunCandidates(BoxOf(run))[1] \in ToSet(POLICY_HARDWARE),
         Supported(run, fw)
  PROVE  \/ ~ SglangFinds([args |-> RowOf(run, fw, mode).command])
         \/ SglangFinds([args |-> BoxOf(run).extra])
<1>. DEFINE hw == RunCandidates(BoxOf(run))[1]
            entry == EntryOf(run, fw)
            r == ResolvedOf(run, fw)
            p == r.profile
            extra == BoxOf(run).extra
            command == RowOf(run, fw, mode).command
<1>1. fw \in Frameworks /\ run.config \in Passing /\ IsPublished(entry)
  BY ArtifactIs
<1>2. p = SelectedOn(entry, hw) /\ ResolveStatus(entry, GuardCandidates(ClassBox(hw))) = "supported"
  BY SelectedThere
<1>3. entry.profiles # <<>> /\ \A q \in ToSet(entry.profiles) : q.args # NoArgs
  BY <1>1, PassingIs, CatalogAssumption DEF EntryOf
<1>4. entry.profiles \in Seq(CommandProfile)
  BY <1>1, PassingIs DEF EntryOf, IsEntry
<1>5. p \in ToSet(entry.profiles) /\ p \in CommandProfile
  <2>1. p \in ToSet(entry.profiles)
    BY <1>2, <1>3, <1>4, SelectedIs DEF SelectedOn
  <2>. QED
    BY <1>4, <2>1 DEF ToSet
<1>6. p.args # NoArgs /\ p.key # NoProfile.key /\ p # NoProfile /\ p.exception \in Exceptions /\ p.args \in Seq(STRING)
  <2>1. p.key # NoProfile.key /\ p.exception \in Exceptions /\ p.args \in Seq(STRING)
    BY <1>5 DEF CommandProfile
  <2>. QED
    BY <1>3, <1>5, <2>1
<1>7. LintSglangPolicy(entry) = {}
  BY <1>1, PassingIs DEF EntryOf, BuildPasses, PolicyHolds
<1>8. ~ Refused(p)
  BY <1>2, <1>3, <1>7 DEF LintSglangPolicy
<1>9. r.cfg = ResolvedConfig(BodyOf(entry), p) /\ r.exception = ExceptionOf(BodyOf(entry), p)
  BY <1>1, ResolvedIs
<1>10. p.exception = "none" /\ "compile" \notin ToSet(p.args) /\ "offload" \notin ToSet(p.args)
  <2>1. r.exception = p.exception
    BY <1>6, <1>9 DEF ExceptionOf
  <2>. HIDE DEF p, r
  <2>. QED
    BY <1>6, <1>8, <2>1 DEF Refused, SglangFinds, Has, Exceptions, r
<1>11. r.cfg.args = p.args
  <2>1. IsEntry(entry)
    BY <1>1, ResolvedIs
  <2>. QED
    BY <1>5, <1>6, <1>9, <2>1, ConfigOf DEF Given
<1>12. command = BuildSglangCmd(r.cfg, extra)
  <2>1. command = BuildServerCmd(fw, r.cfg, extra, BoxOf(run).compileOff)
    BY <1>1, RowIs
  <2>. HIDE DEF command, r
  <2>. QED
    BY <2>1 DEF BuildServerCmd
<1>15. extra \in Seq(STRING)
  BY ConfigLifeAssumption DEF BoxOf, IsBox, Conditions, Told
<1>. HIDE DEF command, extra
<1>13. ToSet(command) \subseteq (ToSet(p.args) \cup ToSet(extra)) \cup {"num-gpus", "backend-sglang"}
  <2>. DEFINE cfg == r.cfg
  <2>1. cfg.args \in Seq(STRING) /\ cfg.args = p.args /\ command = BuildSglangCmd(cfg, extra)
    BY <1>6, <1>11, <1>12
  <2>. HIDE DEF cfg, p
  <2>2. ToSet(BuildSglangCmd(cfg, extra))
          \subseteq (ToSet(cfg.args) \cup ToSet(extra)) \cup {"num-gpus", "backend-sglang"}
    BY <1>15, <2>1, SglangCommand
  <2>. QED
    BY <2>1, <2>2
<1>14. \A switch \in {"compile", "offload"} : switch \in ToSet(command) => switch \in ToSet(extra)
  BY <1>10, <1>13
<1>. QED
  BY <1>14 DEF SglangFinds, Has, command, extra

\* What a competitor is started with, where it may compile: what its resolved
\* settings find fault with, the lint of them has found.
LEMMA CompetitorCommand ==
  ASSUME NEW fw \in Frameworks \ {"sglang"}, NEW cfg, cfg.args \in Seq(STRING), cfg.opts \in Settings,
         NEW extra, ~ CompetitorFinds(fw, cfg)
  PROVE  ~ CompetitorFinds(fw, [args |-> BuildServerCmd(fw, cfg, extra, FALSE), opts |-> ServerOpts(fw, cfg, FALSE)])
<1>. DEFINE command == BuildServerCmd(fw, cfg, extra, FALSE)
            opts == ServerOpts(fw, cfg, FALSE)
<1>1. SUFFICES ~ CompetitorFinds(fw, [args |-> command, opts |-> opts])
  OBVIOUS
<1>. HIDE DEF command, opts
<1>2. fw \in {"vllm-omni", "lightx2v", "trtllm-visual", "comfyui", "fastvideo"}
  BY BenchConfigAssumption
<1>3. CASE fw = "vllm-omni"
  <2>1. PICK flag : (flag = <<"tp">> \/ flag = <<>>) /\ command = (cfg.args \o flag) \o <<>>
    <3>1. CASE cfg.gpus > 1 /\ ToSet(cfg.args) \cap ParallelArgs = {}
      BY <1>3, <3>1 DEF BuildServerCmd, BuildVllmCmd, Flag, command
    <3>2. CASE ~ (cfg.gpus > 1 /\ ToSet(cfg.args) \cap ParallelArgs = {})
      BY <1>3, <3>2 DEF BuildServerCmd, BuildVllmCmd, Flag, command
    <3>. QED
      BY <3>1, <3>2
  <2>2. ToSet(cfg.args \o flag) \subseteq ToSet(cfg.args) \cup {"tp"}
    BY <2>1, AddsOnly
  <2>3. command = cfg.args \o flag
    <3>. DEFINE args == cfg.args
                T == STRING \cup {"tp", "eager", "compile"}
    <3>1. args \o <<"tp">> \in Seq(T) /\ args \o <<>> \in Seq(T)
      <4>. HIDE DEF args
      <4>. QED
        BY Wider DEF args
    <3>. HIDE DEF args, T
    <3>2. args \o flag \in Seq(T)
      BY <2>1, <3>1
    <3>. DEFINE head == args \o flag
    <3>. HIDE DEF head
    <3>3. head \o <<>> = head
      BY <3>2 DEF head
    <3>. QED
      BY <2>1, <3>3 DEF args, head
  <2>4. "eager" \notin ToSet(cfg.args) /\ "offload" \notin ToSet(cfg.args)
    BY <1>3 DEF CompetitorFinds, Has
  <2>5. "eager" \notin ToSet(command) /\ "offload" \notin ToSet(command)
    BY <2>2, <2>3, <2>4
  <2>. QED
    BY <1>3, <2>5 DEF CompetitorFinds, Has
<1>4. CASE fw = "lightx2v"
  <2>1. opts = [cfg.opts EXCEPT !.compile = Given(@, "on", "unset")]
    BY <1>4 DEF ServerOpts, WriteLightx2vConfig, opts
  <2>2. opts.compile # "off" /\ opts.offload # "on"
    BY <1>4, <2>1 DEF CompetitorFinds, Settings, Given
  <2>. QED
    BY <1>4, <2>2 DEF CompetitorFinds
<1>5. CASE fw = "trtllm-visual"
  <2>1. opts = cfg.opts
    BY <1>5 DEF ServerOpts, opts
  <2>. QED
    BY <1>5, <2>1 DEF CompetitorFinds
<1>6. CASE fw = "comfyui"
  <2>1. opts = cfg.opts /\ command = cfg.args
    BY <1>6 DEF ServerOpts, BuildServerCmd, opts, command
  <2>. QED
    BY <1>6, <2>1 DEF CompetitorFinds, Has
<1>7. CASE fw = "fastvideo"
  <2>1. command = cfg.args
    <3>1. command = cfg.args \o <<>>
      BY <1>7 DEF BuildServerCmd, BuildFastvideoCmd, Flag, command
    <3>. QED
      BY <3>1, Wider
  <2>. QED
    BY <1>7, <2>1 DEF CompetitorFinds, Has
<1>. QED
  BY <1>2, <1>3, <1>4, <1>5, <1>6, <1>7

LEMMA CompetitorPolicy ==
  ASSUME NEW run \in Conditions, ~ Artifact[run].raises, NEW fw \in Attempted(run) \ {"sglang"}, NEW mode,
         ResolvedOf(run, fw).how # "explicit", ResolvedOf(run, fw).exception # "dated",
         <<fw, ResolvedOf(run, fw).profile.key>> \notin KnownViolations,
         Len(RunCandidates(BoxOf(run))) = 1,
         RunCandidates(BoxOf(run))[1] \in ToSet(DATACENTER_HARDWARE),
         Supported(run, fw), BoxOf(run).compileOff = FALSE
  PROVE  ~ CompetitorFinds(fw, [args |-> RowOf(run, fw, mode).command, opts |-> RowOf(run, fw, mode).opts])
<1>. DEFINE hw == RunCandidates(BoxOf(run))[1]
            entry == EntryOf(run, fw)
            r == ResolvedOf(run, fw)
            p == r.profile
            row == RowOf(run, fw, mode)
<1>1. fw \in Frameworks /\ fw # "sglang" /\ run.config \in Passing /\ IsPublished(entry)
  BY ArtifactIs
<1>2. hw \in ToSet(POLICY_HARDWARE)
  <2>1. DATACENTER_HARDWARE \in Seq(Tokens) /\ <<"rtx5090", "rtx4090">> \in Seq(Tokens)
    BY DEF DATACENTER_HARDWARE, Tokens, HARDWARE_PROFILE_TOKENS, ToSet
  <2>. DEFINE cards == DATACENTER_HARDWARE
              more == <<"rtx5090", "rtx4090">>
  <2>2. POLICY_HARDWARE = cards \o more
    BY DEF POLICY_HARDWARE
  <2>. HIDE DEF cards, more
  <2>. cards \in Seq(Tokens) /\ more \in Seq(Tokens)
    BY <2>1 DEF cards, more
  <2>3. ToSet(cards \o more) = ToSet(cards) \cup ToSet(more)
    BY JoinedSwitches
  <2>. QED
    BY <2>2, <2>3 DEF cards
<1>3. p = SelectedOn(entry, hw) /\ hw \in PolicedClasses(entry)
  BY <1>2, SelectedThere DEF PolicedClasses
<1>4. ~ UndatedException(entry) /\ CompetitorViolations(fw, entry) \subseteq KnownViolations
  <2>1. BuildPasses(Catalog[run.config]) /\ entry = Catalog[run.config][fw]
    BY <1>1, PassingIs DEF EntryOf
  <2>2. fw \in Competitors(Catalog[run.config])
    BY <1>1, <2>1 DEF Competitors
  <2>. QED
    BY <2>1, <2>2 DEF BuildPasses, PolicyHolds
<1>5. r.cfg = ResolvedConfig(BodyOf(entry), p) /\ r.exception = ExceptionOf(BodyOf(entry), p)
  BY <1>1, ResolvedIs
<1>6. IsEntry(entry) /\ (p = NoProfile \/ p \in CommandProfile)
  BY <1>1, ResolvedIs
<1>. HIDE DEF r
<1>7. ExceptionOf(BodyOf(entry), p) = ExceptionOf(entry, p) /\ ExceptionOf(entry, p) \in Exceptions
  BY <1>6 DEF ExceptionOf, BodyOf, IsEntry, CommandProfile, NoProfile
<1>8. ExceptionOf(entry, p) = "none"
  <2>1. ExceptionOf(entry, p) # "undated"
    BY <1>3, <1>4 DEF UndatedException
  <2>. QED
    BY <1>5, <1>7, <2>1 DEF Exceptions, r
<1>9. ~ CompetitorFinds(fw, ResolvedConfig(entry, p))
  <2>1. <<fw, p.key>> \notin CompetitorViolations(fw, entry)
    BY <1>4 DEF r
  <2>. QED
    BY <1>3, <1>8, <2>1 DEF CompetitorViolations
<1>10. ResolvedConfig(BodyOf(entry), p) = ResolvedConfig(entry, p)
  BY DEF ResolvedConfig, MergeNested, BodyOf
<1>11. r.cfg.args \in Seq(STRING) /\ r.cfg.opts \in Settings
  BY <1>5, <1>6, ConfigOf
<1>12. row.command = BuildServerCmd(fw, r.cfg, BoxOf(run).extra, FALSE) /\ row.opts = ServerOpts(fw, r.cfg, FALSE)
  <2>. DEFINE off == BoxOf(run).compileOff
  <2>1. row.command = BuildServerCmd(fw, r.cfg, BoxOf(run).extra, off) /\ row.opts = ServerOpts(fw, r.cfg, off)
    BY <1>1, RowIs DEF r
  <2>2. off = FALSE
    OBVIOUS
  <2>. HIDE DEF off, row
  <2>. QED
    BY <2>1, <2>2
<1>. HIDE DEF row
<1>13. ~ CompetitorFinds(fw, [args |-> BuildServerCmd(fw, r.cfg, BoxOf(run).extra, FALSE), opts |-> ServerOpts(fw, r.cfg, FALSE)])
  BY <1>1, <1>5, <1>9, <1>10, <1>11, CompetitorCommand
<1>. QED
  BY <1>12, <1>13 DEF row

LEMMA PolicyRow ==
  ASSUME NEW run \in Conditions, ~ Artifact[run].raises, NEW row \in Artifact[run].rows,
         Len(RunCandidates(BoxOf(run))) = 1
  PROVE  RowIsAllowed(run, row)
<1>1. PICK fw \in Attempted(run), mode \in Told(run).modes : row = RowOf(run, fw, mode)
  BY ArtifactIs
<1>2. fw \in Frameworks
  BY ArtifactIs
<1>3. /\ row.fw = fw /\ row.how = ResolvedOf(run, fw).how /\ row.exception = ResolvedOf(run, fw).exception
      /\ row.profile = ResolvedOf(run, fw).profile.key
  BY <1>1, <1>2, RowIs
<1>. SUFFICES ASSUME row.how # "explicit", row.exception # "dated",
                     <<row.fw, row.profile>> \notin KnownViolations, Supported(run, row.fw)
              PROVE  LET host == Told(run).box IN
                     IF row.fw = "sglang"
                     THEN RunCandidates(host)[1] \in ToSet(POLICY_HARDWARE) =>
                              ~ SglangFinds([args |-> row.command]) \/ SglangFinds([args |-> host.extra])
                     ELSE RunCandidates(host)[1] \in ToSet(DATACENTER_HARDWARE) /\ ~ host.compileOff =>
                              ~ CompetitorFinds(row.fw, [args |-> row.command, opts |-> row.opts])
  BY DEF RowIsAllowed
<1>4. CASE fw = "sglang"
  <2>1. SUFFICES ASSUME RunCandidates(BoxOf(run))[1] \in ToSet(POLICY_HARDWARE)
                 PROVE  ~ SglangFinds([args |-> row.command]) \/ SglangFinds([args |-> BoxOf(run).extra])
    BY <1>3, <1>4 DEF BoxOf
  <2>2. ~ SglangFinds([args |-> RowOf(run, fw, mode).command]) \/ SglangFinds([args |-> BoxOf(run).extra])
    BY <1>3, <1>4, <2>1, SglangPolicy
  <2>. QED
    BY <1>1, <2>2
<1>5. CASE fw # "sglang"
  <2>1. SUFFICES ASSUME RunCandidates(BoxOf(run))[1] \in ToSet(DATACENTER_HARDWARE), BoxOf(run).compileOff = FALSE
                 PROVE  ~ CompetitorFinds(row.fw, [args |-> row.command, opts |-> row.opts])
    <3>1. BoxOf(run).compileOff \in BOOLEAN
      BY ConfigLifeAssumption DEF BoxOf, IsBox, Conditions, Told
    <3>. QED
      BY <1>3, <1>5, <3>1 DEF BoxOf
  <2>2. ~ CompetitorFinds(fw, [args |-> RowOf(run, fw, mode).command, opts |-> RowOf(run, fw, mode).opts])
    BY <1>3, <1>5, <2>1, CompetitorPolicy
  <2>. QED
    BY <1>1, <1>3, <2>2
<1>. QED
  BY <1>4, <1>5

-----------------------------------------------------------------------------
(* What every state of the case's life satisfies.                          *)

IsRun(run) == run \in Conditions /\ ~ Artifact[run].raises

IsRunList(runs) == runs \in RunLists /\ \A i \in 1 .. Len(runs) : IsRun(runs[i])

Files == source \in DOMAIN Catalog /\ editable \in Passing /\ packaged \in Passing

Runs ==
  /\ artifacts \in Seq(Conditions) /\ Len(artifacts) <= MaxRuns
  /\ \A i \in 1 .. Len(artifacts) : IsRun(artifacts[i])

Attempt ==
  \/ attempt = <<>>
  \/ attempt.config \in Passing /\ attempt.run \in RunIds /\ IsRunList(attempt.runs)

LifeInv == Files /\ Runs /\ Attempt

LEMMA RunsAreListed ==
  ASSUME NEW runs \in Seq(Conditions), runs # <<>>, Len(runs) <= MaxRuns
  PROVE  runs \in RunLists /\ Len(runs) \in 1 .. MaxRuns
<1>1. MaxRuns \in Nat
  BY ConfigLifeAssumption
<1>2. Len(runs) \in 1 .. MaxRuns /\ runs \in [1 .. Len(runs) -> Conditions]
  BY <1>1
<1>. QED
  BY <1>2 DEF RunLists

LEMMA ListedRuns ==
  ASSUME NEW runs \in RunLists
  PROVE  runs \in Seq(Conditions) /\ Len(runs) \in 1 .. MaxRuns /\ Len(runs) >= 1
<1>1. PICK k \in 1 .. MaxRuns : runs \in [1 .. k -> Conditions]
  BY DEF RunLists
<1>2. k \in Nat /\ k >= 1
  BY <1>1, ConfigLifeAssumption
<1>. QED
  BY <1>1, <1>2

LEMMA LifeInductive == LifeSpec => []LifeInv
<1>1. LifeInit => LifeInv
  <2>1. SUFFICES ASSUME LifeInit PROVE LifeInv
    OBVIOUS
  <2>2. Files
    BY <2>1, PassingIs DEF LifeInit, Files
  <2>3. Runs
    BY <2>1, ConfigLifeAssumption DEF LifeInit, Runs
  <2>4. Attempt
    BY <2>1 DEF LifeInit, Attempt
  <2>. QED
    BY <2>2, <2>3, <2>4 DEF LifeInv
<1>2. LifeInv /\ [LifeNext]_lifeVars => LifeInv'
  <2>1. SUFFICES ASSUME LifeInv, [LifeNext]_lifeVars PROVE LifeInv'
    OBVIOUS
  <2>. USE <2>1 DEF LifeInv
  <2>2. Files'
    <3>1. UNCHANGED <<source, editable, packaged>> => Files'
      BY DEF Files
    <3>2. ASSUME NEW s \in DOMAIN Catalog, Edit(s) PROVE Files'
      BY <3>2 DEF Edit, Files
    <3>3. CASE BuildWritesEditable
      BY <3>3 DEF BuildWritesEditable, Files
    <3>4. CASE BuildWritesPackaged
      BY <3>4 DEF BuildWritesPackaged, Files
    <3>. QED
      BY <3>1, <3>2, <3>3, <3>4 DEF LifeNext, lifeVars, built, BuildDies, RunComparison,
         MergeAndPublish, WriteLatest, PublisherDies
  <2>3. Runs'
    <3>1. UNCHANGED artifacts => Runs'
      BY DEF Runs
    <3>2. ASSUME NEW c \in Conditions, RunComparison(c) PROVE Runs'
      <4>1. IsRun(c) /\ artifacts' = Append(artifacts, c) /\ Len(artifacts) < MaxRuns /\ MaxRuns \in Nat
        BY <3>2, ConfigLifeAssumption DEF RunComparison, IsRun
      <4>. QED
        BY <4>1 DEF Runs
    <3>. QED
      BY <3>1, <3>2 DEF LifeNext, lifeVars, built, page, Edit, BuildWritesEditable, BuildWritesPackaged,
         BuildDies, MergeAndPublish, WriteLatest, PublisherDies
  <2>4. Attempt'
    <3>1. UNCHANGED attempt \/ NoAttempt => Attempt'
      BY DEF Attempt, NoAttempt
    <3>2. ASSUME NEW run \in RunIds, NEW keepLatest \in BOOLEAN, MergeAndPublish(run, keepLatest) PROVE Attempt'
      <4>1. /\ artifacts # <<>> /\ attempt' = [config |-> editable, run |-> run, runs |-> artifacts]
        BY <3>2 DEF MergeAndPublish
      <4>2. IsRunList(artifacts) /\ editable \in Passing
        BY <4>1, RunsAreListed DEF Runs, Files, IsRunList
      <4>3. attempt'.config = editable /\ attempt'.run = run /\ attempt'.runs = artifacts
        BY <4>1
      <4>. QED
        BY <4>2, <4>3 DEF Attempt
    <3>. QED
      BY <3>1, <3>2 DEF LifeNext, lifeVars, Edit, BuildWritesEditable, BuildWritesPackaged,
         BuildDies, RunComparison, WriteLatest, PublisherDies
  <2>. QED
    BY <2>2, <2>3, <2>4
<1>. QED
  BY <1>1, <1>2, PTL DEF LifeSpec

\* On a box of one class that the policy names, the rows ran what the policy
\* allows but for the box's own extra arguments, whatever was edited and built
\* when: build_benchmark_config.py polices the profile that run_comparison.py
\* selects.
THEOREM PolicyOnBoxAlways == LifeSpec => []PolicyOnBox
<1>1. LifeInv => PolicyOnBox
  BY PolicyRow DEF LifeInv, Runs, IsRun, PolicyOnBox, BoxOf
<1>. QED
  BY <1>1, LifeInductive, PTL

\* With the switch of run_comparison.py that turns compile off, no command,
\* setting or environment of a row compiles.
THEOREM CompileOffAlways == LifeSpec => []CompileOffEverywhere
<1>1. LifeInv => CompileOffEverywhere
  BY CompileOffRow DEF LifeInv, Runs, IsRun, CompileOffEverywhere, BoxOf
<1>. QED
  BY <1>1, LifeInductive, PTL

-----------------------------------------------------------------------------
(* The merge of some runs.                                                 *)

LEMMA PublicationIs ==
  ASSUME NEW config \in Passing, NEW runs \in RunLists
  PROVE  LET now == PublicationUnder[config][runs]
             merged == MergeResults(Loaded(runs))
         IN  /\ now.merged = merged
             /\ now.drift = VerifyMergedCommands(merged, Config[config], GateCandidates(Loaded(runs)))
             /\ \A run \in RunIds : now.sections[run] = BuildSections(run, merged, Config[config])
             /\ merged.results = MergeEntries(Loaded(runs), "single_e2e")
             /\ merged.throughput = MergeEntries(Loaded(runs), "throughput")
             /\ merged.hardware = Hardware(BoxOf(runs[Len(runs)]))
<1>. DEFINE now == PublicationUnder[config][runs]
            loaded == Loaded(runs)
            merged == MergeResults(loaded)
<1>1. now = Published(loaded, merged, Config[config])
  <2>1. now = PublishedOf(loaded, Config[config])
    BY DEF PublicationUnder
  <2>. QED
    BY <2>1 DEF PublishedOf
<1>2. runs \in Seq(Conditions) /\ Len(runs) \in 1 .. Len(runs)
  BY ListedRuns
<1>3. loaded \in [1 .. Len(runs) -> {Artifact[c] : c \in Conditions}] /\ Len(loaded) = Len(runs)
      /\ loaded[Len(runs)] = Artifact[runs[Len(runs)]]
  BY <1>2 DEF Loaded
<1>4. Artifact[runs[Len(runs)]].hardware = Hardware(BoxOf(runs[Len(runs)]))
  BY <1>2, ArtifactIs
<1>. HIDE DEF loaded
<1>5. /\ merged.results = MergeEntries(loaded, "single_e2e")
      /\ merged.throughput = MergeEntries(loaded, "throughput")
      /\ merged.hardware = loaded[Len(loaded)].hardware
  BY DEF MergeResults
<1>. HIDE DEF merged, now
<1>6. /\ now.merged = merged
      /\ now.drift = VerifyMergedCommands(merged, Config[config], GateCandidates(loaded))
      /\ \A run \in RunIds : now.sections[run] = BuildSections(run, merged, Config[config])
  BY <1>1 DEF Published
<1>. QED
  BY <1>3, <1>4, <1>5, <1>6 DEF loaded, merged, now

LEMMA LoadedIs ==
  ASSUME NEW runs \in Seq(Conditions)
  PROVE  Len(Loaded(runs)) = Len(runs) /\ \A i \in 1 .. Len(runs) : Loaded(runs)[i] = Artifact[runs[i]]
BY DEF Loaded

\* The merged rows are rows of the runs, and one of every framework that has any.
LEMMA MergedRows ==
  ASSUME NEW runs \in Seq(Conditions), NEW mode
  PROVE  /\ \A row \in MergeEntries(Loaded(runs), mode) :
              \E i \in 1 .. Len(runs) : row \in Artifact[runs[i]].rows /\ row.mode = mode
         /\ \A i \in 1 .. Len(runs) : \A row \in Artifact[runs[i]].rows :
              row.mode = mode /\ row.fw \in Frameworks =>
                \E kept \in MergeEntries(Loaded(runs), mode) : kept.fw = row.fw
<1>. DEFINE loaded == Loaded(runs)
            has(fw) == {i \in 1 .. Len(loaded) : \E row \in RowsOf(loaded[i], mode) : row.fw = fw}
            last(fw) == CHOOSE i \in has(fw) : \A j \in has(fw) : j <= i
            the(fw) == CHOOSE row \in RowsOf(loaded[last(fw)], mode) : row.fw = fw
<1>1. Len(loaded) = Len(runs) /\ Len(runs) \in Nat /\ \A i \in 1 .. Len(runs) : loaded[i] = Artifact[runs[i]]
  BY LoadedIs
<1>2. MergeEntries(loaded, mode) = {the(fw) : fw \in {f \in Frameworks : has(f) # {}}}
  BY DEF MergeEntries
<1>. HIDE DEF loaded
<1>3. ASSUME NEW fw, has(fw) # {}
      PROVE  last(fw) \in 1 .. Len(runs) /\ the(fw) \in RowsOf(loaded[last(fw)], mode) /\ the(fw).fw = fw
  <2>. DEFINE S == has(fw)
              T == {k \in Nat : \A j \in S : j <= k}
  <2>1. S \subseteq 1 .. Len(runs)
    BY <1>1
  <2>2. Len(runs) \in T
    BY <1>1, <2>1
  <2>3. PICK k \in T : \A y \in T : k <= y
    <3>. HIDE DEF T
    <3>1. T \subseteq Nat
      BY DEF T
    <3>. QED
      BY <2>2, <3>1, LeastNumber
  <2>4. k \in S
    <3>. SUFFICES ASSUME k \notin S PROVE FALSE
      OBVIOUS
    <3>. HIDE DEF S
    <3>1. \A j \in S : j < k /\ j >= 1
      BY <2>1, <2>3, <1>1
    <3>2. k - 1 \in T
      BY <1>3, <2>1, <2>3, <3>1 DEF S
    <3>. QED
      BY <2>3, <3>2
  <2>5. \E i \in S : \A j \in S : j <= i
    BY <2>3, <2>4
  <2>6. last(fw) \in S
    <3>. HIDE DEF S
    <3>. QED
      BY <2>5 DEF S
  <2>7. \E row \in RowsOf(loaded[last(fw)], mode) : row.fw = fw
    BY <2>6
  <2>. HIDE DEF last
  <2>. QED
    BY <2>1, <2>6, <2>7
<1>. HIDE DEF the, last
<1>4. ASSUME NEW row \in MergeEntries(loaded, mode)
      PROVE  \E i \in 1 .. Len(runs) : row \in Artifact[runs[i]].rows /\ row.mode = mode
  <2>1. PICK fw \in Frameworks : has(fw) # {} /\ row = the(fw)
    BY <1>2
  <2>. QED
    BY <1>1, <1>3, <2>1 DEF RowsOf
<1>5. ASSUME NEW i \in 1 .. Len(runs), NEW row \in Artifact[runs[i]].rows, row.mode = mode, row.fw \in Frameworks
      PROVE  \E kept \in MergeEntries(loaded, mode) : kept.fw = row.fw
  <2>1. i \in has(row.fw)
    BY <1>1, <1>5 DEF RowsOf
  <2>2. the(row.fw) \in MergeEntries(loaded, mode)
    BY <1>2, <1>5, <2>1
  <2>. QED
    BY <1>3, <2>1, <2>2
<1>. QED
  BY <1>4, <1>5 DEF loaded

\* Without the environment variable, an artifact tells what the runner saw.
LEMMA ToldOfBox ==
  ASSUME NEW host, IsBox(host), host.env = <<>>
  PROVE  GuardCandidates(Hardware(host)) = RunCandidates(host)
<1>. DEFINE o == Spaced(host.override)
            c == Spaced(host.config)
            l == Spaced(host.labels)
            g == host.gpus
            T == STRING \cup {Blank, Blank, Blank}
<1>1. host.override \in Seq(STRING)
  BY DEF IsBox
<1>2. o \o <<>> = o
  <2>1. CASE host.override = <<>>
    <3>1. o = <<>>
      BY <2>1 DEF Spaced
    <3>. HIDE DEF o
    <3>. QED
      BY <3>1
  <2>2. CASE host.override # <<>>
    <3>1. o = host.override \o <<Blank>>
      BY <2>2 DEF Spaced
    <3>. DEFINE s == host.override
    <3>. HIDE DEF s, o
    <3>2. s \o <<Blank>> \in Seq(T)
      BY <1>1, Wider DEF s
    <3>. HIDE DEF T
    <3>. QED
      BY <3>1, <3>2 DEF s
  <2>. QED
    BY <2>1, <2>2
<1>3. Spaced(host.env) = <<>>
  BY DEF Spaced
<1>4. RunText(host) = (((o \o <<>>) \o c) \o l) \o g
  <2>1. RunText(host) = (((o \o Spaced(host.env)) \o c) \o l) \o g
    BY DEF RunText
  <2>. HIDE DEF o, c, l, g
  <2>. QED
    BY <1>3, <2>1
<1>5. GuardText(Hardware(host)) = ((o \o c) \o l) \o g
  BY DEF GuardText, Hardware
<1>. HIDE DEF o, c, l, g
<1>. QED
  BY <1>2, <1>4, <1>5, SameTokens DEF RunCandidates, GuardCandidates

\* Artifacts of one box tell its classes once.
LEMMA MergedOfBox ==
  ASSUME NEW runs \in Seq(Conditions), Len(runs) >= 1, NEW classes \in Seq(Tokens),
         \A i \in 1 .. Len(runs) : GuardCandidates(Artifact[runs[i]].hardware) = classes
  PROVE  MergedCandidates(Loaded(runs)) = classes
<1>. DEFINE n == Len(runs)
            loaded == Loaded(runs)
            Walked(f) == [i \in 0 .. n |->
                          IF i = 0 THEN <<>>
                          ELSE f[i - 1] \o Kept(GuardCandidates(loaded[i].hardware), Tokens \ ToSet(f[i - 1]))]
            c == CHOOSE f : f = Walked(f)
            g == [i \in 0 .. n |-> IF i = 0 THEN <<>> ELSE classes]
<1>1. n \in Nat /\ n >= 1 /\ Len(loaded) = n
  BY LoadedIs
<1>2. \A i \in 1 .. n : GuardCandidates(loaded[i].hardware) = classes
  BY LoadedIs
<1>. HIDE DEF loaded, n
<1>3. <<>> \o Kept(classes, Tokens \ ToSet(<<>>)) = classes
  <2>1. ToSet(<<>>) = {} /\ ToSet(classes) \subseteq Tokens
    BY DEF ToSet
  <2>2. Kept(classes, Tokens \ ToSet(<<>>)) = classes
    BY <2>1, KeptAll
  <2>3. <<>> \o classes = classes
    OBVIOUS
  <2>. QED
    BY <2>2, <2>3
<1>4. classes \o Kept(classes, Tokens \ ToSet(classes)) = classes
  <2>1. Kept(classes, Tokens \ ToSet(classes)) = <<>>
    BY KeptElements
  <2>2. classes \o <<>> = classes
    OBVIOUS
  <2>. QED
    BY <2>1, <2>2
<1>5. g = Walked(g)
  <2>1. ASSUME NEW i \in 0 .. n PROVE g[i] = Walked(g)[i]
    <3>1. CASE i = 0
      BY <3>1
    <3>2. CASE i = 1
      <4>1. g[i - 1] = <<>> /\ i \in 1 .. n
        <5>1. i - 1 = 0 /\ 0 \in 0 .. n /\ i \in 1 .. n
          BY <3>2, <1>1
        <5>2. g[0] = <<>>
          BY <5>1
        <5>. HIDE DEF g
        <5>. QED
          BY <5>1, <5>2
      <4>2. Walked(g)[i] = <<>> \o Kept(classes, Tokens \ ToSet(<<>>))
        <5>1. i \in 0 .. n /\ i # 0 /\ GuardCandidates(loaded[i].hardware) = classes
          BY <3>2, <4>1, <1>2
        <5>2. Walked(g)[i] = g[i - 1] \o Kept(GuardCandidates(loaded[i].hardware), Tokens \ ToSet(g[i - 1]))
          <6>. HIDE DEF g
          <6>. QED
            BY <5>1
        <5>. HIDE DEF g, Walked
        <5>. QED
          BY <4>1, <5>1, <5>2
      <4>. QED
        BY <3>2, <4>2, <1>3
    <3>3. CASE i # 0 /\ i # 1
      <4>1. g[i - 1] = classes /\ i \in 1 .. n
        BY <3>3, <1>1
      <4>2. Walked(g)[i] = classes \o Kept(classes, Tokens \ ToSet(classes))
        BY <3>3, <4>1, <1>2
      <4>. QED
        BY <3>3, <4>2, <1>4
    <3>. QED
      BY <3>1, <3>2, <3>3
  <2>. HIDE DEF Walked
  <2>2. g = [i \in 0 .. n |-> g[i]]
    OBVIOUS
  <2>3. Walked(g) = [i \in 0 .. n |-> Walked(g)[i]]
    BY DEF Walked
  <2>. HIDE DEF g
  <2>. QED
    BY <2>1, <2>2, <2>3
<1>6. c = Walked(c)
  <2>. HIDE DEF Walked, g
  <2>. QED
    BY <1>5
<1>. HIDE DEF c
<1>7. c[0] = <<>> /\ \A i \in 1 .. n : c[i] = c[i - 1] \o Kept(classes, Tokens \ ToSet(c[i - 1]))
  <2>1. c[0] = <<>>
    BY <1>1, <1>6
  <2>2. ASSUME NEW i \in 1 .. n PROVE c[i] = c[i - 1] \o Kept(classes, Tokens \ ToSet(c[i - 1]))
    <3>1. i \in 0 .. n /\ i # 0
      BY <1>1
    <3>. QED
      BY <3>1, <1>2, <1>6
  <2>. QED
    BY <2>1, <2>2
<1>8. \A i \in 1 .. n : c[i] = classes
  <2>. DEFINE E == {i \in 0 .. n : i = 0 \/ c[i] = classes}
  <2>1. 0 \in E
    BY <1>1
  <2>2. ASSUME NEW i \in 0 .. n - 1, i \in E PROVE i + 1 \in E
    <3>1. i + 1 \in 1 .. n /\ i + 1 \in 0 .. n /\ (i + 1) - 1 = i
      BY <1>1
    <3>2. c[i + 1] = c[i] \o Kept(classes, Tokens \ ToSet(c[i]))
      BY <1>7, <3>1
    <3>3. c[i + 1] = classes
      <4>1. CASE i = 0
        BY <4>1, <3>2, <1>3, <1>7
      <4>2. CASE i # 0
        BY <4>2, <3>2, <1>4, <2>2
      <4>. QED
        BY <4>1, <4>2
    <3>. QED
      BY <3>1, <3>3
  <2>. HIDE DEF E
  <2>3. 0 .. n \subseteq E
    BY <1>1, <2>1, <2>2, UpTo
  <2>. QED
    BY <1>1, <2>3 DEF E
<1>9. MergedCandidates(loaded) = c[n]
  BY <1>1 DEF MergedCandidates, c
<1>. QED
  BY <1>1, <1>8, <1>9 DEF loaded

\* What one box's runs come to under one configuration.
LEMMA RunsOfBox ==
  ASSUME NEW runs \in RunLists, OneBox(runs)
  PROVE  LET host == BoxOf(runs[1]) IN
         /\ \A i \in 1 .. Len(runs) : BoxOf(runs[i]) = host /\ runs[i] \in Conditions
         /\ GuardCandidates(Hardware(host)) = RunCandidates(host)
         /\ MergedCandidates(Loaded(runs)) = RunCandidates(host)
         /\ RunCandidates(host) \in Seq(Tokens) /\ RunCandidates(host) # <<>>
<1>. DEFINE host == BoxOf(runs[1])
            classes == RunCandidates(host)
<1>1. runs \in Seq(Conditions) /\ Len(runs) >= 1 /\ Len(runs) \in Nat
  BY ListedRuns
<1>2. \A i \in 1 .. Len(runs) : BoxOf(runs[i]) = host /\ runs[i] \in Conditions
  BY <1>1 DEF OneBox, BoxOf
<1>3. IsBox(host) /\ host.env = <<>>
  <2>1. runs[1] \in Conditions
    BY <1>1
  <2>. QED
    BY <2>1, ConfigLifeAssumption DEF OneBox, BoxOf, Conditions, Told
<1>4. GuardCandidates(Hardware(host)) = classes
  BY <1>3, ToldOfBox
<1>5. classes \in Seq(Tokens) /\ classes # <<>>
  BY Candidates DEF OneBox, BoxOf
<1>6. \A i \in 1 .. Len(runs) : Artifact[runs[i]].hardware = Hardware(host)
  BY <1>2, ArtifactIs
<1>. HIDE DEF host, classes
<1>7. MergedCandidates(Loaded(runs)) = classes
  BY <1>1, <1>4, <1>5, <1>6, MergedOfBox
<1>. QED
  BY <1>2, <1>4, <1>5, <1>7 DEF host, classes

\* The drift check of one row of sglang, and what the runner would do today.
LEMMA DriftOfRow ==
  ASSUME NEW config \in Passing, NEW run, IsRun(run), NEW row \in Artifact[run].rows, row.fw = "sglang"
  PROVE  RowDrifts(row, Config[config].frameworks["sglang"], RunCandidates(BoxOf(run)))
           <=> ~ SameCommand(row, Today(config, row, BoxOf(run)))
<1>. DEFINE classes == RunCandidates(BoxOf(run))
            entry == Catalog[config]["sglang"]
            body == BodyOf(entry)
            profiles == entry.profiles
            asked == IF row.how = "explicit" THEN row.profile ELSE NoName
            chosen == SelectCommandProfile(profiles, asked, classes)
            today == Today(config, row, BoxOf(run))
            named == Named(profiles, row.profile)
            selected == SelectProfile(profiles, classes)
<1>1. run \in Conditions /\ ~ Artifact[run].raises /\ run.config \in Passing
  BY ArtifactIs DEF IsRun
<1>2. "sglang" \in Frameworks
  BY BenchConfigAssumption
<1>3. IsEntry(entry) /\ entry.status = "supported" /\ profiles # <<>> /\ profiles \in Seq(CommandProfile)
  BY <1>2, PassingIs, CatalogAssumption DEF IsEntry
<1>4. Config[config].frameworks["sglang"] = body
  BY <1>2, <1>3, BodyIs DEF IsPublished
<1>5. body.profiles = profiles
  BY DEF BodyOf
<1>6. today.profile = chosen[1] /\ today.how = chosen[2]
  <2>1. today = ResolvedAs(body, chosen)
    BY <1>4, <1>5 DEF Today, ResolveFrameworkConfig
  <2>. HIDE DEF today, chosen, body
  <2>. QED
    BY <2>1 DEF ResolvedAs
\* the row
<1>7. row.how # "inline" /\ (row.how = "explicit" => row.profile # NoName)
  <2>1. PICK fw \in Attempted(run), mode \in Told(run).modes : row = RowOf(run, fw, mode)
    BY <1>1, ArtifactIs
  <2>2. fw \in Frameworks /\ fw = "sglang"
    BY <1>1, <2>1, ArtifactIs, RowIs
  <2>. DEFINE r == ResolvedOf(run, fw)
              its == EntryOf(run, fw)
  <2>3. row.how = r.how /\ row.profile = r.profile.key
    BY <1>1, <2>1, <2>2, RowIs
  <2>4. its.profiles # <<>> /\ its.profiles \in Seq(CommandProfile)
    BY <1>1, <2>2, PassingIs, CatalogAssumption DEF EntryOf, IsEntry
  <2>5. r.how # "unknown"
    BY <1>1, <2>1, ArtifactIs
  <2>6. CASE AskedFor(run, fw) = NoName
    <3>1. r.how \in {"hardware", "default", "first"}
      BY <1>1, <2>2, <2>4, <2>6, ResolvedIs
    <3>. HIDE DEF r
    <3>. QED
      BY <2>3, <3>1
  <2>7. CASE AskedFor(run, fw) # NoName
    <3>1. Named(its.profiles, AskedFor(run, fw)) # <<>> /\ r.how = "explicit"
          /\ r.profile = Named(its.profiles, AskedFor(run, fw))[1]
      BY <1>1, <2>2, <2>4, <2>5, <2>7, ResolvedIs
    <3>2. r.profile.key = AskedFor(run, fw)
      BY <2>4, <3>1, NamedIs
    <3>. HIDE DEF r
    <3>. QED
      BY <2>3, <2>7, <3>1, <3>2
  <2>. QED
    BY <2>6, <2>7
<1>. HIDE DEF today, entry, profiles, body
<1>8. CASE row.how = "explicit"
  <2>1. chosen = IF named = <<>> THEN <<NoProfile, "unknown">> ELSE <<named[1], "explicit">>
    BY <1>3, <1>7, <1>8, NameSelects
  <2>2. RowDrifts(row, body, classes) <=> named = <<>> \/ LacksTokens(row, named[1])
    BY <1>5, <1>8 DEF RowDrifts
  <2>3. named # <<>> => named[1].key = row.profile
    BY <1>3, NamedIs
  <2>. HIDE DEF chosen, named, classes
  <2>4. SameCommand(row, today) <=> named # <<>> /\ ~ LacksTokens(row, named[1])
    <3>1. CASE named = <<>>
      BY <3>1, <1>6, <2>1 DEF SameCommand
    <3>2. CASE named # <<>>
      BY <3>2, <1>6, <2>1, <2>3 DEF SameCommand
    <3>. QED
      BY <3>1, <3>2
  <2>. QED
    BY <1>4, <2>2, <2>4 DEF today, classes
<1>9. CASE row.how # "explicit"
  <2>1. chosen[1] = selected /\ chosen[2] \in {"inline", "hardware", "default", "first"}
    BY <1>3, <1>9, MirrorSelects
  <2>2. RowDrifts(row, body, classes) <=> selected.key # row.profile \/ LacksTokens(row, selected)
    BY <1>5, <1>7, <1>9 DEF RowDrifts
  <2>. HIDE DEF chosen, selected, classes
  <2>3. today.how # "unknown" /\ today.profile = selected
    BY <1>6, <2>1
  <2>. QED
    BY <1>4, <2>2, <2>3 DEF today, classes, SameCommand
<1>. QED
  BY <1>8, <1>9

LEMMA DriftIsExact ==
  ASSUME NEW config \in Passing, NEW runs, IsRunList(runs), OneBox(runs),
         NEW row \in {r \in PublicationUnder[config][runs].merged.results : r.fw = "sglang" /\ Measured(r)}
  PROVE  row \in PublicationUnder[config][runs].drift
           <=> ~ SameCommand(row, Today(config, row, BoxOf(runs[1])))
<1>. DEFINE now == PublicationUnder[config][runs]
            merged == MergeResults(Loaded(runs))
            classes == RunCandidates(BoxOf(runs[1]))
            body == Config[config].frameworks["sglang"]
<1>1. runs \in RunLists /\ runs \in Seq(Conditions)
  BY ListedRuns DEF IsRunList
<1>2. /\ now.merged = merged /\ merged.results = MergeEntries(Loaded(runs), "single_e2e")
      /\ now.drift = VerifyMergedCommands(merged, Config[config], GateCandidates(Loaded(runs)))
  BY <1>1, PublicationIs
<1>3. GateCandidates(Loaded(runs)) = classes
      /\ \A i \in 1 .. Len(runs) : BoxOf(runs[i]) = BoxOf(runs[1])
  BY <1>1, RunsOfBox DEF GateCandidates
<1>. HIDE DEF merged, now
<1>4. PICK i \in 1 .. Len(runs) : row \in Artifact[runs[i]].rows
  BY <1>1, <1>2, MergedRows DEF now
<1>5. RowDrifts(row, body, classes) <=> ~ SameCommand(row, Today(config, row, BoxOf(runs[1])))
  <2>1. IsRun(runs[i]) /\ BoxOf(runs[i]) = BoxOf(runs[1]) /\ row.fw = "sglang"
    BY <1>3, <1>4 DEF IsRunList
  <2>. QED
    BY <1>4, <2>1, DriftOfRow
<1>6. "sglang" \in DOMAIN Config[config].frameworks /\ body.profiles # <<>>
  <2>1. "sglang" \in Frameworks
    BY BenchConfigAssumption
  <2>. DEFINE entry == Catalog[config]["sglang"]
  <2>2. entry.status = "supported" /\ entry.profiles # <<>>
    BY PassingIs, CatalogAssumption
  <2>3. "sglang" \in DOMAIN Config[config].frameworks /\ body = BodyOf(entry)
    BY <2>1, <2>2, BodyIs DEF IsPublished
  <2>4. BodyOf(entry).profiles = entry.profiles
    BY DEF BodyOf
  <2>. HIDE DEF body, entry
  <2>. QED
    BY <2>2, <2>3, <2>4
<1>. HIDE DEF classes, body
<1>7. row \in CheckedRows(merged)
  BY <1>2 DEF CheckedRows, now
<1>8. row \in VerifyMergedCommands(merged, Config[config], classes) <=> RowDrifts(row, body, classes)
  BY <1>3, <1>6, <1>7 DEF VerifyMergedCommands, body
<1>. QED
  BY <1>2, <1>3, <1>5, <1>8 DEF now

\* The drift gate of config_guard.py speaks of what run_comparison.py would
\* do, through its mirror of the selection.
THEOREM DriftGateAlways == LifeSpec => []DriftGateIsExact
<1>1. LifeInv => DriftGateIsExact
  BY DriftIsExact DEF LifeInv, Attempt, DriftGateIsExact, IsRunList, BoxOf
<1>. QED
  BY <1>1, LifeInductive, PTL

-----------------------------------------------------------------------------
(* The cells of frameworks that were left out.                             *)

\* What is not attempted on a box is classified there.
LEMMA LeftOutIsClassified ==
  ASSUME NEW s \in Passing, NEW fw \in Frameworks, NEW classes \in Seq(Tokens),
         fw \notin DOMAIN ApplyHardwareStatuses(Config[s], classes).frameworks
  PROVE  LET case == ApplyHardwareStatuses(Config[s], classes)
         IN  /\ fw \in DOMAIN case.statuses
             /\ case.statuses[fw] = StatusOn(Config[s], fw, classes)
             /\ case.statuses[fw] # "supported"
<1>. DEFINE config == Config[s]
            entries == Catalog[s]
            entry == entries[fw]
            now(f) == StatusOn(config, f, classes)
            overridden == {f \in DOMAIN config.byHardware : ToSet(classes) \cap DOMAIN config.byHardware[f] # {}}
            classified == {f \in overridden \cup DOMAIN config.statuses : now(f) # "supported"}
            applied == ApplyHardwareStatuses(config, classes)
            own == Kept(classes, DOMAIN entry.byHardware)
<1>1. config = Built(entries)
  BY PassingIs
<1>2. now(fw) = IF own = <<>> THEN entry.status ELSE entry.byHardware[own[1]]
  BY StatusIs DEF ResolveStatus
<1>3. DOMAIN config.frameworks = {f \in Frameworks : IsPublished(entries[f])}
  BY BodyIs
<1>. HIDE DEF entries
<1>4. /\ DOMAIN config.statuses = {f \in Frameworks : entries[f].status # "supported"}
      /\ \A f \in DOMAIN config.statuses : config.statuses[f] = entries[f].status
  <2>1. config.statuses = [f \in {g \in Frameworks : entries[g].status # "supported"} |-> entries[f].status]
    BY <1>1 DEF Built
  <2>. HIDE DEF config
  <2>. QED
    BY <2>1
<1>5. /\ DOMAIN config.byHardware = {f \in Frameworks : DOMAIN entries[f].byHardware # {}}
      /\ \A f \in DOMAIN config.byHardware : config.byHardware[f] = entries[f].byHardware
  <2>1. config.byHardware = [f \in {g \in Frameworks : DOMAIN entries[g].byHardware # {}} |-> entries[f].byHardware]
    BY <1>1 DEF Built
  <2>. HIDE DEF config
  <2>. QED
    BY <2>1
<1>6. /\ own = <<>> <=> ToSet(classes) \cap DOMAIN entry.byHardware = {}
      /\ own # <<>> => own[1] \in DOMAIN entry.byHardware
  BY KeptElements
<1>. HIDE DEF own, entry, config, applied
<1>7. ~ IsPublished(entry) => fw \in DOMAIN config.statuses /\ now(fw) # "supported"
  <2>. HIDE DEF now
  <2>. QED
    BY <1>2, <1>4, <1>6 DEF IsPublished, entry
<1>8. CASE overridden = {}
  <2>1. applied = config
    BY <1>8 DEF ApplyHardwareStatuses, applied
  <2>2. ~ IsPublished(entry)
    BY <1>3, <2>1 DEF applied, config, entry
  <2>3. own = <<>>
    BY <1>5, <1>6, <1>8 DEF entry
  <2>. HIDE DEF now, overridden
  <2>. QED
    BY <1>2, <1>4, <1>7, <2>1, <2>2, <2>3 DEF applied, config, entry, now
<1>9. CASE overridden # {}
  <2>1. applied = [frameworks |-> Restrict(config.frameworks, DOMAIN config.frameworks \ classified),
                   statuses   |-> [f \in classified |-> now(f)],
                   byHardware |-> <<>>]
    BY <1>9 DEF ApplyHardwareStatuses, applied
  <2>. HIDE DEF now, overridden
  <2>2. fw \in classified
    <3>1. CASE fw \in DOMAIN config.frameworks
      <4>1. DOMAIN applied.frameworks = DOMAIN config.frameworks \ classified
        BY <2>1 DEF Restrict
      <4>. QED
        BY <3>1, <4>1 DEF applied, config
    <3>2. CASE fw \notin DOMAIN config.frameworks
      BY <3>2, <1>3, <1>7 DEF entry
    <3>. QED
      BY <3>1, <3>2
  <2>3. fw \in DOMAIN applied.statuses /\ applied.statuses[fw] = now(fw) /\ now(fw) # "supported"
    BY <2>1, <2>2
  <2>. QED
    BY <2>3 DEF applied, config, now
<1>. QED
  BY <1>8, <1>9

\* The sections of a publication: of a mode with rows, one of each at most.
LEMMA SectionsAre ==
  ASSUME NEW run, NEW merged, NEW case
  PROVE  LET sections == SectionsOf(run, merged, case)
             singles == Section(run, "single_e2e", merged.results, case)
             served == Section(run, "throughput", merged.throughput, case)
         IN  /\ sections \in Seq({singles, served})
             /\ \A i \in 1 .. Len(sections) :
                  /\ sections[i].run = run
                  /\ \/ sections[i] = singles /\ merged.results # {}
                     \/ sections[i] = served /\ merged.throughput # {}
             /\ \A i, j \in 1 .. Len(sections) : sections[i].mode = sections[j].mode => i = j
<1>. DEFINE sections == SectionsOf(run, merged, case)
            singles == Section(run, "single_e2e", merged.results, case)
            served == Section(run, "throughput", merged.throughput, case)
<1>1. singles.run = run /\ served.run = run /\ singles.mode = "single_e2e" /\ served.mode = "throughput"
  BY DEF Section, Counted
<1>2. \/ sections = <<>> \o <<>>
      \/ sections = <<singles>> \o <<>> /\ merged.results # {}
      \/ sections = <<>> \o <<served>> /\ merged.throughput # {}
      \/ sections = <<singles>> \o <<served>> /\ merged.results # {} /\ merged.throughput # {}
  <2>. HIDE DEF singles, served
  <2>1. sections = Flag(merged.results # {}, <<singles>>) \o Flag(merged.throughput # {}, <<served>>)
    BY DEF SectionsOf, BuildSingleE2eRows, BuildThroughputRows, singles, served
  <2>. HIDE DEF sections
  <2>2. CASE merged.results = {} /\ merged.throughput = {}
    BY <2>1, <2>2 DEF Flag
  <2>3. CASE merged.results # {} /\ merged.throughput = {}
    BY <2>1, <2>3 DEF Flag
  <2>4. CASE merged.results = {} /\ merged.throughput # {}
    BY <2>1, <2>4 DEF Flag
  <2>5. CASE merged.results # {} /\ merged.throughput # {}
    BY <2>1, <2>5 DEF Flag
  <2>. QED
    BY <2>2, <2>3, <2>4, <2>5
<1>. HIDE DEF sections, singles, served
<1>3. \/ sections = <<>>
      \/ sections = <<singles>> /\ merged.results # {}
      \/ sections = <<served>> /\ merged.throughput # {}
      \/ /\ sections \in Seq({singles, served}) /\ Len(sections) = 2
         /\ sections[1] = singles /\ sections[2] = served
         /\ merged.results # {} /\ merged.throughput # {}
  <2>1. <<>> \o <<>> = <<>>
    OBVIOUS
  <2>2. <<singles>> \o <<>> = <<singles>>
    OBVIOUS
  <2>3. <<>> \o <<served>> = <<served>>
    OBVIOUS
  <2>4. LET both == <<singles>> \o <<served>> IN
        both \in Seq({singles, served}) /\ Len(both) = 2 /\ both[1] = singles /\ both[2] = served
    <3>. DEFINE a == <<singles>>
                b == <<served>>
                T == {singles, served}
    <3>1. a \in Seq(T) /\ b \in Seq(T)
          /\ Len(a) = 1 /\ Len(b) = 1 /\ a[1] = singles /\ b[1] = served
      OBVIOUS
    <3>. HIDE DEF a, b, T
    <3>2. /\ a \o b \in Seq(T) /\ Len(a \o b) = Len(a) + Len(b)
          /\ \A i \in 1 .. Len(a) : (a \o b)[i] = a[i]
          /\ \A i \in 1 .. Len(b) : (a \o b)[Len(a) + i] = b[i]
      BY <3>1, Joined
    <3>3. (a \o b)[1] = a[1] /\ (a \o b)[2] = b[1]
      <4>1. 1 \in 1 .. Len(a) /\ 1 \in 1 .. Len(b) /\ Len(a) + 1 = 2
        BY <3>1
      <4>. QED
        BY <3>2, <4>1
    <3>4. Len(a \o b) = 2
      BY <3>1, <3>2
    <3>. QED
      BY <3>1, <3>2, <3>3, <3>4 DEF a, b, T
  <2>. QED
    BY <1>2, <2>1, <2>2, <2>3, <2>4
<1>4. CASE sections = <<>>
  <2>1. sections \in Seq({singles, served}) /\ Len(sections) = 0
    BY <1>4
  <2>2. 1 .. Len(sections) = {}
    BY <2>1
  <2>. QED
    BY <2>1, <2>2 DEF sections, singles, served
<1>5. CASE sections = <<singles>> /\ merged.results # {}
  <2>1. sections \in Seq({singles, served}) /\ Len(sections) = 1 /\ sections[1] = singles
    BY <1>5
  <2>. QED
    BY <1>1, <1>5, <2>1 DEF sections, singles, served
<1>6. CASE sections = <<served>> /\ merged.throughput # {}
  <2>1. sections \in Seq({singles, served}) /\ Len(sections) = 1 /\ sections[1] = served
    BY <1>6
  <2>. QED
    BY <1>1, <1>6, <2>1 DEF sections, singles, served
<1>7. CASE /\ sections \in Seq({singles, served}) /\ Len(sections) = 2
           /\ sections[1] = singles /\ sections[2] = served
           /\ merged.results # {} /\ merged.throughput # {}
  BY <1>1, <1>7 DEF sections, singles, served
<1>. QED
  BY <1>3, <1>4, <1>5, <1>6, <1>7

LEMMA SkippedIs ==
  ASSUME NEW config \in Passing, NEW runs, IsRunList(runs), OneBox(runs), NEW run \in RunIds,
         \A i \in 1 .. Len(runs) : runs[i].config = config /\ Told(runs[i]).outcome # "killed",
         NEW section \in ToSet(PublicationUnder[config][runs].sections[run]), NEW fw \in Frameworks
  PROVE  LET shown == section.cells[fw].status IN
         \/ shown \in {"ok", "failed"}
         \/ shown = StatusOn(Config[config], fw, RunCandidates(BoxOf(runs[1]))) /\ shown # "supported"
<1>. DEFINE merged == MergeResults(Loaded(runs))
            classes == RunCandidates(BoxOf(runs[1]))
            case == ApplyHardwareStatuses(Config[config], classes)
            sections == SectionsOf(run, merged, case)
            shown == section.cells[fw].status
<1>1. runs \in RunLists /\ runs \in Seq(Conditions) /\ Len(runs) \in 1 .. Len(runs)
  BY ListedRuns DEF IsRunList
<1>2. /\ \A i \in 1 .. Len(runs) : BoxOf(runs[i]) = BoxOf(runs[1]) /\ runs[i] \in Conditions
      /\ GuardCandidates(Hardware(BoxOf(runs[1]))) = classes /\ classes \in Seq(Tokens)
  BY <1>1, RunsOfBox
<1>3. section \in ToSet(sections)
  <2>1. PublicationUnder[config][runs].sections[run] = BuildSections(run, merged, Config[config])
        /\ merged.hardware = Hardware(BoxOf(runs[Len(runs)]))
    BY <1>1, PublicationIs
  <2>2. GuardCandidates(merged.hardware) = classes
    <3>1. BoxOf(runs[Len(runs)]) = BoxOf(runs[1])
      BY <1>1, <1>2
    <3>. HIDE DEF merged, classes
    <3>. QED
      BY <1>2, <2>1, <3>1
  <2>. HIDE DEF merged, classes
  <2>. QED
    BY <2>1, <2>2 DEF BuildSections
<1>4. merged.results = MergeEntries(Loaded(runs), "single_e2e") /\ merged.throughput = MergeEntries(Loaded(runs), "throughput")
  BY <1>1, PublicationIs
<1>. HIDE DEF merged, classes, case
<1>5. PICK mode : section = Section(run, mode, MergeEntries(Loaded(runs), mode), case)
                  /\ MergeEntries(Loaded(runs), mode) # {}
  <2>1. \A i \in 1 .. Len(sections) :
          \/ sections[i] = Section(run, "single_e2e", merged.results, case) /\ merged.results # {}
          \/ sections[i] = Section(run, "throughput", merged.throughput, case) /\ merged.throughput # {}
    BY SectionsAre
  <2>. HIDE DEF sections
  <2>2. \/ section = Section(run, "single_e2e", merged.results, case) /\ merged.results # {}
        \/ section = Section(run, "throughput", merged.throughput, case) /\ merged.throughput # {}
    BY <1>3, <2>1 DEF ToSet
  <2>. QED
    BY <1>4, <2>2
<1>. DEFINE rows == MergeEntries(Loaded(runs), mode)
            own == {row \in rows : row.fw = fw}
<1>6. section.cells[fw] = CellOf(rows, fw, case)
  <2>. HIDE DEF rows
  <2>. QED
    BY <1>5 DEF Section, Counted, rows
<1>7. CASE own # {}
  <2>. HIDE DEF rows
  <2>. QED
    BY <1>6, <1>7 DEF CellOf
<1>8. CASE own = {}
  <2>1. PICK i \in 1 .. Len(runs) : \E row \in Artifact[runs[i]].rows : row.mode = mode
    BY <1>1, <1>5, MergedRows
  <2>. DEFINE that == runs[i]
  <2>2. that \in Conditions /\ BoxOf(that) = BoxOf(runs[1]) /\ that.config = config /\ Told(that).outcome # "killed"
    BY <1>2
  <2>3. Artifact[that].rows = {RowOf(that, f, m) : f \in Attempted(that), m \in Told(that).modes}
        /\ Attempted(that) \subseteq Frameworks
    BY <2>2, ArtifactIs
  <2>4. \A m : \A f \in Frameworks : RowOf(that, f, m).fw = f /\ RowOf(that, f, m).mode = m
    BY <2>2, RowIs
  <2>. HIDE DEF that
  <2>5. mode \in Told(that).modes
    BY <2>1, <2>3, <2>4 DEF that
  <2>6. fw \notin Attempted(that)
    <3>. SUFFICES ASSUME fw \in Attempted(that) PROVE FALSE
      OBVIOUS
    <3>1. RowOf(that, fw, mode) \in Artifact[that].rows
      BY <2>3, <2>5
    <3>2. \E kept \in rows : kept.fw = fw
      BY <1>1, <2>4, <3>1, MergedRows DEF that
    <3>. HIDE DEF rows
    <3>. QED
      BY <1>8, <3>2
  <2>7. fw \notin DOMAIN case.frameworks
    BY <2>2, <2>6 DEF Attempted, case, classes
  <2>8. /\ fw \in DOMAIN case.statuses
        /\ case.statuses[fw] = StatusOn(Config[config], fw, classes) /\ case.statuses[fw] # "supported"
    BY <1>2, <2>7, LeftOutIsClassified DEF case
  <2>9. shown = case.statuses[fw]
    <3>. HIDE DEF rows
    <3>. QED
      BY <1>6, <1>8, <2>8 DEF CellOf
  <2>. QED
    BY <2>8, <2>9 DEF classes
<1>. QED
  BY <1>7, <1>8

\* A framework that is left out because it is classified on a box shows that
\* classification on the page (page_export.py, config_guard.py).
THEOREM SkippedAlways == LifeSpec => []SkippedIsClassified
<1>1. LifeInv => SkippedIsClassified
  <2>1. SUFFICES ASSUME LifeInv, attempt # <<>>, OneBox(attempt.runs),
                        \A i \in 1 .. Len(attempt.runs) :
                           attempt.runs[i].config = attempt.config /\ Told(attempt.runs[i]).outcome # "killed",
                        NEW section \in ToSet(PublicationUnder[attempt.config][attempt.runs].sections[attempt.run]),
                        NEW fw \in Frameworks
                 PROVE  LET shown == section.cells[fw].status IN
                        \/ shown \in {"ok", "failed"}
                        \/ /\ shown = StatusOn(Config[attempt.config], fw, RunCandidates(Told(attempt.runs[1]).box))
                           /\ shown # "supported"
    BY DEF SkippedIsClassified
  <2>2. attempt.config \in Passing /\ attempt.run \in RunIds /\ IsRunList(attempt.runs)
    BY <2>1 DEF LifeInv, Attempt
  <2>. QED
    BY <2>1, <2>2, SkippedIs DEF BoxOf
<1>. QED
  BY <1>1, LifeInductive, PTL

-----------------------------------------------------------------------------
(* The page's two files.                                                   *)

LEMMA FrameworksFinite == IsFiniteSet(Frameworks)
<1>. DEFINE F1 == {} \cup {"sglang"}
            F2 == F1 \cup {"vllm-omni"}
            F3 == F2 \cup {"lightx2v"}
            F4 == F3 \cup {"trtllm-visual"}
            F5 == F4 \cup {"comfyui"}
            F6 == F5 \cup {"fastvideo"}
<1>1. IsFiniteSet(F1)  BY FS_EmptySet, FS_AddElement
<1>2. IsFiniteSet(F2)  BY <1>1, FS_AddElement
<1>3. IsFiniteSet(F3)  BY <1>2, FS_AddElement
<1>4. IsFiniteSet(F4)  BY <1>3, FS_AddElement
<1>5. IsFiniteSet(F5)  BY <1>4, FS_AddElement
<1>6. IsFiniteSet(F6)  BY <1>5, FS_AddElement
<1>7. Frameworks \in SUBSET F6  BY BenchConfigAssumption
<1>. QED  BY <1>6, <1>7, FS_Subset

\* The headline of a section against the counts of the section itself.
Agrees(headline, section) ==
  /\ headline.wins = section.wins
  /\ headline.comparable <= section.comparable
  /\ headline.comparable < section.comparable =>
        OkCells(section.cells) # {} /\ "sglang" \notin OkCells(section.cells)

LEMMA FastestIs ==
  ASSUME NEW mode, NEW cells, NEW fws \in SUBSET Frameworks, fws # {},
         \A fw \in fws : cells[fw].value \in Nat
  PROVE  Fastest(mode, cells, fws) \in fws
<1>. DEFINE value(fw) == IF fw \in fws THEN cells[fw].value ELSE 0
<1>1. \A fw : value(fw) \in Nat
  OBVIOUS
<1>2. \E fw \in fws : \A g \in fws : cells[fw].value <= cells[g].value
  <2>. DEFINE T == {cells[fw].value : fw \in fws}
  <2>1. T \in SUBSET Nat /\ T # {}
    OBVIOUS
  <2>2. PICK k \in T : \A y \in T : k <= y
    <3>. HIDE DEF T
    <3>. QED
      BY <2>1, LeastNumber
  <2>. QED
    BY <2>2
<1>3. \E fw \in fws : \A g \in fws : cells[fw].value >= cells[g].value
  <2>. DEFINE all == value("sglang") + value("vllm-omni") + value("lightx2v")
                     + value("trtllm-visual") + value("comfyui") + value("fastvideo")
              U == {k \in Nat : \A fw \in Frameworks : value(fw) <= k}
  <2>1. all \in U
    <3>. HIDE DEF value
    <3>. QED
      BY <1>1, BenchConfigAssumption
  <2>2. PICK k \in U : \A y \in U : k <= y
    <3>1. U \in SUBSET Nat /\ U # {}
      BY <2>1
    <3>. HIDE DEF U
    <3>. QED
      BY <3>1, LeastNumber
  <2>3. k \in Nat /\ \A fw \in Frameworks : value(fw) <= k
    BY <2>2
  <2>4. \E fw \in fws : value(fw) = k
    <3>1. SUFFICES ASSUME \A fw \in fws : value(fw) # k PROVE FALSE
      OBVIOUS
    <3>2. \A fw \in fws : value(fw) < k
      <4>. HIDE DEF value
      <4>. QED
        BY <1>1, <2>3, <3>1
    <3>3. k > 0 /\ k - 1 \in Nat
      <4>1. \E fw \in fws : value(fw) \in Nat /\ value(fw) < k
        BY <1>1, <3>2
      <4>. HIDE DEF value
      <4>. QED
        BY <2>3, <4>1
    <3>4. \A fw \in Frameworks : value(fw) <= k - 1
      <4>1. \A fw \in Frameworks \ fws : value(fw) = 0
        OBVIOUS
      <4>. HIDE DEF value
      <4>. QED
        BY <1>1, <2>3, <3>2, <3>3, <4>1
    <3>5. k <= k - 1
      BY <2>2, <3>3, <3>4
    <3>. QED
      BY <2>3, <3>5
  <2>. QED
    BY <2>3, <2>4
<1>. QED
  BY <1>2, <1>3 DEF Fastest, AsGood

LEMMA CountedAgrees ==
  ASSUME NEW run, NEW mode, NEW cells, DOMAIN cells = Frameworks,
         \A fw \in Frameworks : cells[fw].value \in Nat
  PROVE  LET section == Counted(run, mode, cells) IN Agrees(HeadlineSummary(section), section)
<1>. DEFINE section == Counted(run, mode, cells)
            ok == OkCells(cells)
            rivals == ok \ {"sglang"}
            some == Cardinality(ok) >= 2
            headline == HeadlineSummary(section)
<1>1. /\ section.cells = cells /\ section.winner = Winner(mode, cells)
      /\ section.wins = (IF Winner(mode, cells) = "sglang" THEN 1 ELSE 0)
      /\ section.comparable = (IF rivals = {} THEN 0 ELSE 1)
  BY DEF Counted
<1>2. ok \in SUBSET Frameworks /\ IsFiniteSet(ok) /\ Cardinality(ok) \in Nat
  <2>1. ok \in SUBSET Frameworks
    BY DEF OkCells
  <2>. HIDE DEF ok
  <2>. QED
    BY <2>1, FrameworksFinite, FS_Subset, FS_CardinalityType
<1>. HIDE DEF ok
<1>3. rivals = {} => ~ some
  <2>1. SUFFICES ASSUME rivals = {} PROVE Cardinality(ok) <= 1
    BY <1>2
  <2>2. ok \in SUBSET {"sglang"}
    BY <2>1
  <2>3. IsFiniteSet({"sglang"}) /\ Cardinality({"sglang"}) = 1
    BY FS_Singleton
  <2>. QED
    BY <2>2, <2>3, FS_Subset
<1>4. rivals # {} /\ "sglang" \in ok => some
  <2>1. SUFFICES ASSUME rivals # {}, "sglang" \in ok PROVE Cardinality(ok) >= 2
    OBVIOUS
  <2>2. PICK x \in ok : x # "sglang"
    BY <2>1
  <2>. DEFINE one == {"sglang"}
              two == one \cup {x}
  <2>3. IsFiniteSet(one) /\ Cardinality(one) = 1 /\ x \notin one
    BY <2>2, FS_Singleton
  <2>4. two \in SUBSET ok
    BY <2>1, <2>2
  <2>. HIDE DEF one
  <2>5. Cardinality(two) = 2
    BY <2>3, FS_AddElement
  <2>. HIDE DEF two
  <2>6. Cardinality(two) <= Cardinality(ok)
    BY <1>2, <2>4, FS_Subset
  <2>. QED
    BY <1>2, <2>5, <2>6
<1>5. Winner(mode, cells) = "sglang" => rivals # {} /\ "sglang" \in ok
  <2>1. rivals = {} => Winner(mode, cells) = "n/a"
    BY DEF Winner, ok
  <2>2. rivals # {} => Fastest(mode, cells, rivals) # "sglang"
    <3>1. rivals \in SUBSET Frameworks
      BY <1>2
    <3>. QED
      BY <3>1, FastestIs
  <2>3. rivals # {} /\ "sglang" \notin ok => Winner(mode, cells) = Fastest(mode, cells, rivals)
    BY DEF Winner, ok
  <2>. QED
    BY <2>1, <2>2, <2>3
<1>. HIDE DEF section
<1>6. headline.comparable = (IF some THEN 1 ELSE 0)
      /\ headline.wins = (IF some /\ section.winner = "sglang" THEN 1 ELSE 0)
  BY <1>1 DEF HeadlineSummary, ok
<1>. HIDE DEF some, headline
<1>7. headline.wins = section.wins
  BY <1>1, <1>4, <1>5, <1>6
<1>8. headline.comparable <= section.comparable
  BY <1>1, <1>3, <1>6
<1>9. headline.comparable < section.comparable => ok # {} /\ "sglang" \notin ok
  <2>1. CASE some
    BY <2>1, <1>1, <1>3, <1>6
  <2>2. CASE ~ some
    BY <2>2, <1>1, <1>4, <1>6
  <2>. QED
    BY <2>1, <2>2
<1>. QED
  BY <1>1, <1>7, <1>8, <1>9 DEF Agrees, headline, section, ok

LEMMA SectionsAgree ==
  ASSUME NEW config \in Passing, NEW runs, IsRunList(runs), NEW run \in RunIds
  PROVE  LET sections == PublicationUnder[config][runs].sections[run]
         IN  /\ \E S : sections \in Seq(S)
             /\ \A i \in 1 .. Len(sections) :
                  sections[i].run = run /\ Agrees(HeadlineSummary(sections[i]), sections[i])
             /\ \A i, j \in 1 .. Len(sections) : sections[i].mode = sections[j].mode => i = j
<1>. DEFINE merged == MergeResults(Loaded(runs))
            case == ApplyHardwareStatuses(Config[config], GuardCandidates(merged.hardware))
            sections == SectionsOf(run, merged, case)
<1>1. runs \in RunLists /\ runs \in Seq(Conditions)
  BY ListedRuns DEF IsRunList
<1>2. PublicationUnder[config][runs].sections[run] = sections
  <2>1. PublicationUnder[config][runs].sections[run] = BuildSections(run, merged, Config[config])
    BY <1>1, PublicationIs
  <2>. HIDE DEF merged
  <2>. QED
    BY <2>1 DEF BuildSections
<1>3. merged.results = MergeEntries(Loaded(runs), "single_e2e") /\ merged.throughput = MergeEntries(Loaded(runs), "throughput")
  BY <1>1, PublicationIs
<1>. HIDE DEF merged, case
<1>4. ASSUME NEW mode, NEW fw \in Frameworks
      PROVE  CellOf(MergeEntries(Loaded(runs), mode), fw, case).value \in Nat
  <2>. DEFINE rows == MergeEntries(Loaded(runs), mode)
              own == {row \in rows : row.fw = fw}
              row == CHOOSE r \in own : TRUE
  <2>1. ASSUME NEW r \in rows PROVE r.figure \in Nat
    <3>1. PICK i \in 1 .. Len(runs) : r \in Artifact[runs[i]].rows
      BY <1>1, MergedRows
    <3>. DEFINE that == runs[i]
    <3>2. that \in Conditions
      BY <1>1
    <3>. HIDE DEF that
    <3>3. PICK f \in Attempted(that), m \in Told(that).modes : r = RowOf(that, f, m)
      BY <3>1, <3>2, ArtifactIs DEF that
    <3>4. f \in Frameworks
      BY <3>2, ArtifactIs
    <3>. DEFINE p == ResolvedOf(that, f).profile
    <3>5. r.figure = SpeedOf(p)
      BY <3>2, <3>3, <3>4, RowIs
    <3>6. p = NoProfile \/ p \in CommandProfile
      BY <3>2, <3>4, ResolvedIs
    <3>. HIDE DEF p
    <3>7. SpeedOf(p) \in Nat
      BY <3>6 DEF SpeedOf, CommandProfile, NoProfile
    <3>. QED
      BY <3>5, <3>7
  <2>. HIDE DEF rows
  <2>2. CASE own = {}
    BY <2>2 DEF CellOf, rows
  <2>3. CASE own # {}
    <3>1. row \in rows
      BY <2>3
    <3>2. row.figure \in Nat
      BY <2>1, <3>1
    <3>3. CellOf(rows, fw, case).value = IF Measured(row) THEN row.figure ELSE 0
      BY <2>3 DEF CellOf
    <3>. HIDE DEF row
    <3>. QED
      BY <3>2, <3>3 DEF rows
  <2>. QED
    BY <2>2, <2>3
<1>5. ASSUME NEW mode
      PROVE  LET section == Section(run, mode, MergeEntries(Loaded(runs), mode), case)
             IN  Agrees(HeadlineSummary(section), section)
  <2>. DEFINE cells == [fw \in Frameworks |-> CellOf(MergeEntries(Loaded(runs), mode), fw, case)]
  <2>1. DOMAIN cells = Frameworks /\ \A fw \in Frameworks : cells[fw].value \in Nat
    BY <1>4
  <2>2. Section(run, mode, MergeEntries(Loaded(runs), mode), case) = Counted(run, mode, cells)
    BY DEF Section
  <2>. HIDE DEF cells
  <2>. QED
    BY <2>1, <2>2, CountedAgrees
<1>6. /\ \E S : sections \in Seq(S)
      /\ \A i, j \in 1 .. Len(sections) : sections[i].mode = sections[j].mode => i = j
      /\ \A i \in 1 .. Len(sections) :
           /\ sections[i].run = run
           /\ \/ sections[i] = Section(run, "single_e2e", merged.results, case)
              \/ sections[i] = Section(run, "throughput", merged.throughput, case)
  BY SectionsAre
<1>. HIDE DEF sections
<1>7. \A i \in 1 .. Len(sections) : Agrees(HeadlineSummary(sections[i]), sections[i])
  BY <1>3, <1>5, <1>6
<1>. QED
  BY <1>2, <1>6, <1>7

\* One section of a run and mode.
Single(sections) ==
  \A i, j \in 1 .. Len(sections) :
     sections[i].run = sections[j].run /\ sections[i].mode = sections[j].mode => i = j

LEMMA RepublishedIs ==
  ASSUME NEW S, NEW old \in Seq(S), Single(old), NEW T, NEW sections \in Seq(T), NEW run,
         \A i \in 1 .. Len(sections) : sections[i].run = run,
         \A i, j \in 1 .. Len(sections) : sections[i].mode = sections[j].mode => i = j
  PROVE  Single(Republished(old, run, sections)) /\ Republished(old, run, sections) \in Seq(S \cup T)
<1>. DEFINE others == {s \in ToSet(old) : s.run # run}
            kept == Kept(old, others)
            now == sections \o kept
            n == Len(sections)
            U == S \cup T
<1>1. kept \in Seq(S) /\ \E m : Places(m, kept, Len(old), old, others)
  BY KeptPlaces
<1>2. PICK m : Places(m, kept, Len(old), old, others)
  BY <1>1
<1>. HIDE DEF kept, others
<1>3. Len(kept) \in Nat /\ Len(old) \in Nat
  BY <1>1
<1>4. \A j \in 1 .. Len(kept) : m[j] \in 1 .. Len(old) /\ kept[j] = old[m[j]] /\ kept[j].run # run
  BY <1>2 DEF Places, others
<1>5. \A j, q \in 1 .. Len(kept) : m[j] = m[q] => j = q
  <2>1. \A j, q \in 1 .. Len(kept) : j < q => m[j] < m[q]
    BY <1>2 DEF Places
  <2>2. \A j, q \in 1 .. Len(kept) : j < q \/ q < j \/ j = q
    BY <1>3
  <2>3. \A j \in 1 .. Len(kept) : m[j] \in Int
    BY <1>3, <1>4
  <2>. QED
    BY <2>1, <2>2, <2>3
<1>6. Single(kept)
  <2>1. SUFFICES ASSUME NEW i \in 1 .. Len(kept), NEW j \in 1 .. Len(kept),
                        kept[i].run = kept[j].run, kept[i].mode = kept[j].mode
                 PROVE  i = j
    BY DEF Single
  <2>2. old[m[i]].run = old[m[j]].run /\ old[m[i]].mode = old[m[j]].mode
    BY <2>1, <1>4
  <2>3. m[i] = m[j]
    BY <2>2, <1>4 DEF Single
  <2>. QED
    BY <2>3, <1>5
<1>7. sections \in Seq(U) /\ kept \in Seq(U)
  <2>1. sections = [i \in 1 .. n |-> sections[i]] /\ n \in Nat /\ \A i \in 1 .. n : sections[i] \in U
    OBVIOUS
  <2>2. kept = [i \in 1 .. Len(kept) |-> kept[i]] /\ Len(kept) \in Nat /\ \A i \in 1 .. Len(kept) : kept[i] \in U
    BY <1>1
  <2>. HIDE DEF U, n
  <2>. QED
    BY <2>1, <2>2 DEF n
<1>. HIDE DEF U
<1>8. /\ now \in Seq(U) /\ Len(now) = n + Len(kept) /\ n \in Nat
      /\ \A i \in 1 .. n : now[i] = sections[i]
      /\ \A i \in 1 .. Len(kept) : now[n + i] = kept[i]
  BY <1>7, Joined
<1>. HIDE DEF now, n
<1>9. ASSUME NEW i \in 1 .. Len(now)
      PROVE  \/ i \in 1 .. n /\ now[i] = sections[i]
             \/ i - n \in 1 .. Len(kept) /\ now[i] = kept[i - n]
  <2>1. CASE i <= n
    <3>1. i \in 1 .. n
      BY <2>1, <1>3, <1>8
    <3>. QED
      BY <3>1, <1>8
  <2>2. CASE ~ (i <= n)
    <3>1. i - n \in 1 .. Len(kept) /\ n + (i - n) = i
      BY <2>2, <1>3, <1>8
    <3>. QED
      BY <3>1, <1>8
  <2>. QED
    BY <2>1, <2>2
<1>10. Single(now)
  <2>1. SUFFICES ASSUME NEW i \in 1 .. Len(now), NEW j \in 1 .. Len(now),
                        now[i].run = now[j].run, now[i].mode = now[j].mode
                 PROVE  i = j
    BY DEF Single
  <2>2. CASE i \in 1 .. n /\ j \in 1 .. n
    BY <2>1, <2>2, <1>8 DEF n
  <2>3. ASSUME NEW q \in 1 .. Len(now)
        PROVE  /\ q \in 1 .. n => now[q].run = run
               /\ q \notin 1 .. n => now[q].run # run
    <3>1. CASE q \in 1 .. n
      <4>1. now[q] = sections[q] /\ sections[q].run = run
        BY <3>1, <1>8 DEF n
      <4>. QED
        BY <3>1, <4>1
    <3>2. CASE q \notin 1 .. n
      <4>1. q - n \in 1 .. Len(kept) /\ now[q] = kept[q - n]
        BY <3>2, <1>9
      <4>. QED
        BY <3>2, <4>1, <1>4
    <3>. QED
      BY <3>1, <3>2
  <2>4. i \in 1 .. n <=> j \in 1 .. n
    BY <2>1, <2>3
  <2>5. CASE i \notin 1 .. n /\ j \notin 1 .. n
    <3>1. /\ i - n \in 1 .. Len(kept) /\ j - n \in 1 .. Len(kept)
          /\ now[i] = kept[i - n] /\ now[j] = kept[j - n]
      BY <2>5, <1>9
    <3>2. i - n = j - n
      BY <2>1, <3>1, <1>6 DEF Single
    <3>. QED
      BY <3>2, <1>3, <1>8
  <2>. QED
    BY <2>2, <2>4, <2>5
<1>. QED
  BY <1>8, <1>10 DEF Republished, now, kept, others, U

PageInv ==
  /\ \E S : history \in Seq(S)
  /\ Single(history)
  /\ Agrees(latest.headline, latest.table)
  /\ \E S : publishing \in Seq(S)
  /\ \A i \in 1 .. Len(publishing) : Agrees(HeadlineSummary(publishing[i]), publishing[i])

LEMMA PageInductive == LifeSpec => []PageInv
<1>1. LifeInit => PageInv
  <2>1. SUFFICES ASSUME LifeInit PROVE PageInv
    OBVIOUS
  <2>2. history = <<>> /\ publishing = <<>> /\ history \in Seq({}) /\ publishing \in Seq({})
    BY <2>1 DEF LifeInit
  <2>3. Len(history) = 0 /\ Len(publishing) = 0
    BY <2>2
  <2>4. Agrees(latest.headline, latest.table)
    BY <2>1 DEF LifeInit, NoSection, Agrees
  <2>5. Single(history) /\ \A i \in 1 .. Len(publishing) : Agrees(HeadlineSummary(publishing[i]), publishing[i])
    BY <2>3 DEF Single
  <2>. QED
    BY <2>2, <2>4, <2>5 DEF PageInv
<1>2. LifeInv /\ PageInv /\ [LifeNext]_lifeVars => PageInv'
  <2>1. SUFFICES ASSUME LifeInv, PageInv, [LifeNext]_lifeVars PROVE PageInv'
    OBVIOUS
  <2>2. UNCHANGED <<history, latest, publishing>> => PageInv'
    BY <2>1 DEF PageInv, Single
  <2>3. ASSUME NEW run \in RunIds, NEW keepLatest \in BOOLEAN, MergeAndPublish(run, keepLatest) PROVE PageInv'
    <3>. DEFINE now == PublicationUnder[editable][artifacts]
                sections == now.sections[run]
    <3>1. /\ artifacts # <<>>
          /\ UNCHANGED latest
          /\ \/ UNCHANGED <<history, publishing>>
             \/ /\ history' = Republished(history, run, sections)
                /\ publishing' = sections \/ publishing' = <<>>
      BY <2>3 DEF MergeAndPublish
    <3>2. editable \in Passing /\ IsRunList(artifacts)
      BY <2>1, <3>1, RunsAreListed DEF LifeInv, Runs, Files, IsRunList
    <3>3. /\ \E S : sections \in Seq(S)
          /\ \A i \in 1 .. Len(sections) :
               sections[i].run = run /\ Agrees(HeadlineSummary(sections[i]), sections[i])
          /\ \A i, j \in 1 .. Len(sections) : sections[i].mode = sections[j].mode => i = j
      BY <3>2, SectionsAgree
    <3>. HIDE DEF sections
    <3>4. CASE UNCHANGED <<history, publishing>>
      BY <3>1, <3>4, <2>2
    <3>5. CASE /\ history' = Republished(history, run, sections)
               /\ publishing' = sections \/ publishing' = <<>>
      <4>1. PICK S : history \in Seq(S)
        BY <2>1 DEF PageInv
      <4>2. PICK T : sections \in Seq(T)
        BY <3>3
      <4>3. history' \in Seq(S \cup T) /\ Single(Republished(history, run, sections))
        <5>1. Single(history)
          BY <2>1 DEF PageInv
        <5>. QED
          BY <3>3, <3>5, <4>1, <4>2, <5>1, RepublishedIs
      <4>4. Single(history)'
        BY <3>5, <4>3 DEF Single
      <4>5. /\ \E V : publishing' \in Seq(V)
            /\ \A i \in 1 .. Len(publishing') : Agrees(HeadlineSummary(publishing'[i]), publishing'[i])
        <5>1. CASE publishing' = sections
          BY <3>3, <5>1
        <5>2. CASE publishing' = <<>>
          <6>1. publishing' \in Seq({}) /\ Len(publishing') = 0
            BY <5>2
          <6>. QED
            BY <6>1
        <5>. QED
          BY <3>5, <5>1, <5>2
      <4>6. Agrees(latest'.headline, latest'.table)
        BY <2>1, <3>1 DEF PageInv
      <4>. QED
        BY <4>3, <4>4, <4>5, <4>6 DEF PageInv
    <3>. QED
      BY <3>1, <3>4, <3>5
  <2>4. CASE WriteLatest
    <3>. DEFINE singles == Kept(publishing, {s \in ToSet(publishing) : s.mode = "single_e2e"})
    <3>1. /\ publishing' = <<>> /\ UNCHANGED history
          /\ latest' = LatestOf(latest, publishing[1].run, publishing)
      BY <2>4 DEF WriteLatest
    <3>2. singles # <<>> => Agrees(HeadlineSummary(singles[1]), singles[1])
      <4>1. PICK S : publishing \in Seq(S)
        BY <2>1 DEF PageInv
      <4>2. singles # <<>> => singles[1] \in ToSet(publishing)
        BY <4>1, KeptElements
      <4>. HIDE DEF singles
      <4>. QED
        BY <2>1, <4>2 DEF PageInv, ToSet
    <3>3. latest'.table = (IF singles = <<>> THEN latest.table ELSE singles[1])
          /\ latest'.headline = (IF singles = <<>> THEN latest.headline ELSE HeadlineSummary(singles[1]))
      BY <3>1 DEF LatestOf
    <3>. HIDE DEF singles
    <3>4. Agrees(latest'.headline, latest'.table)
      BY <2>1, <3>2, <3>3 DEF PageInv
    <3>5. publishing' \in Seq({}) /\ Len(publishing') = 0
      BY <3>1
    <3>6. (\E S : history' \in Seq(S)) /\ Single(history)'
      BY <2>1, <3>1 DEF PageInv, Single
    <3>. QED
      BY <3>4, <3>5, <3>6 DEF PageInv
  <2>5. CASE PublisherDies
    <3>1. publishing' = <<>> /\ UNCHANGED <<history, latest>>
      BY <2>5 DEF PublisherDies
    <3>2. publishing' \in Seq({}) /\ Len(publishing') = 0
      BY <3>1
    <3>. QED
      BY <2>1, <3>1, <3>2 DEF PageInv, Single
  <2>. QED
    BY <2>1, <2>2, <2>3, <2>4, <2>5 DEF LifeNext, lifeVars, page, Edit, BuildWritesEditable,
       BuildWritesPackaged, BuildDies, RunComparison
<1>. QED
  BY <1>1, <1>2, LifeInductive, PTL DEF LifeSpec

\* Whatever is published again, kept from the front or cut off between the
\* two files of publish_bench_run.py: one section of a run and mode, and a
\* headline that claims what its own table's section claims.
THEOREM PageAlwaysAgrees == LifeSpec => []PageAgrees
<1>1. PageInv => PageAgrees
  BY DEF PageInv, PageAgrees, Single, Agrees
<1>. QED
  BY <1>1, PageInductive, PTL

=============================================================================
