---------------------------- MODULE BiweeklyRun -----------------------------
(***************************************************************************)
(* scripts/biweekly_fair_bench.sh: acquire a devbox, start the matrix on   *)
(* it, watch it, pull the result, publish it, release the box.  Several    *)
(* runs of the script may overlap: it is run by launchd and "safe to run   *)
(* by hand".  They meet in the directory on /personal, which outlives the  *)
(* boxes: the markers and the result of a RUN_ID (which holds the date and *)
(* no time), and the part_ files, which belong to no RUN_ID at all; and on *)
(* the machine of the script, in the RAW and MERGED files of a RUN_ID.     *)
(*                                                                         *)
(* A remote command that only reads, or writes at once, is one action; the *)
(* launch tests its marker in one step and sets it in another. The         *)
(* transport may lose a command or its answer, and rxrun sends the launch  *)
(* again, whatever has become of the one before. An action that leaves the *)
(* script runs its EXIT trap: what the trap salvages is for a human, and   *)
(* what it releases is the box.                                            *)
(***************************************************************************)
EXTENDS Integers, Sequences

CONSTANTS
  Run,      (* runs of the script                                          *)
  RunId,    (* values of RUN_ID                                            *)
  Ids,      (* the RUN_IDs the runs may have, together                     *)
  Personal, (* the directory on /personal; on a full disk a run uses a     *)
            (* directory of its own, on its box, named here like the run   *)
  Retries,  (* how often rxrun tries again: 4 in the code                  *)
  MaxParts, (* bound: the chunks of a result                               *)
  Lossy,    (* bound: the runs, each with its RUN_ID, whose launches may   *)
            (* be lost                                                     *)
  Sizes,    (* bound: the RUN_IDs, each with a number of chunks its        *)
            (* results may have                                            *)
  Watched   (* the runs of which EndIsNoticed speaks, and whose watch      *)
            (* loops alone it takes to be fair                             *)

ASSUME BiweeklyAssumption ==
  /\ Personal \notin Run
  /\ Ids \subseteq [Run -> RunId]
  /\ Retries \in Nat /\ MaxParts \in Nat \ {0}
  /\ Watched \subseteq Run

Dir == Run \cup {Personal}
LaunchNo == 0..Retries

\* A result file: the run whose runner wrote it, and its length in chunks, of
\* which a checkpoint has one.
Result == [by : Run, size : 1..MaxParts]

NoFile == [by |-> Personal, size |-> 1]

VARIABLES
  id,        (* each run's RUN_ID                                          *)
  pc,        (* where each run stands                                      *)
  box,       (* its devbox: none, held, or gone (released or expired)      *)
  dir,       (* PERSIST                                                    *)
  exec,      (* each attempt's launch command on the box: sent, past its   *)
             (* test of .started, stopped by it ("guarded"), or run: its   *)
             (* matrix is up, or has ended                                 *)
  tries,     (* the attempt to launch that rxrun is at                     *)
  streak,    (* DEAD_STREAK, while the watch loop runs                     *)
  started,   (* the <<dir, id>> that have a .started file                  *)
  done,      (* those that have a .done file                               *)
  raced,     (* those whose guard two launches were inside of at a time    *)
  result,    (* the result file of each <<dir, id>>                        *)
  parts,     (* the files part_0n of each directory                        *)
  todo,      (* the chunks a run has yet to pull                           *)
  sum,       (* REMOTE_MD5: the result it was taken of                     *)
  raw,       (* the RAW file of each RUN_ID, on the script's machine       *)
  mergedOf,  (* what its MERGED file was built from                        *)
  torn,      (* the RUN_IDs whose RAW a run wrote while another, which had *)
             (* checked it, was about to read it again                     *)
  published  (* what a run has published; <<>> if nothing                  *)

script == <<pc, tries, streak, dir>>
marks  == <<started, done, raced>>
files  == <<result, parts>>
pull   == <<todo, sum, raw, mergedOf, torn, published>>

vars == <<id, script, box, exec, marks, files, pull>>

Chunk == (Result \X (1..MaxParts)) \cup {<<>>}
Key == Dir \X RunId
key(r) == <<dir[r], id[r]>>

TypeOK ==
  /\ id \in [Run -> RunId]
  /\ pc \in [Run -> {"acquire", "setup", "launch", "watch", "probe", "split",
                     "truncate", "list", "chunks", "md5", "build", "publish",
                     "ended"}]
  /\ box \in [Run -> {"none", "held", "gone"}]
  /\ dir \in [Run -> Dir]
  /\ exec \in [Run -> [LaunchNo -> {"none", "sent", "passed", "guarded", "up",
                                    "ended"}]]
  /\ tries \in [Run -> LaunchNo]
  /\ streak \in [Run -> 0..2]
  /\ started \subseteq Key /\ done \subseteq started /\ raced \subseteq Key
  /\ result \in [Key -> Result \cup {NoFile}]
  /\ parts \in [Dir -> [1..MaxParts -> Chunk]]
  /\ todo \in [Run -> SUBSET (1..MaxParts)]
  /\ sum \in [Run -> Result \cup {NoFile}]
  /\ raw \in [RunId -> Seq(Chunk)]
  /\ mergedOf \in [RunId -> Seq(Chunk)]
  /\ torn \subseteq RunId
  /\ published \in [Run -> Seq(Chunk)]

Init ==
  /\ id \in Ids
  /\ pc = [r \in Run |-> "acquire"]
  /\ box = [r \in Run |-> "none"]
  /\ dir = [r \in Run |-> Personal]
  /\ exec = [r \in Run |-> [a \in LaunchNo |-> "none"]]
  /\ tries = [r \in Run |-> 0]
  /\ streak = [r \in Run |-> 0]
  /\ started = {} /\ done = {} /\ raced = {}
  /\ result = [k \in Key |-> NoFile]
  /\ parts = [d \in Dir |-> [i \in 1..MaxParts |-> <<>>]]
  /\ todo = [r \in Run |-> {}]
  /\ sum = [r \in Run |-> NoFile]
  /\ raw = [i \in RunId |-> <<>>]
  /\ mergedOf = [i \in RunId |-> <<>>]
  /\ torn = {}
  /\ published = [r \in Run |-> <<>>]

-----------------------------------------------------------------------------
At(r, from) == pc[r] = from
Goto(r, from, to) == At(r, from) /\ pc' = [pc EXCEPT ![r] = to]

Started(r, a) == exec[r][a] \in {"up", "ended"}

\* The box is gone, and with it every process on it.
BoxGone(r) ==
  /\ box' = [box EXCEPT ![r] = "gone"]
  /\ exec' = [exec EXCEPT ![r] =
               [a \in LaunchNo |-> IF Started(r, a) THEN "ended" ELSE "none"]]

\* log FATAL and exit 1, or the end of the script.  The trap releases the box;
\* rx devbox release is not run through rxrun: one failure, and it stays.
Exit(r, from) ==
  /\ Goto(r, from, "ended")
  /\ BoxGone(r) \/ UNCHANGED <<box, exec>>
  /\ tries' = [tries EXCEPT ![r] = 0]
  /\ streak' = [streak EXCEPT ![r] = 0]
  /\ UNCHANGED <<id, dir, marks, files>>

Reachable(r) == box[r] = "held"

Acquire(r) ==
  /\ Goto(r, "acquire", "setup")
  /\ box' = [box EXCEPT ![r] = "held"]
  /\ UNCHANGED <<id, dir, exec, tries, streak, marks, files, pull>>

\* rx devbox acquire fails, with a box acquired or not.  BOX_ACQUIRED is not
\* set, and the trap releases nothing.
AcquireFails(r) ==
  /\ Goto(r, "acquire", "ended")
  /\ \E b \in {"none", "held"} : box' = [box EXCEPT ![r] = b]
  /\ UNCHANGED <<id, dir, exec, tries, streak, marks, files, pull>>

\* The box becomes executable and everything is installed on it; a full
\* /personal makes the run use its box's own disk. The launch is sent.
Setup(r) ==
  /\ Goto(r, "setup", "launch")
  /\ Reachable(r)
  /\ \E d \in {Personal, r} : dir' = [dir EXCEPT ![r] = d]
  /\ exec' = [exec EXCEPT ![r][0] = "sent"]
  /\ UNCHANGED <<id, box, tries, streak, marks, files, pull>>

SetupFails(r) == Exit(r, "setup") /\ UNCHANGED pull

-----------------------------------------------------------------------------
(* The launch, and the runner on the box.                                  *)

\* An execution of the remote command between its test and its touch.
Inside(r, a) == box[r] = "held" /\ exec[r][a] = "passed"

\* Mutant of GuardTest: the marker is not looked at.
GuardTestNothing(r, a) ==
  /\ exec' = [exec EXCEPT ![r][a] = "passed"]
  /\ UNCHANGED raced

\* "if [ -e .started ]": GUARD_HIT, or on to the branch that starts.
GuardTest(r, a) ==
  IF key(r) \in started
  THEN exec' = [exec EXCEPT ![r][a] = "guarded"] /\ UNCHANGED raced
  ELSE /\ exec' = [exec EXCEPT ![r][a] = "passed"]
       /\ raced' = IF \E s \in Run, b \in LaunchNo :
                         key(s) = key(r) /\ Inside(s, b)
                   THEN raced \cup {key(r)} ELSE raced

\* An attempt's command comes to its test, as long as there is a box: also an
\* attempt that rxrun took for lost, while a later one is under way.
LaunchTest(r, a) ==
  /\ Reachable(r) /\ exec[r][a] = "sent"
  /\ GuardTest(r, a)
  /\ UNCHANGED <<id, script, box, started, done, files, pull>>

\* It touches .started and starts the matrix in a session of its own.
LaunchStart(r, a) ==
  /\ Inside(r, a)
  /\ exec' = [exec EXCEPT ![r][a] = "up"]
  /\ started' = started \cup {key(r)}
  /\ UNCHANGED <<id, script, box, done, raced, files, pull>>

\* The command has run and its answer arrives. It holds RUNNER_UP: the pgrep -f
\* that decides it also finds the shell it runs in, whose command line names
\* the runner.
Launch(r) ==
  /\ Goto(r, "launch", "watch")
  /\ Reachable(r) /\ exec[r][tries[r]] \in {"guarded", "up", "ended"}
  /\ tries' = [tries EXCEPT ![r] = 0]
  /\ UNCHANGED <<id, box, dir, exec, streak, marks, files, pull>>

\* The command or its answer is lost, and rxrun runs it again.
LaunchAgain(r) ==
  /\ At(r, "launch") /\ tries[r] < Retries /\ <<r, id[r]>> \in Lossy
  /\ tries' = [tries EXCEPT ![r] = @ + 1]
  /\ exec' = [exec EXCEPT ![r][tries[r] + 1] = "sent"]
  /\ UNCHANGED <<id, pc, box, dir, streak, marks, files, pull>>

\* No answer holds RUNNER_UP.
LaunchFails(r) == Exit(r, "launch") /\ UNCHANGED pull

Up(r) == \E a \in LaunchNo : exec[r][a] = "up"

Write(r, c) == result' = [result EXCEPT ![key(r)] = c]

\* A checkpoint.
RunnerSaves(r, a) ==
  /\ exec[r][a] = "up"
  /\ Write(r, [by |-> r, size |-> 1])
  /\ UNCHANGED <<id, script, box, exec, marks, parts, pull>>

\* diffusion-bench-compare ends, with the final artifact or without, and the
\* shell around it writes its exit code to .done.
RunnerEnds(r, a) ==
  /\ exec[r][a] = "up"
  /\ exec' = [exec EXCEPT ![r][a] = "ended"]
  /\ done' = done \cup {key(r)}
  /\ \/ \E n \in 1..MaxParts :
          <<id[r], n>> \in Sizes /\ Write(r, [by |-> r, size |-> n])
     \/ UNCHANGED result
  /\ UNCHANGED <<id, script, box, started, raced, parts, pull>>

\* It is killed together with that shell.
RunnerDies(r, a) ==
  /\ exec[r][a] = "up"
  /\ exec' = [exec EXCEPT ![r][a] = "ended"]
  /\ UNCHANGED <<id, script, box, marks, files, pull>>

BoxStep(r, a) ==
  \/ LaunchTest(r, a) \/ LaunchStart(r, a)
  \/ RunnerSaves(r, a) \/ RunnerEnds(r, a) \/ RunnerDies(r, a)

\* The box reaches its time to live.
Expire(r) ==
  /\ Reachable(r) /\ BoxGone(r)
  /\ UNCHANGED <<id, script, marks, files, pull>>

-----------------------------------------------------------------------------
(* The watch loop.                                                         *)

\* What the loop does by itself: it moves, and it counts.
Watches(r, from, to, n) ==
  /\ Goto(r, from, to)
  /\ streak' = [streak EXCEPT ![r] = n]
  /\ UNCHANGED <<id, box, dir, exec, tries, marks, files, pull>>

SeesDone(r) ==
  /\ Reachable(r) /\ key(r) \in done
  /\ Watches(r, "watch", "split", 0)

\* There is no .done file, or no answer.
NotDone(r) == Watches(r, "watch", "probe", streak[r])

Alive(r) == Reachable(r) /\ Up(r) /\ Watches(r, "probe", "watch", 0)

Dead(r) ==
  /\ Reachable(r) /\ ~Up(r) /\ streak[r] < 2
  /\ Watches(r, "probe", "watch", streak[r] + 1)

\* "FATAL: runner gone on 3 consecutive checks"
DeadThrice(r) ==
  /\ Exit(r, "probe")
  /\ Reachable(r) /\ ~Up(r) /\ streak[r] = 2
  /\ UNCHANGED pull

\* Mutant of Unreachable: a probe without an answer resets the count.
UnreachableResets(r) == Watches(r, "probe", "watch", 0)

\* "liveness probe unreachable -- assuming the run is fine"
Unreachable(r) == Watches(r, "probe", "watch", streak[r])

-----------------------------------------------------------------------------
(* Pull and publish.                                                       *)

Chunks(c) == [i \in 1..c.size |-> <<c, i>>]

\* split writes the parts of the result, and removes none that is there.
Split(r) ==
  /\ Goto(r, "split", "truncate")
  /\ LET c == result[key(r)]
     IN  \/ /\ Reachable(r) /\ c # NoFile
            /\ parts' = [parts EXCEPT ![dir[r]] =
                 [i \in 1..MaxParts |-> IF i <= c.size THEN <<c, i>> ELSE @[i]]]
         \/ UNCHANGED parts
  /\ UNCHANGED <<id, box, dir, exec, tries, streak, marks, result, pull>>

\* RAW is written, by whichever run of the RUN_ID is at it: also while another
\* that has compared the checksums is about to read it again.
WriteRaw(r, content) ==
  /\ raw' = [raw EXCEPT ![id[r]] = content]
  /\ torn' = IF \E s \in Run : id[s] = id[r] /\ pc[s] = "build"
             THEN torn \cup {id[r]} ELSE torn

\* : > RAW
Truncate(r) ==
  /\ Goto(r, "truncate", "list")
  /\ WriteRaw(r, <<>>)
  /\ UNCHANGED <<id, box, dir, exec, tries, streak, marks, files, todo, sum,
                 mergedOf, published>>

\* ls part_*, empty when there is no answer.
List(r) ==
  /\ Goto(r, "list", "chunks")
  /\ \E found \in {{}, {i \in 1..MaxParts : parts[dir[r]][i] # <<>>}} :
       /\ found # {} => Reachable(r)
       /\ todo' = [todo EXCEPT ![r] = found]
  /\ UNCHANGED <<id, box, dir, exec, tries, streak, marks, files, sum, raw,
                 mergedOf, torn, published>>

\* One chunk is appended: as it is now, or (its transfer was cut and tried
\* again, or failed) something else, or nothing.
PullChunk(r) ==
  /\ At(r, "chunks")
  /\ \E i \in todo[r] :
       /\ \A j \in todo[r] : i <= j
       /\ todo' = [todo EXCEPT ![r] = @ \ {i}]
       /\ \E got \in {<<parts[dir[r]][i]>>, << <<>> >>, <<>>} :
            /\ got = <<parts[dir[r]][i]>> => Reachable(r)
            /\ WriteRaw(r, raw[id[r]] \o got)
  /\ UNCHANGED <<id, script, box, exec, marks, files, sum, mergedOf, published>>

\* md5sum there; nothing when the answer is lost.
RemoteMd5(r) ==
  /\ Goto(r, "chunks", "md5")
  /\ todo[r] = {}
  /\ \E c \in {result[key(r)], NoFile} :
       /\ c # NoFile => Reachable(r)
       /\ sum' = [sum EXCEPT ![r] = c]
  /\ UNCHANGED <<id, box, dir, exec, tries, streak, marks, files, todo, raw,
                 mergedOf, torn, published>>

\* Mutant of SameMd5: the length is compared.
SameLength(r) == Len(raw[id[r]]) = sum[r].size

\* md5sum here, of RAW as it is now.
SameMd5(r) == sum[r] # NoFile /\ raw[id[r]] = Chunks(sum[r])

Verified(r) ==
  /\ Goto(r, "md5", "build")
  /\ SameMd5(r)
  /\ sum' = [sum EXCEPT ![r] = NoFile]
  /\ UNCHANGED <<id, box, dir, exec, tries, streak, marks, files, todo, raw,
                 mergedOf, torn, published>>

\* "FATAL: result transfer corrupted"
NotVerified(r) ==
  /\ Exit(r, "md5")
  /\ ~SameMd5(r)
  /\ sum' = [sum EXCEPT ![r] = NoFile]
  /\ UNCHANGED <<todo, raw, mergedOf, torn, published>>

\* build_report_artifacts reads RAW again, and makes MERGED of it (and warns of
\* a partial source). An empty file is not JSON; other contents may be.
Build(r) ==
  /\ Goto(r, "build", "publish")
  /\ raw[id[r]] # <<>>
  /\ mergedOf' = [mergedOf EXCEPT ![id[r]] = raw[id[r]]]
  /\ UNCHANGED <<id, box, dir, exec, tries, streak, marks, files, todo, sum,
                 raw, torn, published>>

BuildFails(r) == Exit(r, "build") /\ UNCHANGED pull

\* publish_bench_run reads MERGED; git commit and push.
Publish(r) ==
  /\ Exit(r, "publish")
  /\ published' = [published EXCEPT ![r] = mergedOf[id[r]]]
  /\ UNCHANGED <<todo, sum, raw, mergedOf, torn>>

PublishFails(r) == Exit(r, "publish") /\ UNCHANGED pull

WatchStep(r) ==
  SeesDone(r) \/ NotDone(r) \/ Alive(r) \/ Dead(r) \/ DeadThrice(r)
  \/ Unreachable(r)

PullStep(r) ==
  \/ Split(r) \/ Truncate(r) \/ List(r) \/ PullChunk(r)
  \/ RemoteMd5(r) \/ Verified(r) \/ NotVerified(r)
  \/ Build(r) \/ BuildFails(r) \/ Publish(r) \/ PublishFails(r)

ScriptStep(r) ==
  \/ Acquire(r) \/ AcquireFails(r)
  \/ Setup(r) \/ SetupFails(r) \/ Launch(r) \/ LaunchAgain(r) \/ LaunchFails(r)
  \/ WatchStep(r) \/ PullStep(r)

Next ==
  \E r \in Run :
    \/ ScriptStep(r) \/ Expire(r)
    \/ \E a \in LaunchNo : BoxStep(r, a)

Spec == Init /\ [][Next]_vars

\* The loop goes on, and the transport answers it again and again.
Fairness(r) ==
  /\ WF_vars(WatchStep(r))
  /\ SF_vars(SeesDone(r) \/ Dead(r) \/ DeadThrice(r))

FairSpec == Spec /\ \A r \in Watched : Fairness(r)

-----------------------------------------------------------------------------
(* Properties.                                                             *)

Whole(content, i) == \E c \in Result : content = Chunks(c) /\ id[c.by] = i

\* What is published is one result file of the run's RUN_ID, whole, whatever
\* chunks of other results lie beside its own, however they are read, and
\* whoever else writes to RAW while it is filled: unless a run of the same
\* RUN_ID wrote to RAW between the check of another and its next reading.
PublishedIsOneResult ==
  \A r \in Run :
    published[r] # <<>> /\ id[r] \notin torn => Whole(published[r], id[r])

\* "results verified": the same, whoever writes to RAW. The code does not keep
\* it: what is published is read from RAW again after the check.
PublishedIsVerified ==
  \A r \in Run : published[r] # <<>> => Whole(published[r], id[r])

\* However often its launch is lost and sent again, however late a lost one
\* runs, and whoever else runs on that day, a result file has one writer: unless
\* two launches were between the test and the touch of its .started at a time.
OneWriter ==
  \A r, s \in Run : \A a, b \in LaunchNo :
    /\ Started(r, a) /\ Started(s, b)
    /\ key(r) = key(s) /\ key(r) \notin raced
    => r = s /\ a = b

\* "safe to run by hand": the same, without that exception. The code does not
\* keep it: two launches may both find no .started.
OneWriterAlways ==
  \A r, s \in Run : \A a, b \in LaunchNo :
    Started(r, a) /\ Started(s, b) /\ key(r) = key(s) => r = s /\ a = b

\* However many probes are lost in between, a run whose runner is not up stops
\* watching for it, as long as its box is there to answer and no lost launch
\* starts one after all.
EndIsNoticed ==
  \A r \in Watched :
    pc[r] \in {"watch", "probe"} /\ ~Up(r)
      ~> pc[r] \notin {"watch", "probe"} \/ box[r] # "held" \/ Up(r)

\* A launch that passes has reported "whether the runner is actually up".
\* The code violates it: pgrep -f finds the launching shell itself.
RunnerUpAtLaunch ==
  [][\A r \in Run :
       pc[r] = "launch" /\ pc'[r] = "watch" => Up(r)']_vars

=============================================================================
