---------------------------- MODULE ConfigLife ----------------------------
(* The life of a case's configuration: it is edited, built into two files, *)
(* run on boxes from the packaged file, and its rows are checked against    *)
(* the editable file and published. Nothing locks any of this: an edit or a *)
(* build may come between a run and the publication of its rows, and a      *)
(* build or a publication may die between its two files.                    *)
EXTENDS Publication

CONSTANTS
    Catalog,            \* the contents the case's source file may have, named
    Circumstances,      \* what runs are told and meet, named: [box, explicit, outcome, modes]
    RunIds,             \* ids given to publications
    MaxEdits, MaxRuns, MaxPublications      \* bounds of the exploration

Exceptions == {"none", "dated", "undated"}

Settings == [compile : {"unset", "on", "off"}, offload : {"unset", "on", "off"}]

CommandProfile ==
    [key : STRING \ {NoProfile.key, NoName}, name : Texts, hardware : SUBSET Texts,
     args : Seq(STRING), gpus : Nat, opts : Settings, env : STRING,
     exception : Exceptions, speed : Nat]

IsEntry(entry) ==
    /\ entry.profiles \in Seq(CommandProfile)
    /\ entry.args \in Seq(STRING)
    /\ entry.gpus \in Nat
    /\ entry.opts \in Settings
    /\ entry.exception \in Exceptions

\* As in every case file: sglang is supported, has profiles, and each of them
\* has arguments of its own, which are all that the lint of sglang looks at.
ASSUME CatalogAssumption ==
    \A s \in DOMAIN Catalog :
        /\ \A fw \in Frameworks : IsEntry(Catalog[s][fw])
        /\ LET entry == Catalog[s]["sglang"] IN
           /\ entry.status = "supported" /\ entry.profiles # <<>>
           /\ \A p \in ToSet(entry.profiles) : p.args # NoArgs

VARIABLES
    source,             \* configs/benchmark/cases/...: a name of the catalog
    editable,           \* configs/comparison_configs.json: what it was built from
    packaged,           \* src/diffusion_bench/comparison_configs.json, likewise
    building,           \* the build is between its two files
    artifacts,          \* the finished runs in the order of their files: [config, told]
    history, latest,    \* the two data files of the page
    publishing,         \* sections of a publication between its two files
    attempt,            \* to publish, until something else happens: for the properties
    edits, publications

lifeVars == <<source, editable, packaged, building, artifacts, history, latest,
              publishing, attempt, edits, publications>>

built == <<source, editable, packaged, building, edits>>
page  == <<history, latest, publishing, publications>>

NoAttempt == attempt' = <<>>

\* what the build makes of the contents it does not refuse
Config == [s \in {c \in DOMAIN Catalog : BuildPasses(Catalog[c])} |-> Built(Catalog[s])]

Passing == DOMAIN Config

NoSection == [run |-> "none", mode |-> "single_e2e", cells |-> <<>>, winner |-> "n/a",
              wins |-> 0, comparable |-> 0]

LifeInit ==
    /\ source \in Passing
    /\ editable = source
    /\ packaged = source
    /\ building = FALSE
    /\ artifacts = <<>>
    /\ history = <<>>
    /\ latest = [run |-> "none", table |-> NoSection,
                 headline |-> [comparable |-> 0, wins |-> 0]]
    /\ publishing = <<>>
    /\ attempt = <<>>
    /\ edits = 0
    /\ publications = 0

---------------------------------------------------------------------------
(* The configuration *)

Edit(s) ==
    /\ edits < MaxEdits
    /\ s # source
    /\ source' = s
    /\ edits' = edits + 1
    /\ NoAttempt
    /\ UNCHANGED <<editable, packaged, building, artifacts, page>>

\* A build that finds an error writes nothing; otherwise first the editable file.
BuildWritesEditable ==
    /\ ~ building
    /\ source \in Passing
    /\ editable # source \/ packaged # source
    /\ editable' = source
    /\ building' = TRUE
    /\ NoAttempt
    /\ UNCHANGED <<source, packaged, edits, artifacts, page>>

BuildWritesPackaged ==
    /\ building
    /\ packaged' = editable
    /\ building' = FALSE
    /\ NoAttempt
    /\ UNCHANGED <<source, editable, edits, artifacts, page>>

BuildDies ==
    /\ building
    /\ building' = FALSE
    /\ NoAttempt
    /\ UNCHANGED <<source, editable, packaged, edits, artifacts, page>>

---------------------------------------------------------------------------
(* A run *)

\* the artifact does not keep the environment variable
Hardware(box) ==
    [override |-> box.override, config |-> box.config, labels |-> box.labels, gpus |-> box.gpus]

\* what is measured: a latency, or requests per second
SpeedOf(p) == IF p.key = NoProfile.key THEN 1 ELSE p.speed

Row(fw, mode, r, box, outcome) ==
    [fw |-> fw, mode |-> mode, profile |-> r.profile.key, how |-> r.how,
     command  |-> BuildServerCmd(fw, r.cfg, box.extra, box.compileOff),
     opts     |-> ServerOpts(fw, r.cfg, box.compileOff),
     compile_disable |-> ServerEnv(r.cfg.env, box.compileOff),
     exception |-> r.exception,
     error    |-> IF \/ outcome = "fails" /\ fw = "sglang"
                     \/ VisibleGpus(box.seen, r.cfg.gpus) = NoGpus
                  THEN "server" ELSE "none",
     fallback |-> outcome = "fallback" /\ fw = "sglang",
     figure   |-> SpeedOf(r.profile)]

\* "fails": sglang's server; "fallback": sglang loads a component natively;
\* "killed": the matrix ends after its first framework, with its checkpoint
Outcomes == {"ok", "fails", "fallback", "killed"}

\* --sglang-profile, or the environment variable of the framework
Asked(c, fw) == IF fw \in DOMAIN c.explicit THEN c.explicit[fw] ELSE NoName

Entries(bodies, c, candidates) ==
    [fw \in {fw \in DOMAIN bodies : c.outcome = "killed" => fw = "sglang"} |->
        ResolveFrameworkConfig(bodies[fw], Asked(c, fw), candidates)]

\* Of a box: its hardware texts, its GPUs in sight, and what its environment
\* says of compile and of extra arguments; modes is all or throughput.
Told(run) == Circumstances[run.told]

Conditions == [config : Passing, told : DOMAIN Circumstances]

IsBox(box) ==
    /\ {box.gpus, box.labels, box.config, box.override, box.env} \subseteq Seq(STRING)
    /\ box.seen \in Nat
    /\ box.compileOff \in BOOLEAN
    /\ box.extra \in Seq(STRING)

ASSUME ConfigLifeAssumption ==
    /\ \A told \in DOMAIN Circumstances :
          /\ IsBox(Circumstances[told].box)
          /\ Circumstances[told].outcome \in Outcomes
          /\ Circumstances[told].modes \in {{"throughput"}, Modes}
    /\ {MaxEdits, MaxRuns, MaxPublications} \subseteq Nat

\* the artifact of the matrix of one box; an explicit profile that the entry
\* does not have raises before anything is run
ArtifactOf(entries, c) ==
    [raises   |-> \E fw \in DOMAIN entries : entries[fw].how = "unknown",
     hardware |-> Hardware(c.box),
     partial  |-> c.outcome = "killed",
     rows     |-> {Row(fw, mode, entries[fw], c.box, c.outcome) :
                      fw \in DOMAIN entries, mode \in c.modes}]

MatrixOn(case, c, candidates) ==
    ArtifactOf(Entries(ApplyHardwareStatuses(case, candidates).frameworks, c, candidates), c)

Artifact == [run \in Conditions |->
                MatrixOn(Config[run.config], Told(run), RunCandidates(Told(run).box))]

RunComparison(c) ==
    /\ Len(artifacts) < MaxRuns
    /\ c.config = packaged
    /\ ~ Artifact[c].raises
    /\ artifacts' = Append(artifacts, c)
    /\ NoAttempt
    /\ UNCHANGED <<built, page>>

---------------------------------------------------------------------------
(* Publication *)

Loaded(runs) == [i \in 1..Len(runs) |-> Artifact[runs[i]]]

\* what every series of artifacts comes to under every configuration
Published(loaded, merged, case) ==
    [merged   |-> merged,
     drift    |-> VerifyMergedCommands(merged, case, GateCandidates(loaded)),
     sections |-> [run \in RunIds |-> BuildSections(run, merged, case)]]

PublishedOf(loaded, case) == Published(loaded, MergeResults(loaded), case)

RunLists == UNION {[1..k -> Conditions] : k \in 1..MaxRuns}

PublicationUnder ==
    [config \in Passing |-> [runs \in RunLists |-> PublishedOf(Loaded(runs), Config[config])]]

\* merge, strict drift check, gates, and the first of the two files
MergeAndPublish(run, keepLatest) ==
    /\ artifacts # <<>>
    /\ publishing = <<>>
    /\ publications < MaxPublications
    /\ publications' = publications + 1
    /\ attempt' = [config |-> editable, run |-> run, runs |-> artifacts]
    /\ \E now \in {PublicationUnder[editable][artifacts]} :
          IF now.drift = {} /\ GatesPass(now.merged)
          THEN /\ history' = Republished(history, run, now.sections[run])
               /\ publishing' = IF keepLatest THEN <<>> ELSE now.sections[run]
          ELSE UNCHANGED <<history, publishing>>
    /\ UNCHANGED <<built, artifacts, latest>>

WriteLatest ==
    /\ publishing # <<>>
    /\ latest' = LatestOf(latest, publishing[1].run, publishing)
    /\ publishing' = <<>>
    /\ NoAttempt
    /\ UNCHANGED <<built, artifacts, history, publications>>

PublisherDies ==
    /\ publishing # <<>>
    /\ publishing' = <<>>
    /\ NoAttempt
    /\ UNCHANGED <<built, artifacts, history, latest, publications>>

LifeNext ==
    \/ \E s \in DOMAIN Catalog : Edit(s)
    \/ BuildWritesEditable
    \/ BuildWritesPackaged
    \/ BuildDies
    \/ \E c \in Conditions : RunComparison(c)
    \/ \E run \in RunIds, keepLatest \in BOOLEAN : MergeAndPublish(run, keepLatest)
    \/ WriteLatest
    \/ PublisherDies

LifeSpec == LifeInit /\ [][LifeNext]_lifeVars

---------------------------------------------------------------------------
(* Properties *)

\* the case's own word on a framework on the box of a run
Supported(run, fw) == StatusOn(Config[run.config], fw, RunCandidates(Told(run).box)) = "supported"

RowIsAllowed(run, row) ==
    \/ row.how = "explicit"
    \/ row.exception = "dated"
    \/ <<row.fw, row.profile>> \in KnownViolations
    \/ ~ Supported(run, row.fw)
    \/ LET box == Told(run).box IN
       IF row.fw = "sglang"
       THEN RunCandidates(box)[1] \in ToSet(POLICY_HARDWARE) =>
                ~ SglangFinds([args |-> row.command]) \/ SglangFinds([args |-> box.extra])
       ELSE RunCandidates(box)[1] \in ToSet(DATACENTER_HARDWARE) /\ ~ box.compileOff =>
                ~ CompetitorFinds(row.fw, [args |-> row.command, opts |-> row.opts])

\* On a box of one class that the policy names, a row of a framework that is
\* supported there and was not asked for by name ran what the policy allows or
\* what a dated exception excuses, but for the extra arguments of the box: the
\* build polices the profiles the boxes will select, through every edit,
\* interrupted build and mix of profiles.
PolicyOnBox ==
    \A i \in 1..Len(artifacts) :
        Len(RunCandidates(Told(artifacts[i]).box)) = 1 =>
            \A row \in Artifact[artifacts[i]].rows : RowIsAllowed(artifacts[i], row)

\* A run without compile has no server that compiles, whatever the profile's
\* arguments, settings and environment ask for.
CompileOffEverywhere ==
    \A i \in 1..Len(artifacts) : Told(artifacts[i]).box.compileOff =>
        \A row \in Artifact[artifacts[i]].rows :
            /\ row.compile_disable = "1"
            /\ row.fw = "vllm-omni" => LastOf(row.command, {"compile", "eager"}) = "eager"
            /\ row.fw = "fastvideo" => LastOf(row.command, {"compile", "no-compile"}) = "no-compile"
            /\ row.fw = "lightx2v" => row.opts.compile = "off"

\* the runs come from one box, and their artifacts tell its classes
OneBox(runs) ==
    /\ \A i \in 1..Len(runs) : Told(runs[i]).box = Told(runs[1]).box
    /\ Told(runs[1]).box.env = <<>>
    /\ RunCandidates(Told(runs[1]).box) # <<>>

\* what the runner itself would do today with sglang's cell of that box
Today(config, row, box) ==
    ResolveFrameworkConfig(Config[config].frameworks["sglang"],
        IF row.how = "explicit" THEN row.profile ELSE NoName, RunCandidates(box))

SameCommand(row, today) ==
    /\ today.how # "unknown"
    /\ today.profile.key = row.profile
    /\ ~ LacksTokens(row, today.profile)

\* The drift gate speaks of what the runner would do, through its mirror of
\* the selection: a single-request row of sglang passes it exactly when the
\* runner would run that profile today, with no argument the row lacks.
DriftGateIsExact ==
    attempt # <<>> =>
        (OneBox(attempt.runs) =>
            \A now \in {PublicationUnder[attempt.config][attempt.runs]} :
                \A row \in {r \in now.merged.results : r.fw = "sglang" /\ Measured(r)} :
                    row \in now.drift
                        <=> ~ SameCommand(row, Today(attempt.config, row, Told(attempt.runs[1]).box)))

\* A framework that the runner left out because it is classified there shows
\* that classification on the page, and no cell of complete runs from an
\* unchanged configuration is shown as one that was not run.
SkippedIsClassified ==
    attempt # <<>> =>
        (/\ OneBox(attempt.runs)
         /\ \A i \in 1..Len(attempt.runs) :
               attempt.runs[i].config = attempt.config /\ Told(attempt.runs[i]).outcome # "killed"
         => \A section \in ToSet(PublicationUnder[attempt.config][attempt.runs].sections[attempt.run]) :
              \A fw \in Frameworks :
              LET shown == section.cells[fw].status
              IN  \/ shown \in {"ok", "failed"}
                  \/ /\ shown = StatusOn(Config[attempt.config], fw,
                                         RunCandidates(Told(attempt.runs[1]).box))
                     /\ shown # "supported")

\* Whatever is published again, kept from the front or cut off between the two
\* files: the history has one section of a run and mode, and the headline of
\* the front page claims the wins that its own table's section claims, of no
\* more comparable rows than that section has; it has fewer only when a
\* competitor stands alone in the row.
PageAgrees ==
    /\ \A i, j \in 1..Len(history) :
          history[i].run = history[j].run /\ history[i].mode = history[j].mode => i = j
    /\ latest.headline.wins = latest.table.wins
    /\ latest.headline.comparable <= latest.table.comparable
    /\ latest.headline.comparable < latest.table.comparable =>
          OkCells(latest.table.cells) # {} /\ "sglang" \notin OkCells(latest.table.cells)

\* config_guard.py, of "improvised serve_args": "Every guard here turns one of
\* those mistakes into a machine check". The code does not keep it: extra
\* arguments of the box reach sglang's command, and no guard looks for them.
ImprovisedArgsAreCaught ==
    attempt # <<>> =>
        LET now == PublicationUnder[attempt.config][attempt.runs]
        IN  now.drift = {} /\ GatesPass(now.merged) =>
                \A row \in now.merged.results : row.fw = "sglang" => ~ SglangFinds([args |-> row.command])

\* config_guard.py: "the baseline classification has to drop it too --
\* otherwise the runner would attempt a cell the case calls unsupported here".
\* The code does not keep it: with no overrides for the box at all, the
\* baseline classification is not looked at.
ClassifiedIsNotRun ==
    \A i \in 1..Len(artifacts) :
        \A row \in Artifact[artifacts[i]].rows : Supported(artifacts[i], row.fw)
===========================================================================
