--------------------------- MODULE Publication ---------------------------
(* What becomes of the artifacts of some runs: the merge and its drift     *)
(* check (build_report_artifacts.py, config_guard.py), the gates of        *)
(* merge_and_publish_run.sh, and the sections of the page (page_export.py, *)
(* publish_bench_run.py).                                                  *)
EXTENDS ServerCommand

Modes == {"single_e2e", "throughput"}

RowsOf(artifact, mode) == {row \in artifact.rows : row.mode = mode}

\* Of the rows of one cell in several artifacts, the last one's. A row is
\* replaced by an error row too.
MergeEntries(runs, mode) ==
    LET has(fw)  == {i \in 1..Len(runs) : \E row \in RowsOf(runs[i], mode) : row.fw = fw}
        last(fw) == CHOOSE i \in has(fw) : \A j \in has(fw) : j <= i
    IN  {CHOOSE row \in RowsOf(runs[last(fw)], mode) : row.fw = fw :
            fw \in {f \in Frameworks : has(f) # {}}}

\* every run's candidates, each once, in the order of the runs
MergedCandidates(runs) ==
    LET merged[i \in 0..Len(runs)] ==
            IF i = 0 THEN <<>>
            ELSE merged[i - 1] \o Kept(GuardCandidates(runs[i].hardware),
                                       Tokens \ ToSet(merged[i - 1]))
    IN  merged[Len(runs)]

\* What the gate is told. Runs that name no class are taken for an H100's, or
\* for what an override says, which then is no class and selects nothing.
GateCandidates(runs) ==
    LET classes == MergedCandidates(runs)
    IN  IF classes = <<>> /\ \A i \in 1..Len(runs) : runs[i].hardware.override = <<>>
        THEN <<"h100">> ELSE classes

MergeResults(runs) ==
    [results    |-> MergeEntries(runs, "single_e2e"),
     throughput |-> MergeEntries(runs, "throughput"),
     hardware   |-> runs[Len(runs)].hardware,
     partial    |-> \E i \in 1..Len(runs) : runs[i].partial]

Measured(row) == row.error = "none"

\* sglang's rows, the throughput row only when no single row has its profile
CheckedRows(merged) ==
    LET singles == {r \in merged.results : r.fw = "sglang" /\ Measured(r)}
    IN  singles \cup {r \in merged.throughput :
                        /\ r.fw = "sglang" /\ Measured(r)
                        /\ \A s \in singles : s.profile # r.profile}

ArgsOf(p) == IF p.args = NoArgs THEN <<>> ELSE p.args

LacksTokens(row, p) == ~ (ToSet(ArgsOf(p)) \subseteq ToSet(row.command))

\* The row's profile is not the one selected today, or its command lacks one
\* of the switches that profile has today.
RowDrifts(row, body, candidates) ==
    LET named    == Named(body.profiles, row.profile)
        selected == SelectProfile(body.profiles, candidates)
    IN  IF row.how = "explicit"
        THEN named = <<>> \/ LacksTokens(row, named[1])
        ELSE \/ row.how # "inline" /\ selected.key # row.profile
             \/ LacksTokens(row, selected)

VerifyMergedCommands(merged, config, candidates) ==
    {row \in CheckedRows(merged) :
        /\ "sglang" \in DOMAIN config.frameworks
        /\ config.frameworks["sglang"].profiles # <<>>
        /\ RowDrifts(row, config.frameworks["sglang"], candidates)}

\* the script looks for fallbacks among the single_e2e rows
GatesPass(merged) == ~ merged.partial /\ \A row \in merged.results : ~ row.fallback

CellOf(rows, fw, case) ==
    LET own == {row \in rows : row.fw = fw}
    IN  IF own = {}
        THEN [status |-> IF fw \in DOMAIN case.statuses THEN case.statuses[fw] ELSE "not_run",
              value  |-> 0]
        ELSE LET row == CHOOSE r \in own : TRUE
             IN  IF Measured(row) THEN [status |-> "ok", value |-> row.figure]
                 ELSE [status |-> "failed", value |-> 0]

OkCells(cells) == {fw \in DOMAIN cells : cells[fw].status = "ok"}

\* A latency is better when it is less, and requests per second when they are more.
AsGood(mode, x, y) == IF mode = "throughput" THEN x >= y ELSE x <= y

Fastest(mode, cells, fws) ==
    CHOOSE fw \in fws : \A g \in fws : AsGood(mode, cells[fw].value, cells[g].value)

\* A win needs a competitor that ran, and is sglang's in a tie.
Winner(mode, cells) ==
    LET rivals == OkCells(cells) \ {"sglang"}
    IN  IF rivals = {} THEN "n/a"
        ELSE LET best == Fastest(mode, cells, rivals)
             IN  IF /\ "sglang" \in OkCells(cells)
                    /\ AsGood(mode, cells["sglang"].value, cells[best].value)
                 THEN "sglang" ELSE best

\* The section of one mode: its table, and the counts its subtitle gives.
Counted(run, mode, cells) ==
    [run |-> run, mode |-> mode, cells |-> cells, winner |-> Winner(mode, cells),
     wins |-> IF Winner(mode, cells) = "sglang" THEN 1 ELSE 0,
     comparable |-> IF OkCells(cells) \ {"sglang"} = {} THEN 0 ELSE 1]

Section(run, mode, rows, case) ==
    Counted(run, mode, [fw \in Frameworks |-> CellOf(rows, fw, case)])

BuildSingleE2eRows(run, merged, case) == Section(run, "single_e2e", merged.results, case)

BuildThroughputRows(run, merged, case) == Section(run, "throughput", merged.throughput, case)

SectionsOf(run, merged, case) ==
    Flag(merged.results # {}, <<BuildSingleE2eRows(run, merged, case)>>)
    \o Flag(merged.throughput # {}, <<BuildThroughputRows(run, merged, case)>>)

BuildSections(run, merged, config) ==
    SectionsOf(run, merged, ApplyHardwareStatuses(config, GuardCandidates(merged.hardware)))

\* the headline counts a row with two measured frameworks, whatever they are
HeadlineSummary(section) ==
    LET counted == Cardinality(OkCells(section.cells)) >= 2
    IN  [comparable |-> IF counted THEN 1 ELSE 0,
         wins |-> IF counted /\ section.winner = "sglang" THEN 1 ELSE 0]

\* Mutant of Republished: the run's earlier sections stay.
RepublishedOnTop(history, run, sections) == sections \o history

Republished(history, run, sections) ==
    sections \o Kept(history, {s \in ToSet(history) : s.run # run})

\* Identity and sections are the new run's; the table and the headline only
\* when the run has single requests to show.
LatestOf(latest, run, sections) ==
    LET singles == Kept(sections, {s \in ToSet(sections) : s.mode = "single_e2e"})
    IN  [run |-> run,
         table    |-> IF singles = <<>> THEN latest.table ELSE singles[1],
         headline |-> IF singles = <<>> THEN latest.headline ELSE HeadlineSummary(singles[1])]
==========================================================================
