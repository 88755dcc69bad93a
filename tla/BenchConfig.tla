--------------------------- MODULE BenchConfig ---------------------------
(* The configuration of one benchmark case: the source entry of every     *)
(* framework, the build that lints it (scripts/build_benchmark_config.py),*)
(* the flattening for one box (config_guard.apply_hardware_statuses) and  *)
(* the entry a framework runs with (run_comparison.py).                   *)
(* serve_args are a sequence of switches: "compile", "eager", "offload",  *)
(* "resident" and whatever else a profile passes; `opts` are the settings *)
(* a framework takes from its own block (lightx2v_config, comfyui,        *)
(* visual_gen_args).                                                      *)
EXTENDS HardwareProfile, FiniteSets, Functions

CONSTANTS
    Frameworks,         \* the frameworks in scope, frameworks.json
    KnownViolations     \* KNOWN_COMPETITOR_VIOLATIONS: <<framework, profile>>

ASSUME BenchConfigAssumption ==
    /\ "sglang" \in Frameworks
    /\ Frameworks \subseteq {"sglang", "vllm-omni", "lightx2v", "trtllm-visual", "comfyui", "fastvideo"}

NoArgs == <<"unset">>       \* the entry has no serve_args of its own
NoGpus == 0

VALID_STATUS == {"supported", "unsupported", "no_profile", "failed", "not_run", "invalid"}

DATACENTER_HARDWARE ==
    << "h100", "h200", "b200", "b300", "gb200", "gb300", "mi355x", "mi350x", "mi300x" >>

POLICY_HARDWARE == DATACENTER_HARDWARE \o <<"rtx5090", "rtx4090">>

\* the lint resolves a class as a box whose override is that token
ClassBox(hw) ==
    [override |-> CHOOSE s \in Spellings(hw) : " " \notin ToSet(s),
     config |-> <<>>, labels |-> <<>>, gpus |-> <<>>]

\* A class, spelled out, is what it is told as.
ASSUME ClassBoxAssumption ==
    \A hw \in ToSet(POLICY_HARDWARE) : GuardCandidates(ClassBox(hw)) = <<hw>>

Given(value, base, unset) == IF value = unset THEN base ELSE value

\* The selected profile over its framework's entry, blocks merged key by key.
MergeNested(body, p) ==
    [args |-> Given(p.args, body.args, NoArgs),
     gpus |-> Given(p.gpus, body.gpus, NoGpus),
     opts |-> [k \in DOMAIN body.opts |-> Given(p.opts[k], body.opts[k], "unset")],
     env  |-> p.env]

ResolvedConfig(body, p) ==
    IF p.key = NoProfile.key
    THEN [args |-> body.args, gpus |-> body.gpus, opts |-> body.opts, env |-> "unset"]
    ELSE MergeNested(body, p)

Has(cfg, switch) == switch \in ToSet(cfg.args)

\* every switch of `cfg` that turns compile off or moves weights off the GPU
CompetitorFinds(fw, cfg) ==
    CASE fw = "vllm-omni"     -> Has(cfg, "eager") \/ Has(cfg, "offload")
      [] fw = "lightx2v"      -> cfg.opts.offload = "on" \/ cfg.opts.compile = "off"
      [] fw = "trtllm-visual" -> cfg.opts.compile = "off"
      [] fw = "comfyui"       -> Has(cfg, "offload") \/ cfg.opts.compile # "on"
      [] fw = "fastvideo"     -> ~ Has(cfg, "resident") \/ ~ Has(cfg, "compile")

SglangFinds(cfg) == Has(cfg, "compile") \/ Has(cfg, "offload")

SelectedOn(entry, hw) == SelectProfile(entry.profiles, GuardCandidates(ClassBox(hw)))

Refused(p) == IF p.exception = "none" THEN SglangFinds(p) ELSE p.exception = "undated"

\* Mutant of LintSglangPolicy: the default profile stands for every class.
LintDefaultProfile(entry) ==
    IF entry.profiles = <<>> THEN {}
    ELSE {hw \in ToSet(POLICY_HARDWARE) : SglangFinds(WithoutMatch(entry.profiles)[1])}

\* Only entries with profiles, only where the case runs, and only the
\* switches of the profile itself.
LintSglangPolicy(entry) ==
    IF entry.profiles = <<>> THEN {}
    ELSE {hw \in ToSet(POLICY_HARDWARE) :
             /\ ResolveStatus(entry, GuardCandidates(ClassBox(hw))) = "supported"
             /\ Refused(SelectedOn(entry, hw))}

PolicedClasses(entry) ==
    {hw \in ToSet(POLICY_HARDWARE) :
        ResolveStatus(entry, GuardCandidates(ClassBox(hw))) = "supported"}

ExceptionOf(entry, p) == IF p.key = NoProfile.key THEN entry.exception ELSE p.exception

\* <<framework, profile>> of the selected profiles that run eager or
\* offloaded on a datacenter class without an exception.
CompetitorViolations(fw, entry) ==
    {<<fw, SelectedOn(entry, hw).key>> : hw \in
        {hw \in PolicedClasses(entry) \cap ToSet(DATACENTER_HARDWARE) :
            LET p == SelectedOn(entry, hw)
            IN  /\ ExceptionOf(entry, p) = "none"
                /\ CompetitorFinds(fw, ResolvedConfig(entry, p))}}

UndatedException(entry) ==
    \E hw \in PolicedClasses(entry) : ExceptionOf(entry, SelectedOn(entry, hw)) = "undated"

\* A body is published when some hardware supports it.
IsPublished(entry) ==
    \/ entry.status = "supported"
    \/ \E hw \in DOMAIN entry.byHardware : entry.byHardware[hw] = "supported"

WellClassified(entries) ==
    /\ DOMAIN entries = Frameworks
    /\ \A fw \in DOMAIN entries :
          /\ entries[fw].status \in VALID_STATUS
          /\ DOMAIN entries[fw].byHardware \subseteq Tokens
          /\ \A hw \in DOMAIN entries[fw].byHardware : entries[fw].byHardware[hw] \in VALID_STATUS
          /\ IsPublished(entries[fw]) =>
                entries[fw].profiles # <<>> \/ entries[fw].args # NoArgs

Competitors(entries) == {fw \in Frameworks \ {"sglang"} : IsPublished(entries[fw])}

\* an entry of the list that no longer violates fails the build too
PolicyHolds(entries) ==
    /\ IsPublished(entries["sglang"]) => LintSglangPolicy(entries["sglang"]) = {}
    /\ \A fw \in Competitors(entries) : ~ UndatedException(entries[fw])
    /\ KnownViolations = UNION {CompetitorViolations(fw, entries[fw]) : fw \in Competitors(entries)}

BuildPasses(entries) == WellClassified(entries) /\ PolicyHolds(entries)

BodyOf(entry) ==
    [profiles |-> entry.profiles, args |-> entry.args, gpus |-> entry.gpus,
     opts |-> entry.opts, exception |-> entry.exception]

\* the built case: bodies, baseline statuses, and statuses by hardware
Built(entries) ==
    [frameworks |-> [fw \in {f \in Frameworks : IsPublished(entries[f])} |-> BodyOf(entries[fw])],
     statuses   |-> [fw \in {f \in Frameworks : entries[f].status # "supported"} |->
                        entries[fw].status],
     byHardware |-> [fw \in {f \in Frameworks : DOMAIN entries[f].byHardware # {}} |->
                        entries[fw].byHardware]]

\* what the classification of the built case says of a framework on a box
StatusOn(case, fw, candidates) ==
    ResolveStatus(
        [status     |-> IF fw \in DOMAIN case.statuses THEN case.statuses[fw] ELSE "supported",
         byHardware |-> IF fw \in DOMAIN case.byHardware THEN case.byHardware[fw] ELSE <<>>],
        candidates)

\* Mutant of ApplyHardwareStatuses: what is dropped is not classified.
ApplyUnclassified(case, candidates) ==
    [frameworks |-> Restrict(case.frameworks,
                        {fw \in DOMAIN case.frameworks : StatusOn(case, fw, candidates) = "supported"}),
     statuses   |-> <<>>, byHardware |-> <<>>]

\* A case none of whose overrides names this box is left as it is, with the
\* bodies that only other hardware supports.
ApplyHardwareStatuses(case, candidates) ==
    LET overridden == {fw \in DOMAIN case.byHardware :
                          ToSet(candidates) \cap DOMAIN case.byHardware[fw] # {}}
        now(fw)    == StatusOn(case, fw, candidates)
        classified == {fw \in overridden \cup DOMAIN case.statuses : now(fw) # "supported"}
    IN  IF overridden = {} THEN case
        ELSE [frameworks |-> Restrict(case.frameworks, DOMAIN case.frameworks \ classified),
              statuses   |-> [fw \in classified |-> now(fw)],
              byHardware |-> <<>>]

ResolvedAs(body, chosen) ==
    [profile |-> chosen[1], how |-> chosen[2], cfg |-> ResolvedConfig(body, chosen[1]),
     exception |-> ExceptionOf(body, chosen[1])]

ResolveFrameworkConfig(body, explicit, candidates) ==
    ResolvedAs(body, SelectCommandProfile(body.profiles, explicit, candidates))
==========================================================================
