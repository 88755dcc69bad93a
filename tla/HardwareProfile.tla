------------------------- MODULE HardwareProfile -------------------------
(* Which hardware classes a box has and which command profile it selects: *)
(* the runner's selection (run_comparison.py) and the mirror of it that   *)
(* the build and the publication use (config_guard.py).                   *)
(* A text (a GPU name, a profile name) is the sequence of its pieces, cut *)
(* as finely as two tokens overlap: gb300 is <<"g", "b300">>.             *)
EXTENDS Naturals, Sequences, SequencesExt, Walks

CONSTANT Texts      \* the names and descriptions that occur, alone and joined

\* the runner's tuple; a candidate list keeps its order
HARDWARE_PROFILE_TOKENS ==
    << "gb300", "gb200", "b300", "b200", "h200", "h100", "a100", "l40", "l4",
       "rtxpro6000", "rtx5090", "rtx4090", "rtx3090",
       "mi355x", "mi350x", "mi325x", "mi300x" >>

\* the mirror's
HARDWARE_TOKENS ==
    << "gb300", "gb200", "b300", "b200", "h200", "h100", "a100", "l40", "l4",
       "rtxpro6000", "rtx5090", "rtx4090", "rtx3090",
       "mi355x", "mi350x", "mi325x", "mi300x" >>

Tokens == ToSet(HARDWARE_PROFILE_TOKENS)

\* `rtx ?`: the consumer cards are written with and without the space
Spellings(t) ==
    CASE t = "gb300"   -> {<<"g", "b300">>}
      [] t = "gb200"   -> {<<"g", "b200">>}
      [] t = "l40"     -> {<<"l4", "0">>}
      [] t = "rtx5090" -> {<<"rtx", "5090">>, <<"rtx", " ", "5090">>}
      [] OTHER         -> {<<t>>}

SpelledAt(s, text, i) ==
    /\ i + Len(s) - 1 <= Len(text)
    /\ SubSeq(text, i, i + Len(s) - 1) = s

\* what the first alternative of the expression that matches at i claims
FoundAt(tuple, text, i) ==
    LET hits == SelectSeq(tuple,
                          LAMBDA t : \E s \in Spellings(t) : SpelledAt(s, text, i))
    IN  IF hits = <<>> THEN <<>>
        ELSE << Head(hits),
                CHOOSE s \in Spellings(Head(hits)) : SpelledAt(s, text, i) >>

\* re.finditer: one scan from left to right in which a token claims its span
Scanned(tuple) ==
    [text \in Texts |->
        LET scan[i \in 1..(Len(text) + 1)] ==
                IF i > Len(text) THEN {}
                ELSE LET hit == FoundAt(tuple, text, i)
                     IN  IF hit = <<>> THEN scan[i + 1]
                         ELSE {hit[1]} \cup scan[i + Len(hit[2])]
        IN  scan[1]]

RunTokensOf == Scanned(HARDWARE_PROFILE_TOKENS)
GuardTokensOf == Scanned(HARDWARE_TOKENS)

RunTokens(text) == RunTokensOf[text]            \* _hardware_tokens
HardwareTokens(text) == GuardTokensOf[text]     \* hardware_tokens

\* values that are given, with the blank that keeps them apart
Blank == " "

Spaced(v) == IF v = <<>> THEN <<>> ELSE v \o <<Blank>>

\* A box: the override of the command line, the environment variable, and
\* the metadata the runner collects. The artifact keeps all but `env`.
RunText(box) ==
    Spaced(box.override) \o Spaced(box.env) \o Spaced(box.config) \o Spaced(box.labels) \o box.gpus

\* Mutant of GuardText: the labels are left out, as the environment is.
GuardTextUnlabelled(box) == Spaced(box.override) \o Spaced(box.config) \o box.gpus

GuardText(box) ==
    Spaced(box.override) \o Spaced(box.config) \o Spaced(box.labels) \o box.gpus

RunCandidates(box)   == Kept(HARDWARE_PROFILE_TOKENS, RunTokens(RunText(box)))
GuardCandidates(box) == Kept(HARDWARE_TOKENS, HardwareTokens(GuardText(box)))

ProfileMatches(p, candidates) ==
    \E v \in {p.name} \cup p.hardware : \E c \in ToSet(candidates) : c \in RunTokens(v)

DEFAULT_PROFILE == "default"

HardwareMatches(profiles, candidates) ==
    Kept(profiles, {p \in ToSet(profiles) :
                       p.key # DEFAULT_PROFILE /\ ProfileMatches(p, candidates)})

GuardMatches(profiles, candidates) ==
    Kept(profiles, {p \in ToSet(profiles) :
        /\ p.key # DEFAULT_PROFILE
        /\ \E c \in ToSet(candidates) : \E v \in {p.name} \cup p.hardware : c \in HardwareTokens(v)})

\* the profiles of that name: one at most in a file
Named(profiles, key) == Kept(profiles, {p \in ToSet(profiles) : p.key = key})

WithoutMatch(profiles) ==
    LET defaults == Named(profiles, DEFAULT_PROFILE)
    IN  IF defaults # <<>> THEN <<defaults[1], "default">> ELSE <<profiles[1], "first">>

NoProfile == [key |-> "inline"]     \* the entry itself is what runs
NoName == "none"                    \* no profile was asked for

\* The runner: a profile asked for by name, else the first match in the
\* file's order, else `default`, else the first. <<profile, how>>; "unknown"
\* is the ValueError that ends the run, "inline" an entry without profiles.
SelectCommandProfile(profiles, explicit, candidates) ==
    LET named   == Named(profiles, explicit)
        matches == HardwareMatches(profiles, candidates)
    IN  IF profiles = <<>> THEN <<NoProfile, "inline">>
        ELSE IF explicit # NoName
             THEN IF named = <<>> THEN <<NoProfile, "unknown">> ELSE <<named[1], "explicit">>
        ELSE IF matches # <<>> THEN <<matches[1], "hardware">>
        ELSE WithoutMatch(profiles)

\* The mirror, which no explicit request reaches.
SelectProfile(profiles, candidates) ==
    LET matches == GuardMatches(profiles, candidates)
    IN  IF profiles = <<>> THEN NoProfile
        ELSE IF matches # <<>> THEN matches[1] ELSE WithoutMatch(profiles)[1]

\* (status, reason) of a source entry: the first candidate with an entry of
\* its own, else the case's baseline.
ResolveStatus(entry, candidates) ==
    LET own == Kept(candidates, DOMAIN entry.byHardware)
    IN  IF own = <<>> THEN entry.status ELSE entry.byHardware[own[1]]
==========================================================================
