--------------------------- MODULE MCConfigLife ---------------------------
(* An instance of ConfigLife for TLC: one case, four frameworks, contents   *)
(* of its source file like those of the repository (profiles by hardware    *)
(* class, a default, profiles that only a name selects), and edits of them. *)
EXTENDS ConfigLife

Set(compile, offload) == [compile |-> compile, offload |-> offload]
NoSettings == Set("unset", "unset")

Profile(key, name, hardware, args, exception, speed) ==
    [key |-> key, name |-> name, hardware |-> hardware, args |-> args, gpus |-> NoGpus,
     opts |-> NoSettings, env |-> "unset", exception |-> exception, speed |-> speed]

Entry(status, byHardware, profiles) ==
    [status |-> status, byHardware |-> byHardware, profiles |-> profiles, args |-> NoArgs,
     gpus |-> 2, opts |-> NoSettings, exception |-> "none"]

Default(args, speed) == Profile("default", <<"default">>, {}, args, "none", speed)

Blackwell(args) ==
    Profile("blackwell", <<"blackwell-">>, {<<"b200">>, <<"g", "b200">>, <<"b300">>}, args, "none", 1)

Gb300(args, exception) ==
    Profile("gb300-2gpu", <<"g", "b300", "-2gpu">>, {}, args, exception, 2)

Candidate == Profile("cand", <<"cand">>, {}, <<"fa", "compile">>, "none", 3)

Sglang == Entry("supported", <<>>,
                <<Blackwell(<<"fa">>), Gb300(<<"fa", "tp">>, "none"), Default(<<"fa">>, 2), Candidate>>)

SglangNoCand == [Sglang EXCEPT !.profiles = SubSeq(@, 1, 3)]

SglangEdited ==
    [Sglang EXCEPT !.profiles = <<Gb300(<<"fa", "offload">>, "dated"), Blackwell(<<"fa", "graph">>),
                                  Default(<<"fa">>, 2), Candidate>>]

\* the build refuses it: the profile that a gb300 box selects compiles
SglangCompiled ==
    [Sglang EXCEPT !.profiles = <<Blackwell(<<"fa">>), Gb300(<<"compile">>, "none"), Default(<<"fa">>, 2)>>]

Vllm == Entry("supported", <<>>,
              << [Default(<<"usp", "compile">>, 2) EXCEPT !.env = "0"],
                 [Profile("h100-dlo", <<"h100", "-dlo">>, {}, <<"offload">>, "dated", 1) EXCEPT !.env = "0"] >>)

Fastvideo == Entry("supported", <<>>, <<Default(<<"resident", "compile">>, 1)>>)

On(classes, status) == [hw \in classes |-> status]

\* runs on blackwell only; its h100 profile would offload
Lightx2v ==
    Entry("no_profile", On({"b300", "gb300"}, "supported"),
          << [Profile("h100-offload", <<"h100">>, {}, <<>>, "none", 1)
                EXCEPT !.opts = Set("on", "on")],
             [Default(<<>>, 2) EXCEPT !.opts = Set("on", "unset")] >>)

\* runs everywhere but on h100
Lightx2vFails ==
    [Lightx2v EXCEPT !.status = "supported", !.byHardware = On({"h100"}, "failed")]

Case(sglang, lightx2v) ==
    [fw \in Frameworks |-> CASE fw = "sglang"    -> sglang
                             [] fw = "vllm-omni" -> Vllm
                             [] fw = "lightx2v"  -> lightx2v
                             [] fw = "fastvideo" -> Fastvideo]

MCCatalog ==
    [s \in {"first", "edited", "nocand", "compiled"} |->
        CASE s = "first"    -> Case(Sglang, Lightx2v)
          [] s = "edited"   -> Case(SglangEdited, Lightx2vFails)
          [] s = "nocand"   -> Case(SglangNoCand, Lightx2v)
          [] s = "compiled" -> Case(SglangCompiled, Lightx2v)]

Box(gpus, labels, override, env, seen, compileOff) ==
    [gpus |-> gpus, labels |-> labels, config |-> <<>>, override |-> override, env |-> env,
     seen |-> seen, compileOff |-> compileOff, extra |-> <<>>]

H100 == Box(<<"NVIDIA ", "h100", " 80GB">>, <<>>, <<>>, <<>>, 2, TRUE)
GB300 == Box(<<"NVIDIA ", "g", "b300">>, <<>>, <<>>, <<>>, 4, FALSE)
TwoClasses == Box(<<>>, <<"b200">>, <<"h100">>, <<>>, 2, FALSE)
EnvSaysH100 == Box(<<"NVIDIA ", "b300">>, <<>>, <<>>, <<"h100">>, 1, FALSE)     \* one GPU
Improvised == [GB300 EXCEPT !.extra = <<"offload">>]
MCBoxes == {H100, GB300, TwoClasses, EnvSaysH100, Improvised}

\* the profiles asked for by name
Asking(sglang, vllm) == [fw \in {"sglang", "vllm-omni"} |-> IF fw = "sglang" THEN sglang ELSE vllm]
Nobody == [fw \in {} |-> NoName]

Circumstance(box, explicit, outcome, modes) ==
    [box |-> box, explicit |-> explicit, outcome |-> outcome, modes |-> modes]

MCCircumstances ==
    [h100     |-> Circumstance(H100, Nobody, "ok", Modes),
     gb300    |-> Circumstance(GB300, Nobody, "ok", Modes),
     two      |-> Circumstance(TwoClasses, Nobody, "ok", Modes),
     env      |-> Circumstance(EnvSaysH100, Nobody, "ok", Modes),
     extra    |-> Circumstance(Improvised, Nobody, "ok", Modes),
     candH100 |-> Circumstance(H100, Asking("cand", "h100-dlo"), "ok", Modes),
     cand     |-> Circumstance(GB300, Asking("cand", NoName), "ok", Modes),
     fails    |-> Circumstance(H100, Nobody, "fails", Modes),
     fallback |-> Circumstance(H100, Nobody, "fallback", Modes),
     killed   |-> Circumstance(H100, Nobody, "killed", Modes),
     served   |-> Circumstance(H100, Nobody, "ok", {"throughput"}),
     servedGb |-> Circumstance(GB300, Nobody, "ok", {"throughput"}),
     native   |-> Circumstance(GB300, Nobody, "fallback", {"throughput"})]

\* the profiles' names and hardware, the boxes' descriptions, the classes
MCTexts ==
    {<<"default">>, <<"blackwell-">>, <<"g", "b300", "-2gpu">>, <<"cand">>, <<"h100", "-dlo">>,
     <<"b200">>, <<"g", "b200">>, <<"b300">>, <<"h100">>,
     <<"NVIDIA ", "h100", " 80GB">>, <<"NVIDIA ", "g", "b300">>,
     <<"h100", " ", "b200", " ">>, <<"h100", " ", "NVIDIA ", "b300">>, <<"NVIDIA ", "b300">>}
    \cup {Spaced(<<hw>>) : hw \in ToSet(POLICY_HARDWARE)}
    \cup {<<"g", "b200", " ">>, <<"g", "b300", " ">>, <<"rtx", "5090", " ">>, <<"rtx", "4090", " ">>}

\* TLC looks at the tables here, before the first state, and keeps them.
ASSUME MCTables ==
    Config = Config /\ Artifact = Artifact /\ \A s \in Passing : PublicationUnder[s] = PublicationUnder[s]

ASSUME MCTextsAssumption ==
    /\ \A s \in DOMAIN MCCatalog : \A fw \in Frameworks :
          \A p \in ToSet(MCCatalog[s][fw].profiles) : {p.name} \cup p.hardware \subseteq MCTexts
    /\ \A b \in MCBoxes : {RunText(b), GuardText(b)} \subseteq MCTexts

============================================================================
