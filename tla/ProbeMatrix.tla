----------------------------- MODULE ProbeMatrix -----------------------------
(***************************************************************************)
(* The matrix of the sglang stability probe: which combinations of a       *)
(* model, an entrypoint, server arguments, an environment and a family of  *)
(* requests the probe runs, and what it runs for one of them.              *)
(* (sglang_probe/runner.py, MODEL_CATALOG to build_matrix.)                *)
(*                                                                         *)
(* A model is what the code tells models apart by; the rest of its entry   *)
(* (prompt, size, steps) is payload.                                       *)
(***************************************************************************)
EXTENDS Integers, FiniteSets, Sequences, SequencesExt

Model(id, modality, task, gpus, tags, loras) ==
  [id |-> id, modality |-> modality, task |-> task, gpus |-> gpus,
   tags |-> tags, loras |-> loras]

Edit == {"image_input"}

\* MODEL_CATALOG; loras are the kinds of lora path an entry has.
ImageModels == {
  Model("zimage_t2i", "image", "T2I", 1, {}, {"static", "second"}),
  Model("qwen_image_t2i", "image", "T2I", 1, {"diffusers_ok"}, {}),
  Model("flux1_t2i", "image", "T2I", 1, {"diffusers_ok"}, {}),
  Model("flux2_t2i", "image", "T2I", 1, {"diffusers_ok"}, {}),
  Model("qwen_image_edit_ti2i", "image", "TI2I", 1, Edit, {"static"}),
  Model("qwen_image_layered_i2i", "image", "I2I", 1, Edit \cup {"multi_image"}, {}),
  Model("joyai_image_edit_ti2i", "image", "TI2I", 1, Edit \cup {"diffusers_ok"}, {}) }

VideoModels == {
  Model("wan21_t2v_1_3b", "video", "T2V", 1, {"diffusers_ok"}, {"dynamic"}),
  Model("turbo_wan21_t2v", "video", "T2V", 1, {}, {}),
  Model("fast_hunyuan_video", "video", "T2V", 1, {"diffusers_ok"}, {}),
  Model("cosmos3_nano_t2v", "video", "T2V", 1, {}, {}),
  Model("wan21_i2v_480p", "video", "I2V", 2, Edit, {}),
  Model("wan22_i2v_a14b", "video", "I2V", 2, Edit \cup {"dual_dit"}, {}),
  Model("wan22_ti2v_5b", "video", "TI2V", 1, Edit, {}),
  Model("sana_wm_ti2v", "video", "TI2V", 1, Edit, {}),
  Model("lingbot_world_realtime", "video", "REALTIME", 1, Edit \cup {"realtime"}, {}) }

OtherModels == {
  Model("hunyuan3d_shape", "3d", "I2M", 1, Edit, {}),
  Model("ltx23_two_stage", "video", "T2V", 1, {}, {}),
  Model("ideogram4_nvfp4_b200", "image", "T2I", 1, {}, {}),
  Model("wan22_nvfp4_b200", "video", "T2V", 1, {"dual_dit"}, {}) }

Catalog == ImageModels \cup VideoModels \cup OtherModels

Generating == {"image_generation", "image_edit", "video_generation"}
Offline    == {"cli_generate", "python_diffgenerator", "python_server_args",
               "python_lora"}
Families   == Generating \cup {"control", "mesh", "realtime", "invalid"}

\* model_supports_request.
Supports(m, family) ==
  CASE family \in {"control", "invalid"}  -> TRUE
    [] family = "image_generation" -> m.modality = "image" /\ m.task = "T2I"
    [] family = "image_edit"       -> m.modality = "image" /\ "image_input" \in m.tags
    [] family = "video_generation" -> m.modality = "video" /\ "realtime" \notin m.tags
    [] family = "mesh"             -> m.modality = "3d"
    [] family = "realtime"         -> "realtime" \in m.tags

\* Mutant of HasLora: a model with a dynamic lora only has none.
HasLoraStatic(m) == "static" \in m.loras

HasLora(m) == m.loras \cap {"static", "dynamic"} # {}

Compatible(c) ==
  LET m == c.model IN
  /\ Supports(m, c.family)
  /\ c.entrypoint = "python_lora" => HasLora(m)
  /\ c.entrypoint \in Offline => c.family \notin {"control", "invalid", "realtime"}
  /\ c.args = "backend_diffusers" => "diffusers_ok" \in m.tags
  /\ c.args \in {"lora_static", "lora_dynamic"} => HasLora(m)
  /\ c.args \in {"cfg_parallel", "dit_layerwise_offload", "fsdp_inference"} =>
       m.modality # "3d"
  /\ c.args \in {"ulysses2", "ring2"} => m.gpus <= 2
  /\ c.args = "ring2" => m.modality = "video"
  /\ c.env = "cache_dit_secondary" => "dual_dit" \in m.tags
  /\ c.env \in {"cache_dit_basic", "cache_dit_scm_fast"} => m.modality # "3d"
  /\ c.env = "profiler" => c.family \notin {"control", "invalid"}

\* make_cell.  The cell's id is made of these fields.
Cell(phase, m, entrypoint, args, env, family, stress) ==
  [phase |-> phase, model |-> m, entrypoint |-> entrypoint, args |-> args,
   env |-> env, family |-> family, stress |-> stress]

-----------------------------------------------------------------------------
(* The phases with a fixed list.                                           *)

SmokeCells(models) ==
  LET plain(m, e, f) == Cell("smoke", m, e, "baseline", "baseline", f, "smoke")
      of(m, f) == IF f \in Generating
                  THEN {plain(m, e, f) :
                          e \in {"serve_raw_http", "serve_openai_sdk", "cli_generate"}}
                  ELSE {plain(m, "serve_raw_http", f)}
  IN UNION {of(x[1], x[2]) :
              x \in {y \in models \X Families : Supports(y[1], y[2])}}

ById(id) == CHOOSE m \in Catalog : m.id = id

\* The specs of build_targeted_cells, before they are filtered.
TargetedSpecs ==
  LET T(id, e, a, v, f, s) == Cell("targeted", ById(id), e, a, v, f, s)
      H(id, a, v, f) == T(id, "serve_raw_http", a, v, f, "stability")
  IN { T("zimage_t2i", "python_lora", "lora_static", "baseline",
         "image_generation", "stability"),
       T("wan21_t2v_1_3b", "python_lora", "lora_dynamic", "baseline",
         "video_generation", "stability"),
       H("wan21_t2v_1_3b", "dit_layerwise_offload", "stage_logging", "video_generation"),
       H("qwen_image_t2i", "backend_sglang", "cache_dit_basic", "image_generation"),
       H("qwen_image_t2i", "backend_diffusers", "cache_dit_scm_fast", "image_generation"),
       H("wan22_i2v_a14b", "ulysses2", "cache_dit_secondary", "video_generation"),
       H("wan22_ti2v_5b", "ring2", "stage_logging", "video_generation"),
       H("wan21_t2v_1_3b", "batching_metrics", "stage_logging", "video_generation"),
       H("hunyuan3d_shape", "batching_metrics", "stage_logging", "mesh"),
       H("zimage_t2i", "disabled_io", "baseline", "image_generation"),
       H("flux2_t2i", "backend_diffusers", "baseline", "image_generation"),
       T("lingbot_world_realtime", "serve_raw_http", "baseline", "stage_logging",
         "realtime", "smoke") }

\* A spec that is not compatible is dropped, and nothing says so.
TargetedCells == {c \in TargetedSpecs : Compatible(c)}

StressCells ==
  {Cell("stress", ById(s[1]), "serve_raw_http", "batching_metrics", "stage_logging",
        s[2], "stress") :
     s \in {<<"zimage_t2i", "image_generation">>,
            <<"qwen_image_edit_ti2i", "image_edit">>,
            <<"wan21_t2v_1_3b", "video_generation">>,
            <<"wan22_ti2v_5b", "video_generation">>,
            <<"hunyuan3d_shape", "mesh">>}}

-----------------------------------------------------------------------------
(* The pairwise phase.                                                     *)

Axes == {"model", "entrypoint", "args", "env", "family", "stress"}

Value(c, a) == IF a = "model" THEN c.model.id ELSE c[a]

\* all_pair_keys.
PairKeys(c) ==
  {{<<x[1], Value(c, x[1])>>, <<x[2], Value(c, x[2])>>} :
     x \in {y \in Axes \X Axes : y[1] # y[2]}}

PairsOf(cells) == UNION {PairKeys(c) : c \in cells}

Candidates(models, entrypoints, argGroups, envGroups) ==
  {c \in {Cell("pairwise", x[1], x[2], x[3], x[4], x[5], x[6]) :
            x \in models \X entrypoints \X argGroups \X envGroups \X Families
                  \X {"smoke", "stability"}} : Compatible(c)}

=============================================================================
