------------------------------- MODULE MCProbe -------------------------------
(* An instance of Probe for TLC.  The search: every sequence of MCLength of   *)
(* the six cells that two models, two groups of arguments and two stress      *)
(* profiles make.  The invocations: cells of the real catalogue, few of each  *)
(* phase, so that every family with a protocol of its own is among them.      *)
EXTENDS Probe

CONSTANT MCLength

MCCandidates ==
  {c \in Candidates({ById("qwen_image_t2i"), ById("flux2_t2i")}, {"cli_generate"},
                    {"baseline", "backend_diffusers"}, {"baseline"}) :
     c.stress = "smoke" \/ c.args = "baseline"}

MCOrders ==
  {o \in [1 .. MCLength -> MCCandidates] : IsInjective(o)}

Raw(phase, id, family, stress) ==
  Cell(phase, ById(id), "serve_raw_http", "baseline", "baseline", family, stress)

Sdk(phase, id, family) ==
  Cell(phase, ById(id), "serve_openai_sdk", "baseline", "baseline", family, "stability")

Generate(phase, id) ==
  Cell(phase, ById(id), "cli_generate", "baseline", "baseline", "image_generation", "smoke")

Has(smoke, pairwise, stress) ==
  [smoke |-> smoke, pairwise |-> pairwise, targeted |-> <<>>, stress |-> stress]

MCMatrices ==
  { Has(<<Raw("smoke", "qwen_image_t2i", "control", "smoke")>>,
        <<Sdk("pairwise", "flux1_t2i", "image_generation")>>,
        <<Raw("stress", "wan22_ti2v_5b", "video_generation", "stability")>>),
    Has(<<Sdk("smoke", "wan21_t2v_1_3b", "video_generation")>>,
        <<Raw("pairwise", "lingbot_world_realtime", "realtime", "stability")>>,
        <<Raw("stress", "hunyuan3d_shape", "mesh", "stability")>>),
    Has(<<Generate("smoke", "flux1_t2i")>>,
        <<Raw("pairwise", "qwen_image_t2i", "invalid", "smoke")>>,
        <<Raw("stress", "qwen_image_edit_ti2i", "image_edit", "stability")>>) }

=============================================================================
