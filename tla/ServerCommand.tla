-------------------------- MODULE ServerCommand --------------------------
(* The command, settings and environment a server is started with, per    *)
(* framework (run_comparison.py, the command builders). A command is the   *)
(* sequence of its switches; the last one of a kind wins.                  *)
EXTENDS BenchConfig

Flag(on, switches) == IF on THEN switches ELSE <<>>

\* what counts as a degree of parallelism in a vLLM-Omni command
ParallelArgs == {"tp", "usp", "ring", "cfg-parallel"}

\* `extra`: DIFFUSION_BENCH_SGLANG_EXTRA_SERVE_ARGS of the runner
BuildSglangCmd(cfg, extra) ==
    <<"backend-sglang">> \o Flag(cfg.gpus > 1, <<"num-gpus">>) \o cfg.args \o extra

BuildVllmCmd(cfg, compileOff) ==
    cfg.args
    \o Flag(cfg.gpus > 1 /\ ToSet(cfg.args) \cap ParallelArgs = {}, <<"tp">>)
    \o Flag(compileOff, <<"eager">>)

\* Of arguments that do not set what the harness passes itself.
BuildFastvideoCmd(cfg, compileOff) == cfg.args \o Flag(compileOff, <<"no-compile">>)

\* A server with a tp_flag, which its template does not name; whether the
\* serve_args do is not asked.
BuildGenericHttpCmd(cfg) == Flag(cfg.gpus > 1, <<"tp">>) \o cfg.args

BuildServerCmd(fw, cfg, extra, compileOff) ==
    CASE fw = "sglang"        -> BuildSglangCmd(cfg, extra)
      [] fw = "vllm-omni"     -> BuildVllmCmd(cfg, compileOff)
      [] fw = "fastvideo"     -> BuildFastvideoCmd(cfg, compileOff)
      [] fw = "trtllm-visual" -> BuildGenericHttpCmd(cfg)
      [] OTHER                -> cfg.args

\* LightX2V's file: forced off, or on unless the profile's block says off.
WriteLightx2vConfig(opts, compileOff) ==
    [opts EXCEPT !.compile = IF compileOff THEN "off" ELSE Given(@, "on", "unset")]

ServerOpts(fw, cfg, compileOff) ==
    IF fw = "lightx2v" THEN WriteLightx2vConfig(cfg.opts, compileOff) ELSE cfg.opts

\* Mutant of ServerEnv: the profile's extra_env is applied last.
ServerEnvOfProfile(extra, compileOff) ==
    IF extra # "unset" THEN extra ELSE IF compileOff THEN "1" ELSE "unset"

\* TORCH_COMPILE_DISABLE of the server: the harness has the last word over
\* the profile's extra_env.
ServerEnv(extra, compileOff) == IF compileOff THEN "1" ELSE "unset"

\* Only the first GPUs of those the process sees, or an error.
VisibleGpus(seen, wanted) == IF seen < wanted THEN NoGpus ELSE wanted

LastOf(command, kinds) ==
    LET own == Kept(command, kinds)
    IN  IF own = <<>> THEN "unset" ELSE Last(own)
==========================================================================
