-------------------------- MODULE BackendSelection --------------------------
(***************************************************************************)
(* One call of SingleModelRouter::LoadModel, from the specification of a   *)
(* model to the backend that serves it: the hint is turned into a list of  *)
(* candidates, BackendFactory::Create makes a backend of each under the    *)
(* exposure policy, the placement rules skip those that cannot honour the  *)
(* specification, and the first one that loads an artifact is kept.        *)
(*                                                                         *)
(* A setup fixes what the binary contains, the policy, the server's        *)
(* defaults, the specification and what is found at its path.  Whether a   *)
(* backend loads an artifact, and whether a native backend runs on its     *)
(* fallback runtime, are the backend's choice.                             *)
(***************************************************************************)
EXTENDS Naturals, Sequences, FiniteSets, SequencesExt

CONSTANTS Setups

VARIABLES setup,      \* build, policy, defaults, spec and path of this call
          todo,       \* the candidates not tried yet
          failure,    \* failure_reason
          loaded      \* the backend that serves the model, or NoBackend

selectVars == <<setup, todo, failure, loaded>>

NoBackend == [target |-> "none"]

\* A device selector, vendor:ordinal.
NoDevice == [vendor |-> "none", ordinal |-> 0]

-----------------------------------------------------------------------------
(* Hints and targets. *)

Targets == {"cpu", "cuda", "mps", "rocm", "vulkan", "opencl"}

ParseLlamaBackendTarget(hint) ==
    CASE hint \in {"cuda", "inferflux_cuda", "llama_cpp_cuda"} -> "cuda"
      [] hint \in {"rocm", "llama_cpp_rocm"}                   -> "rocm"
      [] hint \in {"mps", "vulkan", "opencl"}                  -> hint
      [] OTHER                                                 -> "cpu"

NormalizeHint(hint) ==
    CASE hint = ""                                       -> "cpu"
      [] hint \in {"auto", "mlx"} \cup Targets           -> hint
      [] hint \in {"inferflux_cuda", "llama_cpp_cuda"}   -> hint
      [] OTHER                                -> ParseLlamaBackendTarget(hint)

\* The configured priorities, each once, or the default hint.
NormalizeHintList(hints, default) ==
    LET Append1(seen, hint) == IF Contains(seen, NormalizeHint(hint)) THEN seen
                               ELSE Append(seen, NormalizeHint(hint))
        unique == FoldLeft(Append1, <<>>, hints)
    IN  IF unique = <<>> THEN <<NormalizeHint(default)>> ELSE unique

GpuAccelerated(target) == target # "cpu"

SupportsFlashAttention(target) == target \in {"cuda", "mps", "rocm"}

\* BuildBackendCandidates and MaybePrependMlxCandidate.
CudaFallbackCandidates(build) ==
    <<"cuda", "llama_cpp_cuda">>
      \o (IF "rocm" \in build THEN <<"rocm">> ELSE <<>>)
      \o (IF "mlx" \in build THEN <<"mlx">> ELSE <<>>)
      \o (IF "metal" \in build THEN <<"mps">> ELSE <<>>) \o <<"cpu">>

BuildBackendCandidates(hint) ==
    LET normalized == NormalizeHint(hint)
    IN  IF hint = "" \/ normalized = "auto"
        THEN NormalizeHintList(setup.hints, setup.default_hint)
        ELSE IF normalized = "cuda" THEN CudaFallbackCandidates(setup.build)
        ELSE <<normalized>>

WithMlx(candidates, hint, format) ==
    IF /\ "mlx" \in setup.build
       /\ format \in {"hf", "safetensors"}
       /\ (hint = "" \/ NormalizeHint(hint) \in {"auto", "mps", "mlx"})
       /\ ~Contains(candidates, "mlx")
    THEN <<"mlx">> \o candidates ELSE candidates

\* The hint a device implies when none is given.
Hint == IF setup.spec.device = NoDevice \/ setup.spec.hint \notin {"", "auto"} THEN setup.spec.hint
        ELSE IF setup.spec.device.vendor = "cuda" THEN "llama_cpp_cuda" ELSE "llama_cpp_rocm"

-----------------------------------------------------------------------------
(* BackendFactory::Create.  Its result names the backend it made, or none. *)

Made(target, provider, label, fell) ==
    [target |-> target, provider |-> provider, label |-> label,
     used_fallback |-> fell, strict |-> FALSE]

NativeUnavailable == [Made("cuda", "native", "inferflux", FALSE) EXCEPT !.provider = "none"]

CpuFallback(fell) == Made("cpu", "llama_cpp", "llama_cpp", fell)

Registered(target) ==
    \/ target = "cuda" /\ "cuda" \in setup.build
    \/ target = "rocm" /\ "rocm" \in setup.build
    \/ target = "mps" /\ "metal" \in setup.build
    \/ target = "vulkan" /\ "vulkan" \in setup.build

\* LlamaCppForTarget: the adapter that registered itself, the CPU one otherwise.
LlamaCppForTarget(hint, fell) ==
    IF hint = "mlx"
    THEN IF Registered("mps") THEN Made("mps", "llama_cpp", "mlx", fell) ELSE CpuFallback(fell)
    ELSE IF Registered(hint) THEN Made(hint, "llama_cpp", "llama_cpp", fell)
    ELSE CpuFallback(fell)

SupportsNativeBackend(target) == target = "cuda" /\ setup.native

NativeBackend(strict) ==
    IF "cuda" \in setup.build
    THEN [Made("cuda", "native", "inferflux", FALSE) EXCEPT !.strict = strict]
    ELSE NativeUnavailable

CreateExplicitNative ==
    CASE SupportsNativeBackend("cuda")      -> NativeBackend(setup.policy.strict)
      [] setup.policy.strict                -> NativeUnavailable
      [] setup.policy.allow                 -> LlamaCppForTarget("cuda", TRUE)
      [] OTHER                              -> NativeUnavailable

CreateForTarget(hint) ==
    LET native == SupportsNativeBackend(hint)
    IN  CASE setup.policy.prefer /\ native /\ "cuda" \in setup.build -> NativeBackend(FALSE)
          [] setup.policy.prefer /\ ~setup.policy.allow             -> NativeUnavailable
          [] OTHER -> LlamaCppForTarget(hint, setup.policy.prefer)

AutoHint == IF "cuda" \in setup.build THEN "cuda"
            ELSE IF "mlx" \in setup.build THEN "mlx" ELSE "cpu"

Create(candidate) ==
    LET hint == IF candidate = "auto" THEN AutoHint ELSE candidate
    IN  CASE hint = "inferflux_cuda"                     -> CreateExplicitNative
          [] hint = "llama_cpp_cuda"                     -> LlamaCppForTarget("cuda", FALSE)
          [] hint = "mlx"                                -> LlamaCppForTarget("mlx", FALSE)
          [] hint \in {"cuda", "mps", "rocm", "vulkan"}  -> CreateForTarget(hint)
          [] OTHER                                       -> CpuFallback(FALSE)

-----------------------------------------------------------------------------
(* The artifact at a path: its format, and the file each loader is given.  *)
(* A .gguf file is the quantization its name carries and the name's rank.  *)

NoFile == <<"none", 0>>

\* ScoreGgufFile, by the most specific mark in the name.
ScoreGgufFile(mark) ==
    CASE mark = "q4_k_m" -> 100 [] mark = "q4_k_s" -> 90 [] mark = "q4_k" -> 85
      [] mark = "q4_0" -> 80    [] mark = "q4" -> 75     [] mark = "q5_k_m" -> 70
      [] mark = "q5" -> 65      [] mark = "q8_0" -> 50   [] mark = "gguf" -> 10
      [] OTHER -> 0

\* FindBestGgufInDir: the scan keeps the best file so far.
FindBestGgufInDir(listing) ==
    LET Keep(best, file) ==
          LET score == ScoreGgufFile(file[1])
              best_score == ScoreGgufFile(best[1])
          IN  IF score > best_score \/ (score = best_score /\ file[2] < best[2])
              THEN file ELSE best
    IN  FoldLeft(Keep, NoFile, listing)

SelectBestGguf(path) ==
    IF path.ggufs # <<>> THEN FindBestGgufInDir(path.ggufs) ELSE FindBestGgufInDir(path.sidecar)

DetectModelFormat(path) ==
    CASE path.kind = "hf" -> "hf"
      [] path.kind \in {"missing", "file"} ->
           IF path.ext \in {"gguf", "safetensors"} THEN path.ext ELSE "unknown"
      [] path.kind = "dir" ->
           IF path.ggufs # <<>> THEN "gguf"
           ELSE IF "safetensors" \in path.has THEN "safetensors"
           ELSE IF "config" \in path.has THEN "hf" ELSE "unknown"

ResolveModelFormat(path, requested) ==
    LET detected == DetectModelFormat(path)
    IN  IF requested # "auto" THEN requested
        ELSE IF detected = "unknown" THEN "gguf" ELSE detected

Format == ResolveModelFormat(setup.path, setup.spec.format)

\* What a loader is handed: the path itself or a .gguf file found below it.
Itself == <<"none", 1>>

\* ResolveLlamaLoadPath: NoFile when there is no GGUF file to be found.
ResolveLlamaLoadPath(path) ==
    CASE path.kind \in {"file", "missing"} -> IF path.ext = "gguf" THEN Itself ELSE NoFile
      [] OTHER                             -> SelectBestGguf(path)

ResolveGgufArtifactPath(path) ==
    LET best == SelectBestGguf(path)
    IN  IF path.kind = "dir" /\ best # NoFile THEN best ELSE Itself

\* The attempts of one candidate, in order, each with the file it is given.
Attempts(made) ==
    LET format == Format
        gguf == ResolveLlamaLoadPath(setup.path)
        own == [format |-> format,
                file |-> IF format = "gguf" THEN ResolveGgufArtifactPath(setup.path) ELSE Itself]
        sidecar == IF gguf # NoFile /\ ~(made.label = "mlx" /\ gguf = Itself) THEN <<[format |-> "gguf", file |-> gguf]>> ELSE <<>>
    IN  IF format = "gguf" THEN <<own>>
        ELSE IF made.label = "mlx" THEN <<own>> \o sidecar
        ELSE IF made.provider = "native" /\ format = "safetensors" THEN <<own>>
        ELSE IF sidecar # <<>> THEN sidecar ELSE <<own>>

BackendSupportsModelFormat(made, format) ==
    \/ format = "gguf"
    \/ made.label = "mlx"
    \/ made.provider = "native" /\ format = "safetensors"

-----------------------------------------------------------------------------
(* The configuration a backend is loaded with. *)

\* ModelLoadSpec::Validate, for the settings that exclude each other, and the
\* test of the format; 0 is a setting that is not given.
ValidSpec(spec) ==
    /\ spec.device = NoDevice \/ spec.gpu_layers # "zero"
    /\ spec.context = 0 \/ spec.sequences = 0 \/ spec.context >= spec.sequences
    /\ spec.format # "unknown"

\* The device of the specification, or the configured ordinal of the target.
PlacementRequest ==
    LET hint == IF Hint \in {"", "auto"} THEN setup.default_hint ELSE Hint
        target == ParseLlamaBackendTarget(hint)
        configured == {d \in setup.ordinals : d.vendor = target}
    IN  IF setup.spec.device # NoDevice THEN setup.spec.device
        ELSE IF configured # {} THEN CHOOSE d \in configured : TRUE ELSE NoDevice

\* ModelLoadSpec::Apply and TuneLlamaBackendConfig.
Config(made) ==
    LET spec == setup.spec
        flash == setup.flash /\ SupportsFlashAttention(made.target)
        kv == IF spec.kv # "none" THEN spec.kv ELSE setup.kv
    IN  [gpu_layers |-> IF ~GpuAccelerated(made.target) THEN "zero"
                        ELSE IF spec.gpu_layers # "none" THEN spec.gpu_layers
                        ELSE IF setup.layers = "zero" THEN "all" ELSE setup.layers,
         flash      |-> flash,
         kv         |-> IF kv # "f16" /\ ~flash /\ spec.kv = "none" THEN "f16" ELSE kv,
         device     |-> PlacementRequest,
         context    |-> IF spec.context # 0 THEN spec.context ELSE setup.context,
         sequences  |-> IF spec.sequences # 0 THEN spec.sequences ELSE setup.sequences]

\* The placement rules, which need no configuration.
PlacementRefuses(made) ==
    LET spec == setup.spec
        device == PlacementRequest
    IN  \/ device # NoDevice /\ (\/ made.target # device.vendor \/ made.used_fallback
                                 \/ made.provider # "llama_cpp")
        \/ made.provider = "native" /\ (spec.gpu_layers # "none" \/ spec.kv # "none")
        \/ spec.gpu_layers = "some" /\ ~GpuAccelerated(made.target)

\* Mutant of ConfigRefuses: the quantized cache is left to the backend.
ConfigRefusesNoKv(cfg) == cfg.context < cfg.sequences \/ cfg.sequences < setup.minimum

\* The rules on the configuration a candidate would be loaded with.
ConfigRefuses(cfg) ==
    \/ cfg.context < cfg.sequences
    \/ setup.spec.kv \notin {"none", "f16"} /\ ~cfg.flash
    \/ cfg.sequences < setup.minimum

-----------------------------------------------------------------------------
(* The call. *)

SelectInit ==
    /\ setup \in Setups
    /\ todo = WithMlx(BuildBackendCandidates(Hint), Hint, Format)
    /\ failure = "" /\ loaded = NoBackend

\* A specification that contradicts itself is refused.
RefuseSpec ==
    /\ loaded = NoBackend /\ ~ValidSpec(setup.spec) /\ todo # <<>>
    /\ todo' = <<>> /\ failure' = "placement_invalid"
    /\ UNCHANGED <<setup, loaded>>

Trying == loaded = NoBackend /\ todo # <<>> /\ ValidSpec(setup.spec)

Skip(reason) ==
    /\ todo' = Tail(todo) /\ failure' = reason
    /\ UNCHANGED <<setup, loaded>>

Candidate == Create(Head(todo))

\* The head candidate made no backend.
SkipUnavailable == Trying /\ Candidate.provider = "none" /\ Skip("unavailable")

Placeable == Trying /\ Candidate.provider # "none" /\ ~PlacementRefuses(Candidate)

EmbeddingRefused == Candidate.provider = "native" /\ setup.spec.embedding

\* The backend cannot honour the specification.
SkipPlacement ==
    \/ /\ Trying /\ Candidate.provider # "none" /\ PlacementRefuses(Candidate)
       /\ Skip("placement_unsupported")
    \/ /\ Placeable /\ ~EmbeddingRefused /\ ConfigRefuses(Config(Candidate))
       /\ Skip("placement_invalid")

\* An embedding batch size ends the call at the first native candidate.
RefuseEmbeddingBatch ==
    /\ Placeable /\ EmbeddingRefused
    /\ todo' = <<>> /\ failure' = "embedding_batch_unsupported"
    /\ UNCHANGED <<setup, loaded>>

\* The test behind a successful load: strict execution rules out a fallback.
Accepts(made, fell) == made.strict => ~made.used_fallback /\ ~fell

\* DeviceStrategy::Initialize of CUDA and ROCm: the ordinal must exist.
Initialize(target, ordinal) == target \in DOMAIN setup.devices => ordinal < setup.devices[target]

\* GpuAcceleratedBackend::InitializeDevice: the selector's vendor is the
\* backend's; without one the device is the first.
InitializeDevice(made, cfg) ==
    GpuAccelerated(made.target) =>
      /\ cfg.device # NoDevice => cfg.device.vendor = made.target
      /\ Initialize(made.target, cfg.device.ordinal)

\* The attempts are made in order until one loads: the k-th does, or none.
LoadCandidate ==
    LET made == Candidate
        attempts == Attempts(made)
        cfg == Config(made)
    IN  /\ Placeable /\ ~EmbeddingRefused /\ ~ConfigRefuses(cfg)
        /\ \/ Skip("load_failed")
           \/ \E k \in DOMAIN attempts, fell \in BOOLEAN :
                /\ BackendSupportsModelFormat(made, attempts[k].format)
                /\ InitializeDevice(made, cfg)
                /\ fell => made.provider = "native"
                /\ IF Accepts(made, fell)
                   THEN /\ loaded' = [target |-> made.target, provider |-> made.provider,
                                      label |-> made.label, candidate |-> Head(todo),
                                      fallback |-> made.used_fallback \/ fell,
                                      native |-> made.provider = "native" /\ ~fell,
                                      attempt |-> attempts[k], cfg |-> cfg]
                        /\ UNCHANGED <<setup, todo, failure>>
                   ELSE Skip("backend_policy_violation")

SelectNext == RefuseSpec \/ SkipUnavailable \/ SkipPlacement \/ RefuseEmbeddingBatch \/ LoadCandidate

SelectSpec == SelectInit /\ [][SelectNext]_selectVars

-----------------------------------------------------------------------------
(* Properties. *)

\* An explicit device, given with the model or configured for the target, is
\* honoured or the load fails: the model is on the llama.cpp adapter of that
\* vendor, with the device in its configuration.
PlacementHonoured ==
    loaded # NoBackend /\ PlacementRequest # NoDevice =>
      /\ loaded.provider = "llama_cpp" /\ loaded.target = PlacementRequest.vendor
      /\ PlacementRequest.ordinal < setup.devices[loaded.target]
      /\ loaded.cfg.device = PlacementRequest /\ ~loaded.fallback

\* Under strict_inferflux_request a model that names inferflux_cuda is served by
\* the native kernels or not at all.
StrictRequestHonoured ==
    loaded # NoBackend /\ setup.policy.strict /\ NormalizeHint(Hint) = "inferflux_cuda" =>
      loaded.native

\* Whatever the defaults, the specification and the adapter that was found, a
\* quantized KV cache is configured only with flash attention, which llama.cpp
\* insists on, and GPU layers only where there is a GPU.
ConfigurationLoads ==
    loaded # NoBackend =>
      /\ loaded.cfg.kv # "f16" => loaded.cfg.flash
      /\ loaded.cfg.gpu_layers # "zero" => loaded.target # "cpu"
      /\ loaded.cfg.sequences >= setup.minimum /\ loaded.cfg.context >= loaded.cfg.sequences

\* A loader is given an artifact it reads: a GGUF loader a file and not a
\* directory that has one, and always the best of the listing, in whatever order
\* the file system lists it.
ArtifactFits ==
    loaded # NoBackend =>
      LET files == IF setup.path.ggufs # <<>> THEN ToSet(setup.path.ggufs)
                   ELSE ToSet(setup.path.sidecar)
          Better(a, b) == \/ ScoreGgufFile(a[1]) > ScoreGgufFile(b[1])
                          \/ ScoreGgufFile(a[1]) = ScoreGgufFile(b[1]) /\ a[2] < b[2]
      IN  /\ loaded.attempt.format = "gguf" /\ setup.path.kind = "dir" /\ files # {} =>
               loaded.attempt.file = CHOOSE f \in files : \A g \in files \ {f} : Better(f, g)
          /\ loaded.attempt.format # "gguf" =>
               loaded.label = "mlx" \/ loaded.provider = "native"

\* What a load promises: the placement, the strict policy and a configuration and
\* an artifact that the chosen backend can use.
SelectionSafe ==
    PlacementHonoured /\ StrictRequestHonoured /\ ConfigurationLoads /\ ArtifactFits

\* With allow_llama_cpp_fallback off and inferflux preferred, "allow fallback to
\* llama.cpp path when inferflux is unavailable": a cuda request is not served by
\* llama.cpp.  (It is: the candidates behind "cuda" ask for llama.cpp by name.)
FallbackNeedsPermission ==
    loaded # NoBackend /\ setup.policy.prefer /\ ~setup.policy.allow
      /\ NormalizeHint(Hint) = "cuda" => loaded.provider = "native"
=============================================================================
