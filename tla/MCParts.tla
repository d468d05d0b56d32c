------------------------------ MODULE MCParts ------------------------------
(* Components whose properties need no fairness, one at a time: `focus` says *)
(* which of them runs, and the others stay in an initial state.              *)
EXTENDS TokenSlices, LlamaContext, PrimaryPipeline, PolicyAdmin, RateLimiter,
        BackendSelection

CONSTANTS k1, k2, p, q, r1, r2, g1

VARIABLE focus

---------------------------------------------------------------------------
(* TokenSlices: an empty answer, plain ones, a character of two tokens whole *)
(* and cut off, a token without text, and more of those than may follow each *)
(* other.                                                                    *)

MCTexts == {<<>>, <<<<"a">>, <<"b">>, <<"a">>>>,
            <<<<"<">>, <<">">>, <<>>, <<"b">>>>, <<<<"a">>, <<"<">>>>,
            [i \in 1..34 |-> <<>>]}
MCStops == {<<>>, <<"a">>, <<"b", "a">>}

---------------------------------------------------------------------------
(* LlamaContext: r2 repeats the prompt of r1, or continues it. *)

MCPrompts ==
  LET P == <<p, 0>>
      Q == <<q, 0>>
  IN  {(r1 :> <<P, Q>>) @@ (r2 :> rest) @@ (g1 :> <<P, P, Q>>) : rest \in {<<P, Q>>, <<P, Q, Q>>}}

---------------------------------------------------------------------------
(* PolicyAdmin: two administrators, a plain start, one with a rate limit and *)
(* one with keys from the environment; each meets some of the write faults.  *)

Start1 == [f \in Fields |-> 1]
AdminKey(k) == [y \in {k} |-> {"admin"}]
Plain == [yaml_keys |-> AdminKey(k1), env_keys |-> NoKeys, words |-> << <<"A">> >>,
          limit |-> 0, endpoints |-> FALSE, opa |-> FALSE, routing |-> Start1, faults |-> {}]

PolicyStartups == {
  [Plain EXCEPT !.faults = {"write", "rename", "rename_again"}],
  [Plain EXCEPT !.faults = {"copy"}, !.limit = 2, !.endpoints = TRUE],
  [Plain EXCEPT !.faults = {"rename", "rename_again"}, !.yaml_keys = NoKeys,
                !.env_keys = AdminKey(k1), !.words = << >>, !.opa = TRUE, !.limit = 1] }

BlockLists == {<< >>, << <<"A">> >>, << <<"a", ",", "A">>, << >> >>}
SentScopes == {{}, {"admin"}}
TokenLimits == {-1, 0, 2}

---------------------------------------------------------------------------
(* RateLimiter: without and with endpoint policies. *)

NoEndpoints == [c \in Classes |-> NoPolicy]
Plans == {[limit |-> 2, endpoints |-> NoEndpoints],
          [limit |-> 2, endpoints |-> [NoEndpoints EXCEPT !["generation"] = [rpm |-> 7, burst |-> 1]]],
          [limit |-> 1, endpoints |-> [NoEndpoints EXCEPT !["embeddings"] = [rpm |-> 1, burst |-> 1]]]}

---------------------------------------------------------------------------
(* BackendSelection: what is built and preferred, where a model is placed,   *)
(* and what its path holds.                                                  *)

PlainModel == [hint |-> "", device |-> NoDevice, gpu_layers |-> "none", kv |-> "none",
               context |-> 0, sequences |-> 0, embedding |-> FALSE, format |-> "auto"]
GgufFile == [kind |-> "file", ext |-> "gguf", ggufs |-> <<>>, sidecar |-> <<>>, has |-> {}]
PlainSetup ==
  [build |-> {"cuda", "rocm"}, native |-> TRUE,
   policy |-> [prefer |-> TRUE, allow |-> TRUE, strict |-> FALSE],
   hints |-> <<>>, default_hint |-> "cpu", ordinals |-> {}, devices |-> [cuda |-> 2, rocm |-> 1],
   flash |-> TRUE, kv |-> "f16", layers |-> "zero", context |-> 4, sequences |-> 2,
   minimum |-> 2, spec |-> PlainModel, path |-> GgufFile]

Exposures ==
  {[PlainSetup EXCEPT !.build = b, !.native = n, !.policy = x, !.spec.hint = h, !.hints = hs,
                      !.default_hint = d] :
     b \in {{"cuda", "rocm"}, {"metal", "mlx"}, {"cuda"}, {}}, n \in BOOLEAN,
     x \in [prefer : BOOLEAN, allow : BOOLEAN, strict : BOOLEAN],
     h \in {"", "auto", "cpu", "cuda", "inferflux_cuda", "llama_cpp_cuda", "rocm", "mlx", "opencl"},
     hs \in {<<>>, <<"cuda", "CPU", "llama_cpp_cuda", "cuda">>}, d \in {"auto", "cuda"}}

Placements ==
  {[PlainSetup EXCEPT !.policy.prefer = x, !.ordinals = o, !.flash = f, !.kv = c,
       !.spec = [hint |-> h, device |-> d, gpu_layers |-> g, kv |-> sk, context |-> s[1],
                 sequences |-> s[2], embedding |-> s[3], format |-> "auto"]] :
     x \in BOOLEAN, o \in {{}, {[vendor |-> "cuda", ordinal |-> 1]}}, f \in BOOLEAN,
     c \in {"f16", "q8_0"}, h \in {"", "cuda", "rocm", "cpu"},
     d \in {NoDevice, [vendor |-> "cuda", ordinal |-> 2], [vendor |-> "cuda", ordinal |-> 0],
            [vendor |-> "rocm", ordinal |-> 0]},
     g \in {"none", "some"}, sk \in {"none", "q8_0"},
     s \in {<<0, 0, FALSE>>, <<0, 1, TRUE>>, <<1, 2, FALSE>>, <<3, 3, TRUE>>}}

Formats == {"auto", "gguf", "safetensors", "hf", "unknown"}
Listings == {<<>>, << <<"gguf", 2>>, <<"q4_k_m", 3>>, <<"q4_k_m", 1>> >>,
             << <<"q4_k_m", 1>>, <<"q4_k_m", 3>> >>, << <<"q8_0", 1>> >>}
Directories ==
  {[PlainSetup EXCEPT !.build = b, !.native = "cuda" \in b, !.spec.hint = h, !.spec.format = f,
       !.policy.prefer = x,
       !.path = [kind |-> d, ext |-> "other", ggufs |-> l, sidecar |-> s, has |-> c]] :
     b \in {{"cuda", "rocm"}, {"metal", "mlx"}, {"metal"}}, h \in {"", "mps"},
     x \in BOOLEAN, f \in Formats, d \in {"hf", "dir"}, l \in Listings,
     s \in {<<>>, << <<"gguf", 2>>, <<"q4_k_m", 1>> >>},
     c \in {{}, {"safetensors", "config"}, {"config"}}}
Files ==
  {[PlainSetup EXCEPT !.spec.format = f, !.path.kind = k, !.path.ext = x] :
     f \in Formats, k \in {"missing", "file"}, x \in {"gguf", "safetensors", "other"}}

MCSetups ==
  {s \in Exposures \cup Placements \cup Directories \cup Files : s.native => "cuda" \in s.build}

---------------------------------------------------------------------------
\* A load that has ended.
SelectIdle == setup = PlainSetup /\ todo = <<>> /\ failure = "" /\ loaded = NoBackend

\* A part that does not run has one input.
Fixed(v, y, part) == focus = part \/ (focus # part /\ v = y)

MCInit ==
  /\ focus \in {"slices", "llama", "pipeline", "policy", "limiter", "selection"}
  /\ Fixed(task, [text |-> <<>>, max |-> Min(Budgets), burst |-> Min(Bursts), slice |-> Min(Timeslices),
                  stop |-> <<>>, chunk |-> Min(ChunkSizes)], "slices")
  /\ SlicesInit
  /\ focus = "slices" \/ req.n_past = 0
  /\ Fixed(PromptOf, CHOOSE f \in Prompts : TRUE, "llama")
  /\ Fixed(memory, CHOOSE m \in Memories : TRUE, "llama")
  /\ Fixed(width, Min(DecodeWidths), "pipeline")
  /\ Fixed(startup, CHOOSE s \in Startups : TRUE, "policy")
  /\ Fixed(limit, (CHOOSE c \in LimiterConfigs : TRUE).limit, "limiter")
  /\ Fixed(endpoints, (CHOOSE c \in LimiterConfigs : TRUE).endpoints, "limiter")
  /\ LlamaInit /\ PipeInit /\ PolicyInit /\ LimiterInit
  /\ \/ focus = "selection" /\ SelectInit
     \/ focus # "selection" /\ SelectIdle

MCNext ==
  /\ UNCHANGED focus
  /\ \/ /\ focus = "slices" /\ SlicesNext
        /\ UNCHANGED <<llamaVars, pipeVars, policyVars, limiterVars, selectVars>>
     \/ /\ focus = "llama" /\ LlamaNext
        /\ UNCHANGED <<sliceVars, pipeVars, policyVars, limiterVars, selectVars>>
     \/ /\ focus = "pipeline" /\ PipeNext
        /\ UNCHANGED <<sliceVars, llamaVars, policyVars, limiterVars, selectVars>>
     \/ /\ focus = "policy" /\ PolicyNext
        /\ UNCHANGED <<sliceVars, llamaVars, pipeVars, limiterVars, selectVars>>
     \/ /\ focus = "limiter" /\ LimiterNext
        /\ UNCHANGED <<sliceVars, llamaVars, pipeVars, policyVars, selectVars>>
     \/ /\ focus = "selection" /\ SelectNext
        /\ UNCHANGED <<sliceVars, llamaVars, pipeVars, policyVars, limiterVars>>

mcVars == <<focus, sliceVars, llamaVars, pipeVars, policyVars, limiterVars, selectVars>>

MCSpec == MCInit /\ [][MCNext]_mcVars

=============================================================================
