---------------------------- MODULE EngineVariants ----------------------------
(***************************************************************************)
(* The hybrid engine with SGLang in the place of vLLM and Megatron in the  *)
(* place of FSDP: sharding_manager/fsdp_sglang.py, megatron_vllm.py and    *)
(* megatron_sglang.py, and verl/workers/megatron_workers.py.  Each manager *)
(* goes its own way through the places HybridEngine names.                 *)
(*                                                                         *)
(* SGLang is built on the device with all its memory, and what it has in   *)
(* memory that is released is lost.                                        *)
(***************************************************************************)
EXTENDS HybridEngine

VARIABLE needReload     \* _need_reload of AsyncEngine

engineVars == <<vars, needReload>>

Fsdp == config.workers = "fsdp"
Vllm == config.rollout = "vllm"

-----------------------------------------------------------------------------
(* The handlers of actor and critic.  Those of the Megatron workers move the *)
(* same in the same order.                                                   *)

HandlerOf(c) == call \in c /\ (Fetch \/ Update \/ Read \/ LoadCheckpoint \/ PutAway)

FsdpUpdateActor == HandlerOf({"update_actor"})
FsdpReadActor == HandlerOf({"log_prob", "ref", "load_actor", "save_actor"})
FsdpCritic == HandlerOf({"values", "update_critic", "load_critic", "save_critic"})
MegatronUpdateActor == HandlerOf({"update_actor"})
MegatronReadActor == HandlerOf({"log_prob", "load_actor", "save_actor"})
MegatronCritic == HandlerOf({"values", "update_critic", "load_critic", "save_critic"})

Handlers ==
    /\ \/ Fsdp /\ (FsdpUpdateActor \/ FsdpReadActor \/ FsdpCritic)
       \/ ~Fsdp /\ (MegatronUpdateActor \/ MegatronReadActor \/ MegatronCritic)
    /\ UNCHANGED needReload

-----------------------------------------------------------------------------
(* Entering and leaving with Megatron and vLLM.                              *)

\* generate_sequences puts the optimizer away before it enters; a server's
\* wake_up does not.
WithoutOptimizer ==
    IF call = "generate" THEN onDevice \ (config.offload \cap {"actorOptimizer"}) ELSE onDevice

MegatronEnterFetch ==
    /\ ~Fsdp /\ (Vllm \/ ~config.async)
    /\ pc = "enter"
    /\ onDevice' = WithoutOptimizer \cup (config.offload \cap {"actor"})
    /\ pc' = "wake"
    /\ UNCHANGED <<driver, weights, isSleep, randomness>>

\* load_weights of the engine's model takes them as they are, without the
\* adapters and the base model's flag of update_params.
MegatronLoadWeights ==
    /\ ~Fsdp
    /\ pc = "sync"
    /\ engine' = ActorWeights
    /\ pc' = "shed"
    /\ UNCHANGED <<driver, onDevice, version, cached, baseSyncDone, isSleep, randomness>>

VllmEngine ==
    /\ Vllm
    /\ \/ Fsdp /\ (EnterFetch \/ UpdateParams)
       \/ MegatronEnterFetch \/ MegatronLoadWeights
       \/ WakeWeights \/ EnterPutAway \/ EnterEnd \/ Generate \/ Exit
    /\ UNCHANGED needReload

-----------------------------------------------------------------------------
(* SGLang's engine.                                                          *)

Lost == [base |-> Dummy, adapter |-> 0]

\* resume_memory_occupation: what the engine was built with goes first.
Resumed(parts) ==
    /\ onDevice' = (IF needReload THEN onDevice \ Engine ELSE onDevice) \cup parts
    /\ engine' = IF needReload THEN Lost ELSE engine
    /\ needReload' = FALSE

\* FSDPSGLangShardingManager.__enter__ wakes the engine before it fetches the
\* actor; with tags (multi_stage_wake_up) its weights alone.
ResumeFirst ==
    /\ Fsdp /\ ~config.async
    /\ pc = "enter"
    /\ Resumed(IF config.tags THEN {"weights"} ELSE Engine)
    /\ pc' = "load"
    /\ UNCHANGED <<driver, version, cached, baseSyncDone, isSleep, randomness>>

\* Megatron's update_weights wakes all of it, when the actor is there; the
\* wake_up of a server fetches nothing.
ResumeAll ==
    /\ ~Fsdp
    /\ pc = IF config.async THEN "enter" ELSE "wake"
    /\ Resumed(Engine)
    /\ pc' = "sync"
    /\ UNCHANGED <<driver, version, cached, baseSyncDone, isSleep, randomness>>

\* load_fsdp_model_to_gpu; the wake_up of a server begins with it.
FetchParams ==
    /\ Fsdp
    /\ pc = IF config.async THEN "enter" ELSE "load"
    /\ onDevice' = onDevice \cup (config.offload \cap {"actor"})
    /\ pc' = "sync"
    /\ UNCHANGED <<driver, weights, isSleep, randomness>>

\* update_weights, which flushes the prefix cache with the last tensor, or
\* after each.
UpdateWeights ==
    /\ pc = "sync"
    /\ engine' = ActorWeights
    /\ cached' = {}
    /\ pc' = IF ~Fsdp /\ config.async THEN "cache" ELSE "shed"
    /\ UNCHANGED <<driver, onDevice, version, baseSyncDone, isSleep, randomness>>

\* The cache, if it was not woken before, and the random state.
ResumeEnd ==
    /\ pc = "cache"
    /\ onDevice' = onDevice \cup
          (IF Fsdp /\ ~config.async /\ config.tags THEN {"cache"} ELSE {})
    /\ torchRandom' = rng
    /\ rng' = genRandom
    /\ isSleep' = FALSE
    /\ pc' = IF call = "generate" THEN "generate" ELSE "return"
    /\ UNCHANGED <<driver, weights, genRandom, trained, generated>>

\* The rollout flushes the cache when it is done if free_cache_engine is set;
\* chat_completion does not.
SglangGenerate ==
    /\ pc = "generate"
    /\ \E free_cache_engine \in IF config.async THEN {FALSE} ELSE BOOLEAN :
         cached' = IF free_cache_engine THEN {} ELSE cached \cup {engine}
    /\ rng' = Draw(rng)
    /\ generated' = generated + 1
    /\ pc' = IF call = "generate" THEN "sleep" ELSE "return"
    /\ UNCHANGED <<driver, onDevice, version, engine, baseSyncDone, isSleep, torchRandom, genRandom, trained>>

\* __exit__ and sleep: release_memory, and the random state.
Release ==
    /\ pc = "sleep"
    /\ onDevice' = onDevice \ Engine
    /\ engine' = Lost
    /\ genRandom' = rng
    /\ rng' = torchRandom
    /\ isSleep' = TRUE
    /\ pc' = "return"
    /\ UNCHANGED <<driver, version, cached, baseSyncDone, torchRandom, trained, generated>>

SglangEngine ==
    /\ ~Vllm
    /\ \/ ResumeFirst \/ ResumeAll
       \/ /\ \/ FetchParams \/ MegatronEnterFetch \/ UpdateWeights \/ EnterPutAway
             \/ ResumeEnd \/ SglangGenerate \/ Release
          /\ UNCHANGED needReload

-----------------------------------------------------------------------------

\* After init_model: SGLang was built awake, its rollout's flag says asleep; a
\* Megatron optimizer has its copy of the parameters.
Built ==
    ((Present \cup (IF Fsdp THEN {} ELSE {OptimizerOf(m) : m \in Present})) \ config.offload)
        \cup (IF config.async \/ ~Vllm THEN Engine ELSE {})

VariantsInit ==
    /\ config \in Configs
    /\ step = 1
    /\ \E first \in IF config.resume THEN {Then("load_actor", "train", 1)} ELSE Starting :
         /\ call = first.call
         /\ purpose = first.purpose
         /\ isSleep = (~Vllm \/ ~config.async)
         /\ pc = Entry(call)
    /\ onDevice = Built
    /\ version = [m \in Models |-> 0]
    /\ engine = [base |-> IF config.dummy THEN Dummy ELSE 0, adapter |-> 0]
    /\ cached = {}
    /\ baseSyncDone = ~config.dummy
    /\ rng = [stream |-> "train", drawn |-> 0]
    /\ torchRandom = rng
    /\ genRandom = [stream |-> "gen", drawn |-> 0]
    /\ trained = 0
    /\ generated = 0
    /\ needReload = TRUE

VariantsNext ==
    \/ Dispatch /\ UNCHANGED needReload
    \/ Handlers
    \/ VllmEngine
    \/ SglangEngine

VariantsSpec == VariantsInit /\ [][VariantsNext]_engineVars
=============================================================================
