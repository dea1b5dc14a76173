----------------------------- MODULE HybridEngine -----------------------------
(***************************************************************************)
(* The hybrid engine: one worker process holds the FSDP actor, the critic  *)
(* and a vLLM engine on one device, and takes the calls of the trainer one *)
(* at a time (verl/workers/fsdp_workers.py).  Around a generation the      *)
(* sharding manager (sharding_manager/fsdp_vllm.py) wakes the engine,      *)
(* gives it the actor's weights and the device its random state, and puts  *)
(* both back.  In "async" mode generate_sequences is three calls: wake_up, *)
(* the chat completions and sleep (vllm_rollout_spmd.py).                  *)
(*                                                                         *)
(* The steps of a handler that move something to or from the device are    *)
(* actions of their own, since what matters is what is there together.     *)
(* Weights are their number of updates; a random state is the stream it is *)
(* of and the number of values drawn from it.                              *)
(*                                                                         *)
(* A definition commented "Fault" is the definition after it with a        *)
(* plausible mistake; no action uses it.                                   *)
(***************************************************************************)
EXTENDS Integers, FiniteSets

CONSTANTS
    Configs,    \* configurations, records of Config
    Steps       \* bound: total_training_steps

Models == {"actor", "critic"}
Optimizers == {"actorOptimizer", "criticOptimizer"}
Engine == {"weights", "cache"}
OptimizerOf(m) == IF m = "actor" THEN "actorOptimizer" ELSE "criticOptimizer"

\* offload: param_offload and optimizer_offload of both roles; lora: an adapter
\* is trained, and the reference is the actor without it; dummy: load_format;
\* tags: the engine wakes weights and cache separately; warmup: critic_warmup;
\* workers: strategy.  What the other workers and engine do differently is in
\* EngineVariants.
Config == [workers : {"fsdp", "megatron"}, rollout : {"vllm", "sglang"},
           async : BOOLEAN, offload : SUBSET (Models \cup Optimizers),
           lora : BOOLEAN, dummy : BOOLEAN, tags : BOOLEAN, resume : BOOLEAN,
           critic : BOOLEAN, remax : BOOLEAN, warmup : Nat]

\* vLLM's asynchronous server loads the model's own weights without adapters,
\* and its workers refuse generate_sequences, which the baseline of REMAX calls;
\* the other workers and engine know no adapters.
ASSUME ConfigsAssumption ==
    Configs \subseteq {c \in Config :
        /\ c.async => ~c.lora /\ ~c.remax /\ (c.rollout = "vllm" => ~c.dummy)
        /\ c.lora => c.workers = "fsdp" /\ c.rollout = "vllm"}
ASSUME StepsAssumption == Steps \in Nat \ {0}

VARIABLES
    config,
    step,           \* global_steps
    call,           \* the trainer's current or last call
    purpose,        \* what it generates for
    pc,             \* where its handler is; "return": the call is over
    onDevice,       \* what is on the device, of models, optimizers and engine
    version,        \* model -> the updates its weights have had
    engine,         \* the weights the engine generates with
    cached,         \* the weights its prefix cache was computed with
    baseSyncDone,   \* base_sync_done
    isSleep,        \* is_sleep of the asynchronous rollout
    rng,            \* the device's random state
    torchRandom,    \* torch_random_states
    genRandom,      \* gen_random_states
    trained,        \* history: values drawn by training, over all restarts
    generated       \* history: values drawn by generation

driver == <<config, step, call, purpose>>
weights == <<version, engine, cached, baseSyncDone>>
randomness == <<rng, torchRandom, genRandom, trained, generated>>
vars == <<driver, pc, onDevice, weights, isSleep, randomness>>

Dummy == -1     \* the weights a dummy load format leaves in the engine
Restored == 1   \* bound: the updates, and the draws, of the checkpoint loaded

\* The actor's weights: of the model, or of the adapter on the model as it was.
ActorWeights ==
    IF config.lora THEN [base |-> 0, adapter |-> version["actor"]]
                   ELSE [base |-> version["actor"], adapter |-> 0]

Present == IF config.critic THEN Models ELSE {"actor"}

-----------------------------------------------------------------------------
(* The trainer: which call follows, fit and _validate.                      *)

Then(c, p, s) == [call |-> c, purpose |-> p, step |-> s]

\* A generation, for training or for something else.
Generation(p, s) == {Then(IF config.async THEN "wake_up" ELSE "generate", p, s)}

NextStep == IF step < Steps THEN Generation("train", step + 1) ELSE {Then("end", "train", step)}
Saving == {Then("save_actor", "train", step)} \cup NextStep
Testing == Generation("after", step) \cup Saving
UpdateActor == IF config.warmup <= step THEN {Then("update_actor", "train", step)} ELSE Testing
Values == IF config.critic THEN {Then("values", "train", step)} ELSE UpdateActor
Starting == Generation("before", step) \cup Generation("train", step)

Following ==
    CASE call = "load_actor" -> IF config.critic THEN {Then("load_critic", "train", step)} ELSE Starting
      [] call = "load_critic" -> Starting
      [] call = "wake_up" -> {Then("chat", purpose, step)}
      [] call = "chat" -> {Then("sleep", purpose, step)}
      [] call \in {"generate", "sleep"} /\ purpose = "before" -> Generation("train", step)
      [] call \in {"generate", "sleep"} /\ purpose = "train" ->
            IF config.remax THEN Generation("baseline", step) ELSE {Then("log_prob", "train", step)}
      [] call \in {"generate", "sleep"} /\ purpose = "baseline" -> {Then("log_prob", "train", step)}
      [] call \in {"generate", "sleep"} /\ purpose = "after" -> Saving
      [] call = "log_prob" -> IF config.lora THEN {Then("ref", "train", step)} ELSE Values
      [] call = "ref" -> Values
      [] call = "values" -> {Then("update_critic", "train", step)}
      [] call = "update_critic" -> UpdateActor
      [] call = "update_actor" -> Testing
      [] call = "save_actor" -> IF config.critic THEN {Then("save_critic", "train", step)} ELSE NextStep
      [] call = "save_critic" -> NextStep
      [] OTHER -> {}

Calls == {"load_actor", "load_critic", "generate", "wake_up", "chat", "sleep",
          "log_prob", "ref", "values", "update_critic", "update_actor",
          "save_actor", "save_critic", "end"}

\* The first step of a call's handler; wake_up and sleep return at once when
\* the flag says there is nothing to do.
Entry(c) ==
    CASE c = "generate" -> "enter"
      [] c = "wake_up" -> IF isSleep THEN "enter" ELSE "return"
      [] c = "chat" -> "generate"
      [] c = "sleep" -> IF isSleep THEN "return" ELSE "sleep"
      [] c = "end" -> "return"
      [] OTHER -> "fetch"

Dispatch ==
    /\ pc = "return"
    /\ \E next \in Following :
         /\ call' = next.call
         /\ purpose' = next.purpose
         /\ step' = next.step
         /\ pc' = Entry(next.call)
    /\ UNCHANGED <<config, onDevice, weights, isSleep, randomness>>

-----------------------------------------------------------------------------
(* Moving models and optimizers.  An optimizer has nothing to move before    *)
(* its first step, but for Megatron's, which has a copy of the parameters.   *)

ModelOf(c) == IF c \in {"values", "update_critic", "save_critic", "load_critic"}
                THEN "critic" ELSE "actor"
Updates == {"update_actor", "update_critic"}
Loads == {"load_actor", "load_critic"}
HasState(o) ==
    config.workers = "megatron" \/ version[IF o = "actorOptimizer" THEN "actor" ELSE "critic"] > 0

\* load_fsdp_model_to_gpu and load_fsdp_optimizer, at the start of a handler.
FaultFetch ==
    /\ pc = "fetch"
    /\ onDevice' = onDevice \cup (config.offload \cap {ModelOf(call)})
    /\ pc' = "compute"
    /\ UNCHANGED <<driver, weights, isSleep, randomness>>
Fetch ==
    /\ pc = "fetch"
    /\ onDevice' = onDevice \cup
          (config.offload \cap
              ({ModelOf(call)} \cup
               {o \in {OptimizerOf(ModelOf(call))} : call \in Updates /\ HasState(o)}))
    /\ pc' = "compute"
    /\ UNCHANGED <<driver, weights, isSleep, randomness>>

\* offload_fsdp_model_to_cpu and offload_fsdp_optimizer, at its end.
FaultPutAway ==
    /\ pc = "put"
    /\ onDevice' = onDevice \
          (config.offload \cap
              ({ModelOf(call)} \cup
               {o \in {OptimizerOf(ModelOf(call))} : call \in Updates}))
    /\ pc' = "return"
    /\ UNCHANGED <<driver, weights, isSleep, randomness>>
PutAway ==
    /\ pc = "put"
    /\ onDevice' = onDevice \
          (config.offload \cap
              ({ModelOf(call)} \cup
               {o \in {OptimizerOf(ModelOf(call))} : call \in Updates \cup Loads}))
    /\ pc' = "return"
    /\ UNCHANGED <<driver, weights, isSleep, randomness>>

-----------------------------------------------------------------------------
(* What the handlers compute.                                                *)

Draw(state) == [state EXCEPT !.drawn = @ + 1]

\* update_actor and update_critic: the optimizer has a state from now on.
Update ==
    /\ pc = "compute" /\ call \in Updates
    /\ version' = [version EXCEPT ![ModelOf(call)] = @ + 1]
    /\ onDevice' = onDevice \cup {OptimizerOf(ModelOf(call))}
    /\ rng' = Draw(rng)
    /\ trained' = trained + 1
    /\ pc' = "put"
    /\ UNCHANGED <<driver, engine, cached, baseSyncDone, isSleep, torchRandom, genRandom, generated>>

\* compute_log_prob, compute_ref_log_prob of an adapter's actor, compute_values
\* and save_checkpoint.
Read ==
    /\ pc = "compute"
    /\ call \in {"log_prob", "ref", "values", "save_actor", "save_critic"}
    /\ pc' = "put"
    /\ UNCHANGED <<driver, onDevice, weights, isSleep, randomness>>

\* load_checkpoint: weights, the optimizer's state and the random state.
LoadCheckpoint ==
    /\ pc = "compute" /\ call \in Loads
    /\ version' = [version EXCEPT ![ModelOf(call)] = Restored]
    /\ onDevice' = onDevice \cup {OptimizerOf(ModelOf(call))}
    /\ rng' = [stream |-> "train", drawn |-> Restored]
    /\ trained' = Restored
    /\ pc' = "put"
    /\ UNCHANGED <<driver, engine, cached, baseSyncDone, isSleep, torchRandom, genRandom, generated>>

-----------------------------------------------------------------------------
(* FSDPVLLMShardingManager.__enter__.                                        *)

EnterFetch ==
    /\ pc = "enter"
    /\ onDevice' = onDevice \cup (config.offload \cap {"actor"})
    /\ pc' = "wake"
    /\ UNCHANGED <<driver, weights, isSleep, randomness>>

\* Without tags, the cache is woken with the weights.
WakeWeights ==
    /\ pc = "wake"
    /\ onDevice' = onDevice \cup (IF config.tags THEN {"weights"} ELSE Engine)
    /\ pc' = "sync"
    /\ UNCHANGED <<driver, weights, isSleep, randomness>>

\* __collect_lora_params or state_dict, and update_params.
FaultUpdateParams ==
    /\ pc = "sync"
    /\ engine' = IF config.lora /\ baseSyncDone
                   THEN [engine EXCEPT !.adapter = ActorWeights.adapter]
                   ELSE [engine EXCEPT !.base = ActorWeights.base]
    /\ pc' = "shed"
    /\ UNCHANGED <<driver, onDevice, version, cached, baseSyncDone, isSleep, randomness>>
UpdateParams ==
    /\ pc = "sync"
    /\ IF config.lora /\ baseSyncDone
         THEN /\ engine' = [engine EXCEPT !.adapter = ActorWeights.adapter]
              /\ UNCHANGED baseSyncDone
         ELSE /\ engine' = [engine EXCEPT !.base = ActorWeights.base]
              /\ baseSyncDone' = TRUE
    /\ pc' = "shed"
    /\ UNCHANGED <<driver, onDevice, version, cached, isSleep, randomness>>

EnterPutAway ==
    /\ pc = "shed"
    /\ onDevice' = onDevice \ (config.offload \cap {"actor"})
    /\ pc' = "cache"
    /\ UNCHANGED <<driver, weights, isSleep, randomness>>

\* The cache is woken, and the device gets the random state of generation,
\* which is the same on the ranks that hold parts of one engine.
FaultEnterEnd ==
    /\ pc = "cache"
    /\ onDevice' = onDevice \cup Engine
    /\ rng' = genRandom
    /\ isSleep' = FALSE
    /\ pc' = IF call = "generate" THEN "generate" ELSE "return"
    /\ UNCHANGED <<driver, weights, torchRandom, genRandom, trained, generated>>
EnterEnd ==
    /\ pc = "cache"
    /\ onDevice' = onDevice \cup Engine
    /\ torchRandom' = rng
    /\ rng' = genRandom
    /\ isSleep' = FALSE
    /\ pc' = IF call = "generate" THEN "generate" ELSE "return"
    /\ UNCHANGED <<driver, weights, genRandom, trained, generated>>

-----------------------------------------------------------------------------
(* Generating, and FSDPVLLMShardingManager.__exit__.                         *)

\* generate_sequences of the engine, or the chat completions; it samples, and
\* leaves the blocks of its prompts in the prefix cache.
Generate ==
    /\ pc = "generate"
    /\ cached' = cached \cup {engine}
    /\ rng' = Draw(rng)
    /\ generated' = generated + 1
    /\ pc' = IF call = "generate" THEN "sleep" ELSE "return"
    /\ UNCHANGED <<driver, onDevice, version, engine, baseSyncDone, isSleep, torchRandom, genRandom, trained>>

\* The engine sleeps, its prefix cache forgotten, and the device gets its own
\* random state back.
Exit ==
    /\ pc = "sleep"
    /\ onDevice' = onDevice \ Engine
    /\ cached' = {}
    /\ genRandom' = rng
    /\ rng' = torchRandom
    /\ isSleep' = TRUE
    /\ pc' = "return"
    /\ UNCHANGED <<driver, version, engine, baseSyncDone, torchRandom, trained, generated>>

-----------------------------------------------------------------------------

\* After init_model: the engine was built asleep, or with its server awake.
Init ==
    /\ config \in Configs
    /\ config.workers = "fsdp" /\ config.rollout = "vllm"
    /\ step = 1
    /\ \E first \in IF config.resume THEN {Then("load_actor", "train", 1)} ELSE Starting :
         /\ call = first.call
         /\ purpose = first.purpose
         /\ isSleep = ~config.async
         /\ pc = Entry(call)
    /\ onDevice = (Present \ config.offload) \cup (IF config.async THEN Engine ELSE {})
    /\ version = [m \in Models |-> 0]
    /\ engine = [base |-> IF config.dummy THEN Dummy ELSE 0, adapter |-> 0]
    /\ cached = {}
    /\ baseSyncDone = ~config.dummy
    /\ rng = [stream |-> "train", drawn |-> 0]
    /\ torchRandom = rng
    /\ genRandom = [stream |-> "gen", drawn |-> 0]
    /\ trained = 0
    /\ generated = 0

Next ==
    \/ Dispatch \/ Fetch \/ PutAway
    \/ Update \/ Read \/ LoadCheckpoint
    \/ EnterFetch \/ WakeWeights \/ UpdateParams \/ EnterPutAway \/ EnterEnd
    \/ Generate \/ Exit

Spec == Init /\ [][Next]_vars

-----------------------------------------------------------------------------
(* Properties. *)

TypeOK ==
    /\ config \in Configs
    /\ step \in 1 .. Steps
    /\ call \in Calls
    /\ purpose \in {"before", "train", "baseline", "after"}
    /\ pc \in {"return", "fetch", "compute", "put", "enter", "load", "wake",
              "sync", "shed", "cache", "generate", "sleep"}
    /\ onDevice \subseteq Models \cup Optimizers \cup Engine
    /\ version \in [Models -> Nat]
    /\ engine \in [base : Nat \cup {Dummy}, adapter : Nat]
    /\ cached \subseteq [base : Nat \cup {Dummy}, adapter : Nat]
    /\ baseSyncDone \in BOOLEAN
    /\ isSleep \in BOOLEAN
    /\ {rng, torchRandom, genRandom} \subseteq [stream : {"train", "gen"}, drawn : Nat]
    /\ trained \in Nat
    /\ generated \in Nat

\* Every generation is with the weights of the last update, or those restored,
\* and reuses no prefix computed with other ones: of the base model and the
\* adapter, whichever update_params sends, across wake-ups that do nothing.
GeneratesLatest == pc = "generate" => engine = ActorWeights /\ cached \subseteq {engine}

\* Whatever computes has all it works on on the device: the model and the
\* optimizer's state once there is one, both sides when weights are copied,
\* and the whole engine.
ComputesOnDevice ==
    /\ pc = "compute" =>
         /\ ModelOf(call) \in onDevice
         /\ call \in Updates /\ HasState(OptimizerOf(ModelOf(call))) =>
               OptimizerOf(ModelOf(call)) \in onDevice
    /\ pc = "sync" => {"actor", "weights"} \subseteq onDevice
    /\ pc = "generate" => Engine \subseteq onDevice

\* Two tenants never hold the device together: nothing that is offloaded is
\* there with the key-value cache (when vLLM wakes it by its tag), nor the
\* engine while the actor or the critic computes; and no handler leaves on the
\* device what it fetched.
DeviceShared ==
    /\ config.tags /\ "cache" \in onDevice => onDevice \cap config.offload = {}
    /\ pc = "compute" => onDevice \cap Engine = {}
    /\ pc = "return" => onDevice \cap config.offload = {}

\* With the synchronous engine training and generation each go on in a random
\* stream of their own, no value of it drawn twice, and a checkpoint's state
\* is the one training goes on from ("need to manually set the random states
\* of each tp to be identical", "restore random states").
OwnStreams ==
    ~config.async =>
        /\ pc = "generate" => rng = [stream |-> "gen", drawn |-> generated]
        /\ pc = "compute" => rng = [stream |-> "train", drawn |-> trained]
=============================================================================
