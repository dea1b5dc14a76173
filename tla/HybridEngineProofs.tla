-------------------------- MODULE HybridEngineProofs --------------------------
(***************************************************************************)
(* Theorems about HybridEngine, for any number of steps and any set of     *)
(* configurations in which no generation comes before the weights can be   *)
(* right (SyncedAtStart): whatever the order of generations, updates and   *)
(* checkpoints, the engine generates with the weights of the last update,  *)
(* what computes is on the device, offloaded tenants never meet the        *)
(* engine, and each random stream goes on where it stopped.                *)
(*                                                                         *)
(* The inductive invariant says, for each place a handler can be in, what  *)
(* is on the device, in the engine and in the device's random state there. *)
(***************************************************************************)
EXTENDS HybridEngine, TLAPS

(* Not the two configurations whose first generation is with the weights   *)
(* of the model's path: an asynchronous server that is awake when a        *)
(* checkpoint is loaded, and a dummy base model that is sent first under   *)
(* an adapter restored already.                                            *)
SyncedAtStart ==
    \A c \in Configs : ~(c.async /\ c.resume) /\ ~(c.lora /\ c.dummy /\ c.resume)

Purposes == {"before", "train", "baseline", "after"}
AsyncCalls == {"wake_up", "chat", "sleep"}
CriticCalls == {"load_critic", "values", "update_critic", "save_critic"}
Computing == {"load_actor", "load_critic", "log_prob", "ref", "values",
              "update_critic", "update_actor", "save_actor", "save_critic"}

(***************************************************************************)
(* The inductive invariant.                                                *)
(***************************************************************************)

(* The call is one that the configuration, of FSDP workers with vLLM,      *)
(* makes.                                                                  *)
CallMade ==
    /\ config.workers = "fsdp" /\ config.rollout = "vllm"
    /\ call \in AsyncCalls => config.async
    /\ call = "generate" => ~config.async
    /\ call \in CriticCalls => config.critic
    /\ call \in Loads => config.resume

Place ==
    /\ pc \in {"fetch", "compute", "put"} => call \in Computing
    /\ pc \in {"enter", "wake", "sync", "shed", "cache"} => call \in {"generate", "wake_up"}
    /\ pc = "generate" => call \in {"generate", "chat"}
    /\ pc = "sleep" => call \in {"generate", "sleep"}

(* The engine is in use: it has all its memory, and the flag says so.      *)
EngineUp ==
    \/ pc \in {"generate", "sleep"}
    \/ pc = "return" /\ call \in {"wake_up", "chat"}

FlagRight == isSleep = ~EngineUp

EngineMemory ==
    /\ EngineUp => Engine \subseteq onDevice
    /\ pc \in {"sync", "shed", "cache"} =>
          "weights" \in onDevice /\ (config.tags => "cache" \notin onDevice)
    /\ ~EngineUp /\ pc \notin {"sync", "shed", "cache"} => onDevice \cap Engine = {}

(* What is offloaded is on the device only in the handler that fetched it. *)
OffloadedMemory ==
    /\ pc \in {"compute", "put"} =>
          onDevice \cap config.offload \subseteq
              {ModelOf(call)} \cup
              {o \in {OptimizerOf(ModelOf(call))} : call \in Updates \cup Loads}
    /\ pc \in {"wake", "sync", "shed"} => onDevice \cap config.offload \subseteq {"actor"}
    /\ pc \notin {"compute", "put", "wake", "sync", "shed"} => onDevice \cap config.offload = {}

(* The rest is always there, and what was fetched is there when it is      *)
(* needed.                                                                 *)
ResidentMemory ==
    /\ Present \ config.offload \subseteq onDevice
    /\ \A m \in Models :
          version[m] > 0 /\ OptimizerOf(m) \notin config.offload => OptimizerOf(m) \in onDevice
    /\ pc \in {"compute", "put"} => ModelOf(call) \in onDevice
    /\ pc = "compute" /\ call \in Updates /\ version[ModelOf(call)] > 0 =>
          OptimizerOf(ModelOf(call)) \in onDevice
    /\ pc \in {"wake", "sync", "shed"} => "actor" \in onDevice

(* One stream is in the device, the other one kept for it.                 *)
StreamsApart ==
    ~config.async =>
        IF pc \in {"generate", "sleep"}
          THEN /\ rng = [stream |-> "gen", drawn |-> generated]
               /\ torchRandom = [stream |-> "train", drawn |-> trained]
          ELSE /\ rng = [stream |-> "train", drawn |-> trained]
               /\ genRandom = [stream |-> "gen", drawn |-> generated]

(* What update_params sends, or has sent, completes what the engine has.   *)
BaseSent ==
    /\ ~config.lora => engine.adapter = 0
    /\ config.lora /\ baseSyncDone => engine.base = 0
    /\ ~baseSyncDone =>
          /\ config.dummy
          /\ pc \notin {"shed", "cache"} /\ ~EngineUp
          /\ call \in Loads \cup {"generate"}
          /\ call = "generate" => pc \in {"enter", "wake", "sync"}
          /\ config.lora => version["actor"] = 0 /\ engine.adapter = 0

EngineFresh ==
    /\ EngineUp \/ pc \in {"shed", "cache"} => engine = ActorWeights
    /\ cached \subseteq (IF EngineUp THEN {engine} ELSE {})

(* The parts that hold in every configuration, and all of them.            *)
Tenancy ==
    /\ TypeOK
    /\ CallMade
    /\ Place
    /\ ResidentMemory
    /\ StreamsApart

IInv ==
    /\ Tenancy
    /\ FlagRight
    /\ EngineMemory
    /\ OffloadedMemory
    /\ BaseSent
    /\ EngineFresh

(***************************************************************************)
(* Which calls follow which.                                               *)
(***************************************************************************)

(* What a generation or the next step begins with.                         *)
LEMMA GenerationFacts ==
    ASSUME TypeOK, NEW p \in Purposes, NEW s \in 1 .. Steps, NEW next \in Generation(p, s)
    PROVE  /\ next \in [call : Calls, purpose : Purposes, step : 1 .. Steps]
           /\ next.call = IF config.async THEN "wake_up" ELSE "generate"
BY DEF Generation, Then, Calls, Purposes

LEMMA SavingFacts ==
    ASSUME TypeOK, NEW next \in Testing
    PROVE  /\ next \in [call : Calls, purpose : Purposes, step : 1 .. Steps]
           /\ next.call \in {"wake_up", "generate", "save_actor", "end"}
           /\ next.call = "wake_up" => config.async
           /\ next.call = "generate" => ~config.async
<1>1. step \in 1 .. Steps /\ step \in Nat /\ Steps \in Nat
  BY StepsAssumption DEF TypeOK
<1>2. CASE next \in Generation("after", step)
  BY <1>1, <1>2, GenerationFacts DEF Purposes
<1>3. CASE next = Then("save_actor", "train", step)
  BY <1>1, <1>3 DEF Then, Calls, Purposes
<1>4. CASE next \in NextStep
  <2>1. CASE step < Steps
    <3>1. step + 1 \in 1 .. Steps
      BY <1>1, <2>1
    <3>2. next \in Generation("train", step + 1)
      BY <1>4, <2>1 DEF NextStep
    <3> QED BY <3>1, <3>2, GenerationFacts DEF Purposes
  <2>2. CASE ~(step < Steps)
    BY <1>1, <1>4, <2>2 DEF NextStep, Then, Calls, Purposes
  <2> QED BY <2>1, <2>2
<1> QED BY <1>2, <1>3, <1>4 DEF Testing, Saving

(* The calls of one generation follow each other, the critic's are made    *)
(* with a critic only, and loading comes first.                            *)
Follows(next) ==
    /\ next \in [call : Calls, purpose : Purposes, step : 1 .. Steps]
    /\ next.call \in AsyncCalls => config.async
    /\ next.call = "generate" => ~config.async
    /\ next.call \in CriticCalls => config.critic
    /\ next.call \in Loads => call \in Loads
    /\ call = "wake_up" <=> next.call = "chat"
    /\ call = "chat" <=> next.call = "sleep"
    /\ call \in Loads => next.call \in Loads \cup {"generate", "wake_up"}
    /\ call # "end"

LEMMA FollowingFacts ==
    ASSUME TypeOK, CallMade, NEW next \in Following
    PROVE  Follows(next)
<1> USE DEF Follows, AsyncCalls, CriticCalls, Loads
<1>1. step \in 1 .. Steps /\ purpose \in Purposes /\ call \in Calls
  BY DEF TypeOK, Purposes
<1>2. ASSUME NEW c \in Calls, NEW p \in Purposes
      PROVE  Then(c, p, step) \in [call : Calls, purpose : Purposes, step : 1 .. Steps]
  BY <1>1 DEF Then
<1>3. ASSUME NEW p \in Purposes, next \in Generation(p, step)
      PROVE  /\ next \in [call : Calls, purpose : Purposes, step : 1 .. Steps]
             /\ next.call = IF config.async THEN "wake_up" ELSE "generate"
  BY <1>1, <1>3, GenerationFacts
<1>4. ASSUME next \in UpdateActor
      PROVE  /\ next \in [call : Calls, purpose : Purposes, step : 1 .. Steps]
             /\ next.call \in {"update_actor", "wake_up", "generate", "save_actor", "end"}
             /\ next.call = "wake_up" => config.async
             /\ next.call = "generate" => ~config.async
  <2>1. CASE next = Then("update_actor", "train", step)
    BY <1>2, <2>1 DEF Then, Calls, Purposes
  <2>2. CASE next \in Testing
    BY <2>2, SavingFacts
  <2> QED BY <1>4, <2>1, <2>2 DEF UpdateActor
<1>5. ASSUME next \in Values
      PROVE  /\ next \in [call : Calls, purpose : Purposes, step : 1 .. Steps]
             /\ next.call \in {"values", "update_actor", "wake_up", "generate", "save_actor", "end"}
             /\ next.call = "values" => config.critic
             /\ next.call = "wake_up" => config.async
             /\ next.call = "generate" => ~config.async
  <2>1. CASE config.critic
    <3>1. next = Then("values", "train", step)
      BY <1>5, <2>1 DEF Values
    <3> QED BY <1>2, <2>1, <3>1 DEF Then, Calls, Purposes
  <2>2. CASE ~config.critic
    BY <1>4, <1>5, <2>2 DEF Values
  <2> QED BY <2>1, <2>2
<1>6. ASSUME next \in Starting
      PROVE  /\ next \in [call : Calls, purpose : Purposes, step : 1 .. Steps]
             /\ next.call = IF config.async THEN "wake_up" ELSE "generate"
  BY <1>3, <1>6 DEF Starting, Purposes
<1>7. CASE call = "load_actor"
  <2>1. CASE config.critic
    <3>1. next = Then("load_critic", "train", step)
      BY <1>7, <2>1 DEF Following
    <3> QED BY <1>2, <1>7, <2>1, <3>1 DEF Then, Calls, Purposes
  <2>2. CASE ~config.critic
    BY <1>6, <1>7, <2>2 DEF Following
  <2> QED BY <2>1, <2>2
<1>8. CASE call = "load_critic"
  BY <1>6, <1>8 DEF Following
<1>9. CASE call = "wake_up"
  <2>1. next = Then("chat", purpose, step)
    BY <1>9 DEF Following
  <2> QED BY <1>1, <1>2, <1>9, <2>1 DEF Then, Calls, CallMade
<1>10. CASE call = "chat"
  <2>1. next = Then("sleep", purpose, step)
    BY <1>10 DEF Following
  <2> QED BY <1>1, <1>2, <1>10, <2>1 DEF Then, Calls, CallMade
<1>11. CASE call \in {"generate", "sleep"}
  <2>1. CASE purpose = "before"
    <3>1. next \in Generation("train", step)
      BY <1>11, <2>1 DEF Following
    <3> QED BY <1>3, <1>11, <3>1 DEF Purposes
  <2>2. ASSUME next = Then("log_prob", "train", step) PROVE Follows(next)
    BY <1>2, <1>11, <2>2 DEF Then, Calls, Purposes
  <2>3. CASE purpose = "train"
    <3>1. CASE config.remax
      <4>1. next \in Generation("baseline", step)
        BY <1>11, <2>3, <3>1 DEF Following
      <4> QED BY <1>3, <1>11, <4>1 DEF Purposes
    <3>2. CASE ~config.remax
      BY <1>11, <2>2, <2>3, <3>2 DEF Following
    <3> QED BY <3>1, <3>2
  <2>4. CASE purpose = "baseline"
    BY <1>11, <2>2, <2>4 DEF Following
  <2>5. CASE purpose = "after"
    <3>1. next \in Testing
      BY <1>11, <2>5 DEF Following, Testing
    <3> QED BY <1>11, <3>1, SavingFacts
  <2> QED BY <1>1, <2>1, <2>3, <2>4, <2>5 DEF Purposes
<1>12. CASE call = "log_prob"
  <2>1. CASE config.lora
    <3>1. next = Then("ref", "train", step)
      BY <1>12, <2>1 DEF Following
    <3> QED BY <1>2, <1>12, <3>1 DEF Then, Calls, Purposes
  <2>2. CASE ~config.lora
    BY <1>5, <1>12, <2>2 DEF Following
  <2> QED BY <2>1, <2>2
<1>13. CASE call = "ref"
  BY <1>5, <1>13 DEF Following
<1>14. CASE call = "values"
  <2>1. next = Then("update_critic", "train", step)
    BY <1>14 DEF Following
  <2> QED BY <1>2, <1>14, <2>1 DEF Then, Calls, Purposes, CallMade
<1>15. CASE call = "update_critic"
  BY <1>4, <1>15 DEF Following
<1>16. CASE call = "update_actor"
  BY <1>16, SavingFacts DEF Following
<1>17. CASE call = "save_actor"
  <2>1. CASE config.critic
    <3>1. next = Then("save_critic", "train", step)
      BY <1>17, <2>1 DEF Following
    <3> QED BY <1>2, <1>17, <2>1, <3>1 DEF Then, Calls, Purposes
  <2>2. CASE ~config.critic
    <3>1. next \in Testing
      BY <1>17, <2>2 DEF Following, Testing, Saving
    <3> QED BY <1>17, <3>1, SavingFacts
  <2> QED BY <2>1, <2>2
<1>18. CASE call = "save_critic"
  <2>1. next \in Testing
    BY <1>18 DEF Following, Testing, Saving
  <2> QED BY <1>18, <2>1, SavingFacts
<1>19. CASE call = "end"
  BY <1>19 DEF Following
<1> QED
  BY <1>1, <1>7, <1>8, <1>9, <1>10, <1>11, <1>12, <1>13, <1>14, <1>15, <1>16, <1>17,
     <1>18, <1>19 DEF Calls

(***************************************************************************)
(* The parts that hold in every configuration are inductive by themselves. *)
(***************************************************************************)

LEMMA StartingFacts ==
    ASSUME config \in Config, step = 1, NEW first \in Starting
    PROVE  /\ first.step = 1
           /\ first.purpose \in {"before", "train"}
           /\ first.call = IF config.async THEN "wake_up" ELSE "generate"
BY DEF Starting, Generation, Then

LEMMA ConfigFacts ==
    ASSUME config \in Configs
    PROVE  /\ config \in Config
           /\ config.async =>
                 ~config.lora /\ ~config.remax /\ (config.rollout = "vllm" => ~config.dummy)
BY ConfigsAssumption

LEMMA InitTenancy == Init => Tenancy
<1> SUFFICES ASSUME Init PROVE Tenancy
  OBVIOUS
<1>1. config \in Configs /\ config \in Config /\ step = 1
  BY ConfigFacts DEF Init
<1>2. PICK first \in IF config.resume THEN {Then("load_actor", "train", 1)} ELSE Starting :
          call = first.call /\ purpose = first.purpose /\ isSleep = ~config.async /\ pc = Entry(call)
  BY DEF Init
<1>3. /\ purpose \in Purposes
      /\ \/ config.resume /\ call = "load_actor" /\ pc = "fetch"
         \/ call = "generate" /\ ~config.async /\ pc = "enter"
         \/ call = "wake_up" /\ config.async /\ pc = "return" /\ ~isSleep
  <2>1. CASE config.resume
    BY <1>2, <2>1 DEF Then, Entry, Purposes
  <2>2. CASE ~config.resume
    BY <1>1, <1>2, <2>2, StartingFacts DEF Entry, Purposes
  <2> QED BY <2>1, <2>2
<1>4. TypeOK
  <2>1. step \in 1 .. Steps
    BY <1>1, StepsAssumption
  <2>2. isSleep \in BOOLEAN /\ baseSyncDone \in BOOLEAN
    BY <1>1, <1>2 DEF Init, Config
  <2>3. engine \in [base : Nat \cup {Dummy}, adapter : Nat] /\ cached = {}
    BY DEF Init
  <2>4. {rng, torchRandom, genRandom} \subseteq [stream : {"train", "gen"}, drawn : Nat]
    BY DEF Init
  <2>5. onDevice \subseteq Models \cup Optimizers \cup Engine
    BY DEF Init, Present, Models
  <2> QED
    BY <1>1, <1>3, <2>1, <2>2, <2>3, <2>4, <2>5 DEF TypeOK, Init, Calls, Purposes
<1>5. CallMade
  BY <1>3 DEF CallMade, AsyncCalls, CriticCalls, Loads, Init
<1>6. Place
  BY <1>3 DEF Place, Computing
<1>7. ResidentMemory
  BY <1>3 DEF ResidentMemory, Init
<1>8. StreamsApart
  BY <1>3 DEF StreamsApart, Init
<1> QED BY <1>4, <1>5, <1>6, <1>7, <1>8 DEF Tenancy

LEMMA TenancyStep == Tenancy /\ [Next]_vars => Tenancy'
<1> SUFFICES ASSUME Tenancy, [Next]_vars PROVE Tenancy'
  OBVIOUS
<1> USE DEF Tenancy, Loads, Updates
<1>0. /\ config \in Config
      /\ version \in [Models -> Nat] /\ trained \in Nat /\ generated \in Nat
      /\ rng \in [stream : {"train", "gen"}, drawn : Nat]
      /\ torchRandom \in [stream : {"train", "gen"}, drawn : Nat]
      /\ genRandom \in [stream : {"train", "gen"}, drawn : Nat]
      /\ ModelOf(call) \in Models
      /\ \A m \in Models : OptimizerOf(m) \in Optimizers
      /\ OptimizerOf("actor") # OptimizerOf("critic")
  BY ConfigFacts DEF TypeOK, ModelOf, Models, OptimizerOf, Optimizers
<1>a. /\ Models \cap Engine = {} /\ Optimizers \cap Engine = {} /\ Models \cap Optimizers = {}
      /\ config.offload \subseteq Models \cup Optimizers
  BY <1>0 DEF Models, Engine, Optimizers, Config
<1>b. ASSUME TypeOK, pc \in {"fetch", "compute", "put"}
      PROVE  ModelOf(call) \in Present
  BY <1>b DEF CallMade, Place, CriticCalls, Computing, ModelOf, Present, Models
<1>1. CASE Dispatch
  <2>1. PICK next \in Following : /\ call' = next.call /\ purpose' = next.purpose
                                  /\ step' = next.step /\ pc' = Entry(next.call)
    BY <1>1 DEF Dispatch
  <2>2. Follows(next)
    BY <2>1, FollowingFacts
  <2>3. /\ pc = "return"
        /\ UNCHANGED <<config, onDevice, version, engine, cached, baseSyncDone, isSleep, rng,
                       torchRandom, genRandom, trained, generated>>
    BY <1>1 DEF Dispatch, weights, randomness
  <2>4. pc' \in {"enter", "return", "generate", "sleep", "fetch"}
    BY <2>1 DEF Entry
  <2>5. TypeOK'
    BY <2>1, <2>2, <2>3, <2>4 DEF TypeOK, Follows, Purposes
  <2>6. CallMade'
    BY <2>1, <2>2, <2>3 DEF CallMade, Follows
  <2>7. Place'
    BY <2>1, <2>2, <2>3 DEF Place, Follows, Entry, Calls, Computing
  <2>8. ResidentMemory'
    BY <2>3, <2>4 DEF ResidentMemory, Present
  <2>9. StreamsApart'
    BY <2>1, <2>2, <2>3 DEF StreamsApart, Follows, Entry, AsyncCalls
  <2> QED BY <2>5, <2>6, <2>7, <2>8, <2>9
<1>2. CASE Fetch
  <2>1. /\ pc = "fetch" /\ pc' = "compute"
        /\ UNCHANGED <<config, step, call, purpose, version, engine, cached, baseSyncDone, isSleep,
                       rng, torchRandom, genRandom, trained, generated>>
    BY <1>2 DEF Fetch, driver, weights, randomness
  <2>2. onDevice \subseteq onDevice' /\ onDevice' \subseteq onDevice \cup config.offload
    BY <1>2 DEF Fetch
  <2>3. TypeOK'
    BY <1>a, <2>1, <2>2 DEF TypeOK
  <2>4. CallMade' /\ Place' /\ StreamsApart'
    BY <2>1 DEF CallMade, Place, StreamsApart
  <2>5. ResidentMemory'
    <3>1. ModelOf(call) \in onDevice'
      BY <1>2, <1>b, <2>1, <2>2 DEF Fetch, ResidentMemory
    <3>2. ASSUME call \in Updates, version[ModelOf(call)] > 0
          PROVE  OptimizerOf(ModelOf(call)) \in onDevice'
      <4>1. HasState(OptimizerOf(ModelOf(call)))
        BY <1>0, <3>2 DEF HasState, OptimizerOf, ModelOf
      <4> QED BY <1>0, <1>2, <2>2, <3>2, <4>1 DEF Fetch, ResidentMemory
    <3> QED BY <2>1, <2>2, <3>1, <3>2 DEF ResidentMemory, Present, ModelOf
  <2> QED BY <2>3, <2>4, <2>5
<1>3. CASE PutAway
  <2>1. /\ pc = "put" /\ pc' = "return"
        /\ UNCHANGED <<config, step, call, purpose, version, engine, cached, baseSyncDone, isSleep,
                       rng, torchRandom, genRandom, trained, generated>>
    BY <1>3 DEF PutAway, driver, weights, randomness
  <2>2. onDevice' \subseteq onDevice /\ onDevice \subseteq onDevice' \cup config.offload
    BY <1>3 DEF PutAway
  <2>3. TypeOK' /\ CallMade' /\ Place' /\ StreamsApart'
    BY <2>1, <2>2 DEF TypeOK, CallMade, Place, StreamsApart
  <2>4. ResidentMemory'
    BY <2>1, <2>2 DEF ResidentMemory, Present
  <2> QED BY <2>3, <2>4
<1>4. CASE Update
  <2>1. /\ pc = "compute" /\ pc' = "put" /\ call \in Updates
        /\ version' = [version EXCEPT ![ModelOf(call)] = @ + 1]
        /\ onDevice' = onDevice \cup {OptimizerOf(ModelOf(call))}
        /\ rng' = Draw(rng) /\ trained' = trained + 1
        /\ UNCHANGED <<config, step, call, purpose, engine, cached, baseSyncDone, isSleep,
                       torchRandom, genRandom, generated>>
    BY <1>4 DEF Update, driver
  <2>2. TypeOK'
    <3>1. version' \in [Models -> Nat] /\ trained' \in Nat
      BY <1>0, <2>1
    <3>2. rng' \in [stream : {"train", "gen"}, drawn : Nat]
      BY <1>0, <2>1 DEF Draw
    <3> QED BY <1>0, <2>1, <3>1, <3>2 DEF TypeOK
  <2>3. CallMade' /\ Place'
    BY <2>1 DEF CallMade, Place
  <2>4. ResidentMemory'
    <3>1. ASSUME NEW m \in Models, version'[m] > 0, OptimizerOf(m) \notin config.offload
          PROVE  OptimizerOf(m) \in onDevice'
      <4>1. CASE m = ModelOf(call)
        BY <2>1, <4>1
      <4>2. CASE m # ModelOf(call)
        BY <1>0, <2>1, <3>1, <4>2 DEF ResidentMemory
      <4> QED BY <4>1, <4>2
    <3> QED BY <2>1, <3>1 DEF ResidentMemory, Present, ModelOf
  <2>5. StreamsApart'
    BY <1>0, <2>1 DEF StreamsApart, Draw
  <2> QED BY <2>2, <2>3, <2>4, <2>5
<1>5. CASE Read
  <2>1. /\ pc = "compute" /\ pc' = "put"
        /\ UNCHANGED <<config, step, call, purpose, onDevice, version, engine, cached, baseSyncDone,
                       isSleep, rng, torchRandom, genRandom, trained, generated>>
    BY <1>5 DEF Read, driver, weights, randomness
  <2> QED
    BY <2>1 DEF TypeOK, CallMade, Place, ResidentMemory, Present, ModelOf, StreamsApart
<1>6. CASE LoadCheckpoint
  <2>1. /\ pc = "compute" /\ pc' = "put" /\ call \in Loads
        /\ version' = [version EXCEPT ![ModelOf(call)] = Restored]
        /\ onDevice' = onDevice \cup {OptimizerOf(ModelOf(call))}
        /\ rng' = [stream |-> "train", drawn |-> Restored] /\ trained' = Restored
        /\ UNCHANGED <<config, step, call, purpose, engine, cached, baseSyncDone, isSleep,
                       torchRandom, genRandom, generated>>
    BY <1>6 DEF LoadCheckpoint, driver
  <2>2. TypeOK'
    <3>1. version' \in [Models -> Nat] /\ trained' \in Nat
      BY <1>0, <2>1 DEF Restored
    <3>2. rng' \in [stream : {"train", "gen"}, drawn : Nat]
      BY <2>1 DEF Restored
    <3> QED BY <1>0, <2>1, <3>1, <3>2 DEF TypeOK
  <2>3. CallMade' /\ Place'
    BY <2>1 DEF CallMade, Place
  <2>4. ResidentMemory'
    <3>1. ASSUME NEW m \in Models, version'[m] > 0, OptimizerOf(m) \notin config.offload
          PROVE  OptimizerOf(m) \in onDevice'
      <4>1. CASE m = ModelOf(call)
        BY <2>1, <4>1
      <4>2. CASE m # ModelOf(call)
        BY <1>0, <2>1, <3>1, <4>2 DEF ResidentMemory
      <4> QED BY <4>1, <4>2
    <3> QED BY <2>1, <3>1 DEF ResidentMemory, Present, ModelOf
  <2>5. StreamsApart'
    BY <2>1 DEF StreamsApart
  <2> QED BY <2>2, <2>3, <2>4, <2>5
<1>7. CASE EnterFetch
  <2>1. /\ pc = "enter" /\ pc' = "wake"
        /\ onDevice' = onDevice \cup (config.offload \cap {"actor"})
        /\ UNCHANGED <<config, step, call, purpose, version, engine, cached, baseSyncDone, isSleep,
                       rng, torchRandom, genRandom, trained, generated>>
    BY <1>7 DEF EnterFetch, driver, weights, randomness
  <2>2. TypeOK' /\ CallMade' /\ Place' /\ StreamsApart'
    BY <1>a, <2>1 DEF TypeOK, CallMade, Place, StreamsApart
  <2>3. "actor" \in Present
    BY DEF Present, Models
  <2>4. ResidentMemory'
    BY <2>1, <2>3 DEF ResidentMemory, Present
  <2> QED BY <2>2, <2>4
<1>8. CASE WakeWeights
  <2>1. /\ pc = "wake" /\ pc' = "sync"
        /\ onDevice \subseteq onDevice' /\ onDevice' \subseteq onDevice \cup Engine
        /\ UNCHANGED <<config, step, call, purpose, version, engine, cached, baseSyncDone, isSleep,
                       rng, torchRandom, genRandom, trained, generated>>
    BY <1>8 DEF WakeWeights, driver, weights, randomness, Engine
  <2>2. TypeOK' /\ CallMade' /\ Place' /\ StreamsApart'
    BY <2>1 DEF TypeOK, CallMade, Place, StreamsApart
  <2>3. ResidentMemory'
    BY <2>1 DEF ResidentMemory, Present
  <2> QED BY <2>2, <2>3
<1>9. CASE UpdateParams
  <2>1. /\ pc = "sync" /\ pc' = "shed"
        /\ UNCHANGED <<config, step, call, purpose, onDevice, version, cached, isSleep,
                       rng, torchRandom, genRandom, trained, generated>>
    BY <1>9 DEF UpdateParams, driver, randomness
  <2>2. engine' \in [base : Nat \cup {Dummy}, adapter : Nat] /\ baseSyncDone' \in BOOLEAN
    <3>1. ActorWeights \in [base : Nat, adapter : Nat]
      BY <1>0 DEF ActorWeights, Models
    <3> QED BY <1>9, <3>1 DEF UpdateParams, TypeOK
  <2>3. TypeOK' /\ CallMade' /\ Place' /\ StreamsApart'
    BY <2>1, <2>2 DEF TypeOK, CallMade, Place, StreamsApart
  <2>4. ResidentMemory'
    BY <2>1 DEF ResidentMemory, Present
  <2> QED BY <2>3, <2>4
<1>10. CASE EnterPutAway
  <2>1. /\ pc = "shed" /\ pc' = "cache"
        /\ onDevice' = onDevice \ (config.offload \cap {"actor"})
        /\ UNCHANGED <<config, step, call, purpose, version, engine, cached, baseSyncDone, isSleep,
                       rng, torchRandom, genRandom, trained, generated>>
    BY <1>10 DEF EnterPutAway, driver, weights, randomness
  <2>2. TypeOK' /\ CallMade' /\ Place' /\ StreamsApart'
    BY <2>1 DEF TypeOK, CallMade, Place, StreamsApart
  <2>3. ResidentMemory'
    BY <2>1 DEF ResidentMemory, Present
  <2> QED BY <2>2, <2>3
<1>11. CASE EnterEnd
  <2>1. /\ pc = "cache" /\ pc' = IF call = "generate" THEN "generate" ELSE "return"
        /\ onDevice' = onDevice \cup Engine /\ isSleep' = FALSE
        /\ torchRandom' = rng /\ rng' = genRandom
        /\ UNCHANGED <<config, step, call, purpose, version, engine, cached, baseSyncDone,
                       genRandom, trained, generated>>
    BY <1>11 DEF EnterEnd, driver, weights
  <2>2. TypeOK'
    BY <1>0, <2>1 DEF TypeOK
  <2>3. CallMade' /\ Place'
    BY <2>1 DEF CallMade, Place
  <2>4. StreamsApart'
    BY <2>1 DEF StreamsApart, Place, CallMade, AsyncCalls
  <2>5. ResidentMemory'
    BY <2>1 DEF ResidentMemory, Present
  <2> QED BY <2>2, <2>3, <2>4, <2>5
<1>12. CASE Generate
  <2>1. /\ pc = "generate" /\ pc' = IF call = "generate" THEN "sleep" ELSE "return"
        /\ cached' = cached \cup {engine} /\ rng' = Draw(rng) /\ generated' = generated + 1
        /\ UNCHANGED <<config, step, call, purpose, onDevice, version, engine, baseSyncDone, isSleep,
                       torchRandom, genRandom, trained>>
    BY <1>12 DEF Generate, driver
  <2>2. rng' \in [stream : {"train", "gen"}, drawn : Nat]
    BY <1>0, <2>1 DEF Draw
  <2>3. TypeOK'
    BY <1>0, <2>1, <2>2 DEF TypeOK
  <2>4. CallMade' /\ Place'
    BY <2>1 DEF CallMade, Place
  <2>5. StreamsApart'
    BY <1>0, <2>1 DEF StreamsApart, Draw, Place, CallMade, AsyncCalls
  <2>6. ResidentMemory'
    BY <2>1 DEF ResidentMemory, Present
  <2> QED BY <2>3, <2>4, <2>5, <2>6
<1>13. CASE Exit
  <2>1. /\ pc = "sleep" /\ pc' = "return" /\ isSleep' = TRUE
        /\ onDevice' = onDevice \ Engine /\ cached' = {}
        /\ genRandom' = rng /\ rng' = torchRandom
        /\ UNCHANGED <<config, step, call, purpose, version, engine, baseSyncDone, torchRandom,
                       trained, generated>>
    BY <1>13 DEF Exit, driver
  <2>2. TypeOK'
    BY <1>0, <2>1 DEF TypeOK
  <2>3. CallMade' /\ Place' /\ StreamsApart'
    BY <2>1 DEF CallMade, Place, StreamsApart
  <2>4. ResidentMemory'
    <3>1. Present \ config.offload \subseteq onDevice'
      BY <1>a, <2>1 DEF ResidentMemory, Present, Models, Engine
    <3>2. ASSUME NEW m \in Models, version[m] > 0, OptimizerOf(m) \notin config.offload
          PROVE  OptimizerOf(m) \in onDevice'
      BY <1>0, <1>a, <2>1, <3>2 DEF ResidentMemory
    <3> QED BY <2>1, <3>1, <3>2 DEF ResidentMemory, Present
  <2> QED BY <2>2, <2>3, <2>4
<1>14. CASE UNCHANGED vars
  BY <1>14 DEF vars, driver, weights, randomness, TypeOK, CallMade, Place, ResidentMemory, Present,
               ModelOf, StreamsApart
<1> QED
  BY <1>1, <1>2, <1>3, <1>4, <1>5, <1>6, <1>7, <1>8, <1>9, <1>10, <1>11, <1>12, <1>13, <1>14 DEF Next

(***************************************************************************)
(* The whole invariant, when the first generation comes after a sync.      *)
(***************************************************************************)

LEMMA InitIInv == ASSUME SyncedAtStart PROVE Init => IInv
<1> SUFFICES ASSUME Init PROVE IInv
  OBVIOUS
<1>1. Tenancy
  BY InitTenancy
<1>2. config \in Configs /\ config \in Config /\ step = 1 /\ (config.async => ~config.lora /\ ~config.dummy)
  BY ConfigFacts DEF Init
<1>3. PICK first \in IF config.resume THEN {Then("load_actor", "train", 1)} ELSE Starting :
          call = first.call /\ isSleep = ~config.async /\ pc = Entry(call)
  BY DEF Init
<1>4. \/ config.resume /\ ~config.async /\ call = "load_actor" /\ pc = "fetch" /\ isSleep
      \/ call = "generate" /\ ~config.async /\ pc = "enter" /\ isSleep
      \/ call = "wake_up" /\ config.async /\ pc = "return" /\ ~isSleep
  <2>1. CASE config.resume
    <3>1. ~config.async
      BY <1>2, <2>1 DEF SyncedAtStart
    <3>2. call = "load_actor"
      BY <1>3, <2>1 DEF Then
    <3> QED BY <1>3, <2>1, <3>1, <3>2 DEF Entry
  <2>2. CASE ~config.resume
    BY <1>2, <1>3, <2>2, StartingFacts DEF Entry
  <2> QED BY <2>1, <2>2
<1>5. onDevice = (Present \ config.offload) \cup (IF config.async THEN Engine ELSE {})
  BY DEF Init
<1>6. FlagRight
  <2>1. isSleep \in BOOLEAN
    BY <1>1 DEF Tenancy, TypeOK
  <2>2. EngineUp <=> call = "wake_up"
    BY <1>4 DEF EngineUp
  <2> QED BY <1>4, <2>1, <2>2 DEF FlagRight
<1>7. EngineMemory
  BY <1>4, <1>5 DEF EngineMemory, EngineUp, Present, Models, Engine
<1>8. OffloadedMemory
  <2>1. onDevice \cap config.offload = {}
    BY <1>2, <1>5 DEF Config, Models, Optimizers, Engine
  <2> QED BY <1>4, <2>1 DEF OffloadedMemory
<1>9. BaseSent
  BY <1>2, <1>4 DEF BaseSent, Init, EngineUp, Loads, Models
<1>10. EngineFresh
  BY <1>2, <1>4 DEF EngineFresh, EngineUp, Init, ActorWeights, Models
<1> QED BY <1>1, <1>6, <1>7, <1>8, <1>9, <1>10 DEF IInv

LEMMA StepIInv == ASSUME SyncedAtStart PROVE IInv /\ [Next]_vars => IInv'
<1> SUFFICES ASSUME IInv, [Next]_vars PROVE IInv'
  OBVIOUS
<1> USE DEF Loads, Updates
<1>t. Tenancy /\ Tenancy'
  BY TenancyStep DEF IInv
<1>0. /\ config \in Configs /\ config \in Config
      /\ config.async => ~config.lora /\ ~config.dummy
      /\ ~(config.async /\ config.resume) /\ ~(config.lora /\ config.dummy /\ config.resume)
      /\ version \in [Models -> Nat] /\ ModelOf(call) \in Models
      /\ OptimizerOf(ModelOf(call)) \in Optimizers
      /\ onDevice \subseteq Models \cup Optimizers \cup Engine
      /\ engine \in [base : Nat \cup {Dummy}, adapter : Nat]
      /\ isSleep \in BOOLEAN
  BY <1>t, ConfigFacts DEF Tenancy, CallMade, TypeOK, SyncedAtStart, ModelOf, OptimizerOf, Models, Optimizers
<1>a. /\ Models \cap Engine = {} /\ Optimizers \cap Engine = {} /\ Models \cap Optimizers = {}
      /\ config.offload \subseteq Models \cup Optimizers
  BY <1>0 DEF Models, Engine, Optimizers, Config
<1>1. CASE Dispatch
  <2>1. PICK next \in Following : call' = next.call /\ pc' = Entry(next.call)
    BY <1>1 DEF Dispatch
  <2>2. Follows(next)
    BY <1>t, <2>1, FollowingFacts DEF Tenancy
  <2>3. /\ pc = "return"
        /\ UNCHANGED <<config, onDevice, version, engine, cached, baseSyncDone, isSleep>>
    BY <1>1 DEF Dispatch, weights
  <2>4. \/ pc' = "enter" /\ call' \in {"generate", "wake_up"} /\ isSleep /\ ~EngineUp
        \/ pc' = "generate" /\ call' = "chat" /\ call = "wake_up"
        \/ pc' = "sleep" /\ call' = "sleep" /\ call = "chat"
        \/ pc' \in {"fetch", "return"} /\ call' \notin {"generate", "wake_up", "chat", "sleep"} /\ ~EngineUp
    BY <1>t, <2>1, <2>2, <2>3 DEF Follows, Entry, IInv, FlagRight, EngineUp, Calls
  <2>5. EngineUp' = EngineUp
    BY <2>3, <2>4 DEF EngineUp
  <2>6. FlagRight' /\ EngineMemory'
    BY <2>3, <2>4, <2>5 DEF IInv, FlagRight, EngineMemory
  <2>7. OffloadedMemory'
    BY <2>3, <2>4 DEF IInv, OffloadedMemory
  <2>8. BaseSent'
    BY <1>0, <2>1, <2>2, <2>3, <2>4, <2>5 DEF IInv, BaseSent, Follows, AsyncCalls
  <2>9. EngineFresh'
    BY <2>3, <2>4, <2>5 DEF IInv, EngineFresh, ActorWeights
  <2> QED BY <1>t, <2>6, <2>7, <2>8, <2>9 DEF IInv
<1>2. CASE Fetch
  <2>1. /\ pc = "fetch" /\ pc' = "compute"
        /\ onDevice' = onDevice \cup
              (config.offload \cap ({ModelOf(call)} \cup
                  {o \in {OptimizerOf(ModelOf(call))} : call \in Updates /\ HasState(o)}))
        /\ UNCHANGED <<config, call, version, engine, cached, baseSyncDone, isSleep>>
    BY <1>2 DEF Fetch, driver, weights
  <2>2. ~EngineUp /\ ~EngineUp'
    BY <2>1 DEF EngineUp
  <2>3. FlagRight' /\ BaseSent' /\ EngineFresh'
    BY <2>1, <2>2 DEF IInv, FlagRight, BaseSent, EngineFresh, ActorWeights
  <2>4. EngineMemory'
    BY <1>a, <2>1, <2>2 DEF IInv, EngineMemory
  <2>5. OffloadedMemory'
    BY <2>1 DEF IInv, OffloadedMemory, ModelOf
  <2> QED BY <1>t, <2>3, <2>4, <2>5 DEF IInv
<1>3. CASE PutAway
  <2>1. /\ pc = "put" /\ pc' = "return"
        /\ onDevice' = onDevice \
              (config.offload \cap ({ModelOf(call)} \cup
                  {o \in {OptimizerOf(ModelOf(call))} : call \in Updates \cup Loads}))
        /\ UNCHANGED <<config, call, version, engine, cached, baseSyncDone, isSleep>>
    BY <1>3 DEF PutAway, driver, weights
  <2>2. call \in Computing
    BY <1>t, <2>1 DEF Tenancy, Place
  <2>3. ~EngineUp /\ ~EngineUp'
    BY <2>1, <2>2 DEF EngineUp, Computing
  <2>4. FlagRight' /\ EngineMemory'
    BY <2>1, <2>3 DEF IInv, FlagRight, EngineMemory
  <2>5. BaseSent' /\ EngineFresh'
    BY <2>1, <2>2, <2>3 DEF IInv, BaseSent, EngineFresh, ActorWeights, Computing
  <2>6. OffloadedMemory'
    BY <2>1 DEF IInv, OffloadedMemory
  <2> QED BY <1>t, <2>4, <2>5, <2>6 DEF IInv
<1>4. ASSUME \/ Update /\ call \in Updates
             \/ LoadCheckpoint /\ call \in Loads
      PROVE  IInv'
  <2>1. /\ pc = "compute" /\ pc' = "put"
        /\ onDevice' = onDevice \cup {OptimizerOf(ModelOf(call))}
        /\ UNCHANGED <<config, call, engine, cached, baseSyncDone, isSleep>>
    BY <1>4 DEF Update, LoadCheckpoint, driver
  <2>2. ~EngineUp /\ ~EngineUp'
    BY <2>1 DEF EngineUp
  <2>3. FlagRight' /\ EngineFresh'
    BY <2>1, <2>2 DEF IInv, FlagRight, EngineFresh
  <2>4. EngineMemory'
    BY <1>0, <1>a, <2>1, <2>2 DEF IInv, EngineMemory
  <2>5. OffloadedMemory'
    BY <1>4, <2>1 DEF IInv, OffloadedMemory, ModelOf
  <2>6. BaseSent'
    BY <1>0, <1>t, <1>4, <2>1, <2>2 DEF IInv, BaseSent, Tenancy, CallMade
  <2> QED BY <1>t, <2>3, <2>4, <2>5, <2>6 DEF IInv
<1>5. CASE Read
  <2>1. /\ pc = "compute" /\ pc' = "put" /\ call \in Computing
        /\ UNCHANGED <<config, call, onDevice, version, engine, cached, baseSyncDone, isSleep>>
    BY <1>5 DEF Read, driver, weights, Computing
  <2>2. ~EngineUp /\ ~EngineUp'
    BY <2>1 DEF EngineUp
  <2>3. FlagRight' /\ EngineMemory' /\ BaseSent' /\ EngineFresh'
    BY <2>1, <2>2 DEF IInv, FlagRight, EngineMemory, BaseSent, EngineFresh, ActorWeights
  <2>4. OffloadedMemory'
    BY <2>1 DEF IInv, OffloadedMemory, ModelOf
  <2> QED BY <1>t, <2>3, <2>4 DEF IInv
<1>6. CASE EnterFetch
  <2>1. /\ pc = "enter" /\ pc' = "wake"
        /\ onDevice' = onDevice \cup (config.offload \cap {"actor"})
        /\ UNCHANGED <<config, call, version, engine, cached, baseSyncDone, isSleep>>
    BY <1>6 DEF EnterFetch, driver, weights
  <2>2. ~EngineUp /\ ~EngineUp'
    BY <2>1 DEF EngineUp
  <2>3. FlagRight' /\ BaseSent' /\ EngineFresh'
    BY <2>1, <2>2 DEF IInv, FlagRight, BaseSent, EngineFresh, ActorWeights
  <2>4. EngineMemory'
    BY <1>a, <2>1, <2>2 DEF IInv, EngineMemory
  <2>5. OffloadedMemory'
    BY <2>1 DEF IInv, OffloadedMemory
  <2> QED BY <1>t, <2>3, <2>4, <2>5 DEF IInv
<1>7. CASE WakeWeights
  <2>1. /\ pc = "wake" /\ pc' = "sync"
        /\ onDevice' = onDevice \cup (IF config.tags THEN {"weights"} ELSE Engine)
        /\ UNCHANGED <<config, call, version, engine, cached, baseSyncDone, isSleep>>
    BY <1>7 DEF WakeWeights, driver, weights
  <2>2. ~EngineUp /\ ~EngineUp'
    BY <2>1 DEF EngineUp
  <2>3. FlagRight' /\ BaseSent' /\ EngineFresh'
    BY <2>1, <2>2 DEF IInv, FlagRight, BaseSent, EngineFresh, ActorWeights
  <2>4. EngineMemory'
    BY <2>1, <2>2 DEF IInv, EngineMemory, Engine
  <2>5. OffloadedMemory'
    BY <1>a, <2>1 DEF IInv, OffloadedMemory, Engine
  <2> QED BY <1>t, <2>3, <2>4, <2>5 DEF IInv
<1>8. CASE UpdateParams
  <2>1. /\ pc = "sync" /\ pc' = "shed"
        /\ UNCHANGED <<config, call, version, onDevice, cached, isSleep>>
    BY <1>8 DEF UpdateParams, driver
  <2>2. ~EngineUp /\ ~EngineUp'
    BY <2>1 DEF EngineUp
  <2>3. FlagRight' /\ EngineMemory' /\ OffloadedMemory'
    BY <2>1, <2>2 DEF IInv, FlagRight, EngineMemory, OffloadedMemory
  <2>4. /\ baseSyncDone'
        /\ engine' = ActorWeights /\ ActorWeights' = ActorWeights
    <3>1. ActorWeights' = ActorWeights
      BY <2>1 DEF ActorWeights
    <3>2. CASE config.lora /\ baseSyncDone
      BY <1>0, <1>8, <3>1, <3>2 DEF UpdateParams, IInv, BaseSent, ActorWeights
    <3>3. CASE ~(config.lora /\ baseSyncDone)
      BY <1>0, <1>8, <3>1, <3>3 DEF UpdateParams, IInv, BaseSent, ActorWeights
    <3> QED BY <3>2, <3>3, <3>1
  <2>5. BaseSent'
    BY <2>1, <2>4 DEF BaseSent, ActorWeights
  <2>6. EngineFresh'
    BY <2>1, <2>2, <2>4 DEF IInv, EngineFresh
  <2> QED BY <1>t, <2>3, <2>5, <2>6 DEF IInv
<1>9. CASE EnterPutAway
  <2>1. /\ pc = "shed" /\ pc' = "cache"
        /\ onDevice' = onDevice \ (config.offload \cap {"actor"})
        /\ UNCHANGED <<config, call, version, engine, cached, baseSyncDone, isSleep>>
    BY <1>9 DEF EnterPutAway, driver, weights
  <2>2. ~EngineUp /\ ~EngineUp'
    BY <2>1 DEF EngineUp
  <2>3. FlagRight' /\ BaseSent' /\ EngineFresh'
    BY <2>1, <2>2 DEF IInv, FlagRight, BaseSent, EngineFresh, ActorWeights
  <2>4. EngineMemory'
    BY <2>1, <2>2 DEF IInv, EngineMemory
  <2>5. OffloadedMemory'
    BY <2>1 DEF IInv, OffloadedMemory
  <2> QED BY <1>t, <2>3, <2>4, <2>5 DEF IInv
<1>10. CASE EnterEnd
  <2>1. /\ pc = "cache" /\ pc' = IF call = "generate" THEN "generate" ELSE "return"
        /\ onDevice' = onDevice \cup Engine /\ isSleep' = FALSE
        /\ UNCHANGED <<config, call, version, engine, cached, baseSyncDone>>
    BY <1>10 DEF EnterEnd, driver, weights
  <2>2. EngineUp' /\ ~EngineUp
    BY <1>t, <2>1 DEF EngineUp, Tenancy, Place
  <2>3. FlagRight' /\ EngineMemory'
    BY <2>1, <2>2 DEF FlagRight, EngineMemory
  <2>4. BaseSent' /\ EngineFresh'
    BY <2>1, <2>2 DEF IInv, BaseSent, EngineFresh, ActorWeights
  <2>5. OffloadedMemory'
    BY <1>a, <2>1 DEF IInv, OffloadedMemory
  <2> QED BY <1>t, <2>3, <2>4, <2>5 DEF IInv
<1>11. CASE Generate
  <2>1. /\ pc = "generate" /\ pc' = IF call = "generate" THEN "sleep" ELSE "return"
        /\ cached' = cached \cup {engine}
        /\ UNCHANGED <<config, call, onDevice, version, engine, baseSyncDone, isSleep>>
    BY <1>11 DEF Generate, driver
  <2>2. EngineUp /\ EngineUp'
    BY <1>t, <2>1 DEF EngineUp, Tenancy, Place
  <2>3. FlagRight' /\ EngineMemory' /\ BaseSent' /\ EngineFresh'
    BY <2>1, <2>2 DEF IInv, FlagRight, EngineMemory, BaseSent, EngineFresh, ActorWeights
  <2>4. OffloadedMemory'
    BY <2>1 DEF IInv, OffloadedMemory
  <2> QED BY <1>t, <2>3, <2>4 DEF IInv
<1>12. CASE Exit
  <2>1. /\ pc = "sleep" /\ pc' = "return" /\ isSleep' = TRUE
        /\ onDevice' = onDevice \ Engine /\ cached' = {}
        /\ UNCHANGED <<config, call, version, engine, baseSyncDone>>
    BY <1>12 DEF Exit, driver
  <2>2. EngineUp /\ ~EngineUp'
    BY <1>t, <2>1 DEF EngineUp, Tenancy, Place
  <2>3. FlagRight' /\ EngineMemory' /\ BaseSent' /\ EngineFresh'
    BY <2>1, <2>2 DEF IInv, FlagRight, EngineMemory, BaseSent, EngineFresh
  <2>4. OffloadedMemory'
    BY <2>1 DEF IInv, OffloadedMemory
  <2> QED BY <1>t, <2>3, <2>4 DEF IInv
<1>13. CASE UNCHANGED vars
  BY <1>t, <1>13 DEF vars, driver, weights, IInv, FlagRight, EngineMemory, OffloadedMemory, BaseSent,
                     EngineFresh, EngineUp, ActorWeights, ModelOf
<1> QED
  <2>1. CASE Update
    BY <1>4, <2>1 DEF Update
  <2>2. CASE LoadCheckpoint
    BY <1>4, <2>2 DEF LoadCheckpoint
  <2> QED
    BY <1>1, <1>2, <1>3, <1>5, <1>6, <1>7, <1>8, <1>9, <1>10, <1>11, <1>12, <1>13, <2>1, <2>2 DEF Next

(***************************************************************************)
(* The theorems.                                                           *)
(***************************************************************************)

(* Every configuration, resumed or not, keeps its types; nothing is drawn  *)
(* from the wrong random stream and nothing computes on what is not there. *)
LEMMA TenancyInvariant == Spec => []Tenancy
<1>1. Init => Tenancy
  BY InitTenancy
<1>2. Tenancy /\ [Next]_vars => Tenancy'
  BY TenancyStep
<1> QED BY <1>1, <1>2, PTL DEF Spec

(* The handlers' states and what they move keep their types.               *)
THEOREM TypeCorrect == Spec => []TypeOK
<1>1. Tenancy => TypeOK
  BY DEF Tenancy
<1> QED BY <1>1, TenancyInvariant, PTL

(* With the synchronous engine, each generation draws on from the value    *)
(* the last generation stopped at, and training from its own, through any  *)
(* number of swaps and restored checkpoints.                               *)
THEOREM StreamsOwn == Spec => []OwnStreams
<1>1. Tenancy => OwnStreams
  BY DEF Tenancy, StreamsApart, OwnStreams
<1> QED BY <1>1, TenancyInvariant, PTL

LEMMA IInvariant == ASSUME SyncedAtStart PROVE Spec => []IInv
<1>1. Init => IInv
  BY InitIInv
<1>2. IInv /\ [Next]_vars => IInv'
  BY StepIInv
<1> QED BY <1>1, <1>2, PTL DEF Spec

(* Whatever computes finds its model, its optimizer's state or the whole   *)
(* engine on the device.                                                   *)
THEOREM OnDevice == ASSUME SyncedAtStart PROVE Spec => []ComputesOnDevice
<1>1. IInv => ComputesOnDevice
  <2> SUFFICES ASSUME IInv PROVE ComputesOnDevice
    OBVIOUS
  <2>1. ASSUME pc = "compute"
        PROVE  /\ ModelOf(call) \in onDevice
               /\ call \in Updates /\ HasState(OptimizerOf(ModelOf(call))) =>
                     OptimizerOf(ModelOf(call)) \in onDevice
    <3>1. HasState(OptimizerOf(ModelOf(call))) => version[ModelOf(call)] > 0
      BY DEF HasState, OptimizerOf, ModelOf, IInv, Tenancy, CallMade
    <3> QED BY <2>1, <3>1 DEF IInv, Tenancy, ResidentMemory
  <2>2. pc = "sync" => {"actor", "weights"} \subseteq onDevice
    BY DEF IInv, Tenancy, ResidentMemory, EngineMemory
  <2>3. pc = "generate" => Engine \subseteq onDevice
    BY DEF IInv, EngineMemory, EngineUp
  <2> QED BY <2>1, <2>2, <2>3 DEF ComputesOnDevice
<1> QED BY <1>1, IInvariant, PTL

(* No two tenants share the device: what is offloaded is never there with  *)
(* the cache, nor the engine with a model that computes.                   *)
THEOREM Shared == ASSUME SyncedAtStart PROVE Spec => []DeviceShared
<1>1. IInv => DeviceShared
  <2> SUFFICES ASSUME IInv PROVE DeviceShared
    OBVIOUS
  <2>1. config.tags /\ "cache" \in onDevice => onDevice \cap config.offload = {}
    BY DEF IInv, EngineMemory, OffloadedMemory, EngineUp, Engine
  <2>2. pc = "compute" => onDevice \cap Engine = {}
    BY DEF IInv, EngineMemory, EngineUp
  <2>3. pc = "return" => onDevice \cap config.offload = {}
    BY DEF IInv, OffloadedMemory
  <2> QED BY <2>1, <2>2, <2>3 DEF DeviceShared
<1> QED BY <1>1, IInvariant, PTL

(* Every generation is with the actor's weights as they are, base model    *)
(* and adapter, and no prefix of earlier weights is left in the cache.     *)
THEOREM LatestWeights == ASSUME SyncedAtStart PROVE Spec => []GeneratesLatest
<1>1. IInv => GeneratesLatest
  BY DEF IInv, EngineFresh, EngineUp, GeneratesLatest
<1> QED BY <1>1, IInvariant, PTL
=============================================================================
