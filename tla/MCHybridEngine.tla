---------------------------- MODULE MCHybridEngine ----------------------------
(* EngineVariants for TLC: every configuration but those of LeftOut.        *)
EXTENDS EngineVariants

Offloads == {{}, {"actor", "actorOptimizer"}, Models, Models \cup Optimizers}

\* FSDP with vLLM, synchronous and asynchronous.
Sync == [workers : {"fsdp"}, rollout : {"vllm"}, async : {FALSE}, offload : Offloads,
         lora : BOOLEAN, dummy : BOOLEAN, tags : BOOLEAN, resume : BOOLEAN,
         critic : BOOLEAN, remax : BOOLEAN, warmup : {1, 2}]
Async == [workers : {"fsdp"}, rollout : {"vllm"}, async : {TRUE}, offload : Offloads,
          lora : {FALSE}, dummy : {FALSE}, tags : BOOLEAN, resume : BOOLEAN,
          critic : BOOLEAN, remax : {FALSE}, warmup : {1, 2}]

\* The other workers, the other engine, and both.
Variants ==
    {c \in [workers : {"fsdp", "megatron"}, rollout : {"vllm", "sglang"}, async : BOOLEAN,
            offload : Offloads \cup {Optimizers}, lora : {FALSE}, dummy : BOOLEAN, tags : BOOLEAN,
            resume : BOOLEAN, critic : BOOLEAN, remax : BOOLEAN, warmup : {1}] :
        /\ c.workers = "megatron" \/ c.rollout = "sglang"
        /\ c.async => ~c.remax /\ (c.rollout = "vllm" => ~c.dummy)
        /\ c.workers = "megatron" /\ c.rollout = "sglang" => ~c.tags}

\* A dummy base model under an adapter restored already, an engine that is
\* awake when a checkpoint is loaded, and the two wake_ups of SGLang that leave
\* something out: FSDP's the engine's memory, Megatron's an offloaded actor.
LeftOut(c) ==
    \/ c.lora /\ c.dummy /\ c.resume
    \/ c.resume /\ (c.async \/ c.rollout = "sglang")
    \/ c.async /\ c.rollout = "sglang" /\ (c.workers = "fsdp" \/ "actor" \in c.offload)

ConfigsDef == {c \in Sync \cup Async \cup Variants : ~LeftOut(c)}

\* An asynchronous job that is started again from a checkpoint.
ResumedDef == {c \in Async : c.resume}

\* SGLang's servers.
ServersDef == {c \in Variants : LeftOut(c) /\ c.async /\ c.rollout = "sglang" /\ ~c.resume}
=============================================================================
