--------------------------- MODULE MCPolicyUpdate ---------------------------
(* Updates for TLC.                                                         *)
EXTENDS Updates

Job(role, dynamic, multimodal, diagnose, prompts, samples, miniBatch, microBatch, perGpu, epochs) ==
    [engine |-> "fsdp", role |-> role, dynamic |-> dynamic, multimodal |-> multimodal, diagnose |-> diagnose,
     shuffle |-> FALSE, stages |-> 1, prompts |-> prompts, samples |-> samples, miniBatch |-> miniBatch,
     microBatch |-> microBatch, perGpu |-> perGpu, epochs |-> epochs, packed |-> FALSE, sp |-> 1]

\* Without padding, on groups of sp ranks that share a sequence.
Packed(c, sp) == [c EXCEPT !.packed = TRUE, !.sp = sp]

Megatron(role, dynamic, shuffle, stages, prompts, samples, miniBatch, microBatch, epochs) ==
    [Job(role, dynamic, FALSE, FALSE, prompts, samples, miniBatch, microBatch, TRUE, epochs) EXCEPT
        !.engine = "megatron", !.shuffle = shuffle, !.stages = stages]

\* Batches of the dataset, of as many micro-batches on every rank.
Supervised(examples, batch, microBatch, epochs) ==
    [Job("actor", FALSE, FALSE, FALSE, examples, 1, batch, microBatch, TRUE, epochs) EXCEPT
        !.engine = "sft"]

JobsDef ==
    {Packed(Job("actor", TRUE, FALSE, TRUE, 4, 2, 4, 1, TRUE, 1), 2),
     Packed(Job("actor", TRUE, FALSE, FALSE, 5, 2, 3, 1, TRUE, 1), 1),
     Packed(Job("actor", FALSE, FALSE, TRUE, 3, 2, 2, 2, FALSE, 2), 3),
     Job("actor", FALSE, TRUE, FALSE, 4, 2, 2, 2, TRUE, 1),
     Packed(Job("critic", TRUE, FALSE, FALSE, 6, 1, 6, 2, FALSE, 2), 1),
     Job("critic", FALSE, TRUE, FALSE, 2, 2, 2, 1, TRUE, 2),
     Packed(Job("critic", FALSE, FALSE, FALSE, 3, 2, 3, 3, TRUE, 1), 4),
     Job("reward", FALSE, FALSE, FALSE, 4, 2, 4, 2, TRUE, 0),
     Packed(Job("reward", TRUE, FALSE, FALSE, 5, 2, 5, 5, TRUE, 0), 2),
     Megatron("actor", TRUE, FALSE, 2, 6, 2, 3, 1, 1),
     Megatron("actor", FALSE, TRUE, 1, 3, 2, 1, 1, 2),
     Megatron("critic", TRUE, TRUE, 1, 3, 2, 3, 3, 2),
     Megatron("critic", TRUE, FALSE, 2, 4, 2, 4, 1, 1),
     Megatron("reward", TRUE, FALSE, 2, 3, 2, 3, 1, 0),
     Supervised(6, 2, 1, 2)}

MultiModalJobs == {Job("actor", TRUE, TRUE, FALSE, 2, 2, 2, 1, TRUE, 1)}

\* Batches of more than one micro-batch.
AccumulatingJobs == {Supervised(4, 4, 1, 1)}
=============================================================================
