---------------------------- MODULE PolicyUpdate ----------------------------
(***************************************************************************)
(* What the ranks of a data-parallel actor, critic or reward model do with *)
(* their part of a batch: infer (compute_log_prob, compute_values,         *)
(* compute_rm_score), then update (update_policy, update_critic) in epochs *)
(* of mini-batches of micro-batches whose gradients are accumulated, with  *)
(* the two extra passes of the G-OPD gradient diagnostics before the one   *)
(* that trains.                                                            *)
(*   verl/workers/actor/dp_actor.py                                        *)
(*   verl/workers/critic/dp_critic.py                                      *)
(*   verl/workers/fsdp_workers.py, RewardModelWorker                       *)
(* MegatronUpdate and Updates have the other trainers' updates.            *)
(*                                                                         *)
(* A forward, a backward and a gradient norm gather from all ranks, so a   *)
(* step of this module is one of all ranks: a rank that runs out of        *)
(* micro-batches before the others leaves them waiting.  A row of a rank   *)
(* is its position in the rank's part of the batch.  The random state is   *)
(* the number of forwards drawn from it since the start.                   *)
(*                                                                         *)
(* `pc' is "infer", "merge" (what was inferred), "split" (a mini-batch into *)
(* micro-batches), "zero" (the start of a pass), "backward" (the next      *)
(* micro-batch), "norm", "end" or "raised".                                *)
(*                                                                         *)
(* A definition commented "Fault" is the definition after it with a        *)
(* plausible mistake; no action uses it.                                   *)
(***************************************************************************)
EXTENDS SeqlenBalance, PackedForward

CONSTANTS
    Ranks,          \* data-parallel ranks
    Jobs,           \* configurations of the user, see JobsAssumption
    LengthSet,      \* lengths of sequences
    MaxTokens,      \* ppo_max_token_len_per_gpu and its likes
    DictKeys        \* keys of a multi-modal micro-batch, a dict

\* "normalize config" of the workers' __init__: train_batch_size and
\* ppo_mini_batch_size are prompts of all ranks, and become responses of one; a
\* micro-batch is counted for one rank (ppo_micro_batch_size_per_gpu) or for all.
Normalized(c) ==
    LET ranks == Cardinality(Ranks) IN
    [engine |-> c.engine, role |-> c.role, dynamic |-> c.dynamic, multimodal |-> c.multimodal,
     diagnose |-> c.diagnose, shuffle |-> c.shuffle, stages |-> c.stages, epochs |-> c.epochs,
     packed |-> c.packed, sp |-> c.sp,
     rows |-> (c.prompts * c.samples) \div ranks,
     mini |-> (c.miniBatch * c.samples) \div ranks,
     micro |-> IF c.perGpu THEN c.microBatch ELSE c.microBatch \div ranks]

\* engine: "fsdp", "megatron" or "sft"; stages: of the virtual pipeline, 1 for
\* none; epochs: ppo_epochs, 0 of a reward model, which only infers; packed:
\* use_remove_padding; sp: the ranks that share a sequence, and are one of Ranks.
\* _validate_config and the assertions of __init__: micro-batches divide a
\* mini-batch.  Mini-batches divide a multi-modal batch, which is cut by chunk,
\* Megatron's, which make_iterator cuts, and an SFT dataset's part, of which
\* sampler and loader drop what is left over.  A critic with dynamic micro-
\* batches reads no images: compute_values would use indices it has not set.
ASSUME JobsAssumption ==
    \A c \in Jobs :
        /\ c.engine \in {"fsdp", "megatron", "sft"}
        /\ c.role \in {"actor", "critic", "reward"}
        /\ {c.dynamic, c.multimodal, c.diagnose, c.shuffle, c.perGpu, c.packed} \subseteq BOOLEAN
        /\ {c.prompts, c.samples, c.miniBatch, c.microBatch, c.stages, c.sp} \subseteq Nat \ {0}
        /\ c.epochs \in Nat /\ (c.epochs = 0 <=> c.role = "reward")
        /\ (c.prompts * c.samples) % Cardinality(Ranks) = 0
        /\ c.dynamic \/ c.prompts >= c.miniBatch
        /\ c.role # "actor" => ~c.diagnose /\ ~(c.dynamic /\ c.multimodal)
        /\ c.engine # "fsdp" => ~c.diagnose /\ ~c.packed
        /\ c.sp > 1 => c.packed
        /\ c.engine # "megatron" => ~c.shuffle /\ c.stages = 1
        /\ c.engine = "sft" => c.role = "actor" /\ ~c.dynamic
        /\ LET n == Normalized(c) IN
             /\ {n.mini, n.micro} \subseteq Nat \ {0}
             /\ n.mini % n.micro = 0
             /\ n.multimodal \/ n.engine # "fsdp" => n.rows % n.mini = 0
\* world_size of torch.distributed
ASSUME RanksAssumption == IsFiniteSet(Ranks) /\ Ranks # {}
ASSUME LengthAssumption ==
    /\ LengthSet \subseteq 2 .. Width
    /\ MaxTokens \in Nat /\ MaxTokens >= Width

VARIABLES
    job,        \* the configuration, as a rank has it
    lengths,    \* of every rank's rows
    inferred,   \* what compute_log_prob and its likes answer, by rank and row
    pc,
    order,      \* of the rows in this epoch
    epoch,
    mini,       \* batch_idx, from 1
    pass,       \* "opd", "extra" or "train"
    micros,     \* each rank's micro-batches: positions in the batch or mini-batch
    next,       \* the micro-batch whose backward is next
    grad,       \* how often a row is in the gradient, by component
    weight,     \* numerator of the sum of the losses' factors, by rank
    rng,        \* the random state
    saved,      \* cpu_rng_state and device_rng_state
    trained     \* training forwards so far

vars == <<job, lengths, inferred, pc, order, epoch, mini, pass, micros, next, grad, weight,
          rng, saved, trained>>

Components == {"opd", "extra", "train"}
Rows == 1 .. job.rows
NoGradient == [c \in Components |-> [r \in Ranks |-> [i \in Rows |-> 0]]]
NoWeight == [r \in Ranks |-> 0]

\* batch.split(size) of a sequence of rows: the last one may be shorter.
Split(rows, size) ==
    [b \in 1 .. CeilDiv(Len(rows), size) |->
        SubSeq(rows, (b - 1) * size + 1, Min({b * size, Len(rows)}))]

AllRows == [i \in Rows |-> i]
MiniBatches == Split(order, job.mini)

\* rearrange_micro_batches of some rows of every rank; the assertion in it.
LengthsOf(rows) == [r \in Ranks |-> [i \in DOMAIN rows |-> lengths[r][rows[i]]]]
MaxTokenLen == MaxTokens * job.sp
CanRearrange(rows) == AgreedNumber(LengthsOf(rows), MaxTokenLen, job.stages) <= Len(rows)
Rearrange(rows) == RearrangeMicroBatches(LengthsOf(rows), MaxTokenLen, job.stages)
BySize(rows) == [r \in Ranks |-> Split([i \in DOMAIN rows |-> i], job.micro)]

\* The micro-batches of the actor, by their tokens or by a number of rows,
ActorMicroBatches(rows) == IF job.dynamic THEN Rearrange(rows) ELSE BySize(rows)

\* of the critic, which never rearranges images,
CriticMicroBatches(rows) == IF job.dynamic /\ ~job.multimodal THEN Rearrange(rows) ELSE BySize(rows)

\* and of the reward model, whose rows may be of another chat template.
RewardMicroBatches(rows) == IF job.dynamic THEN Rearrange(rows) ELSE BySize(rows)

-----------------------------------------------------------------------------
(* Inference.                                                                *)

\* The micro-batches to forward,
InferIn(batches) ==
    /\ pc = "infer"
    /\ micros' = batches
    /\ pc' = "merge"
    /\ UNCHANGED <<job, lengths, inferred, order, epoch, mini, pass, next, grad, weight,
                   rng, saved, trained>>

ComputeLogProb == job.role = "actor" /\ InferIn(ActorMicroBatches(AllRows))
ComputeValues == job.role = "critic" /\ InferIn(CriticMicroBatches(AllRows))
ComputeScores == job.role = "reward" /\ InferIn(RewardMicroBatches(AllRows))

\* what a model says of each of them, which is of rows as a batch has them,
Batch(r, rows) == [b \in DOMAIN rows |-> [row |-> rows[b], length |-> lengths[r][rows[b]]]]
ActorForward(batch) == IF job.packed THEN PackedLogProbs(batch, job.sp) ELSE PaddedLogProbs(batch)
CriticForward(batch) == IF job.packed THEN PackedValues(batch, job.sp) ELSE PaddedValues(batch)
RewardForward(batch) == IF job.packed THEN PackedScores(batch, job.sp) ELSE PaddedScores(batch)

\* and the answers, one micro-batch after the other, in the order of the rows.
InOrder(r, answers) ==
    LET flat == FlattenSeq(micros[r])
        all == FlattenSeq(answers)
    IN IF job.dynamic THEN [i \in Rows |-> all[ReverseIndex(flat)[i]]] ELSE all

InferMerge(answers) ==
    /\ pc = "merge"
    /\ inferred' = answers
    /\ pc' = IF job.epochs = 0 THEN "end" ELSE "split"
    /\ UNCHANGED <<job, lengths, order, epoch, mini, pass, micros, next, grad, weight,
                   rng, saved, trained>>

LogProbs ==
    /\ job.role = "actor"
    /\ InferMerge([r \in Ranks |->
          InOrder(r, [m \in DOMAIN micros[r] |-> ActorForward(Batch(r, micros[r][m]))])])

\* "Only action tokens have values".
Values ==
    /\ job.role = "critic"
    /\ InferMerge([r \in Ranks |->
          LET values == InOrder(r, [m \in DOMAIN micros[r] |-> CriticForward(Batch(r, micros[r][m]))])
          IN [i \in Rows |-> Masked(lengths[r][i], values[i])]])

\* _expand_to_token_level
Scores ==
    /\ job.role = "reward"
    /\ InferMerge([r \in Ranks |->
          LET scores == InOrder(r, [m \in DOMAIN micros[r] |-> RewardForward(Batch(r, micros[r][m]))])
          IN [i \in Rows |-> TokenLevel(lengths[r][i], scores[i])]])

-----------------------------------------------------------------------------
(* Mini-batches.                                                             *)

FirstPass == IF job.diagnose THEN "opd" ELSE "train"

\* update_policy: the mini-batch is cut, and the random state kept for its
\* passes.
SplitMiniBatch ==
    /\ pc = "split"
    /\ job.role = "actor"
    /\ micros' = ActorMicroBatches(MiniBatches[mini])
    /\ pass' = FirstPass
    /\ saved' = IF job.diagnose THEN rng ELSE saved
    /\ pc' = "zero"
    /\ UNCHANGED <<job, lengths, inferred, order, epoch, mini, next, grad, weight, rng, trained>>

\* An update without passes of its own: the mini-batch is cut, zero_grad.
StartMiniBatch(batches) ==
    /\ pc = "split"
    /\ micros' = batches
    /\ grad' = NoGradient
    /\ weight' = NoWeight
    /\ next' = 1
    /\ pc' = "backward"
    /\ UNCHANGED <<job, lengths, inferred, epoch, mini, pass, rng, saved, trained>>

\* update_critic
ValueMiniBatch ==
    /\ job.role = "critic"
    /\ StartMiniBatch(CriticMicroBatches(MiniBatches[mini]))
    /\ UNCHANGED order

\* zero_grad, and a pass starts at the first micro-batch.
FaultStartPass ==
    /\ weight' = NoWeight
    /\ next' = 1
    /\ pc' = "backward"
    /\ UNCHANGED <<job, lengths, inferred, order, epoch, mini, pass, micros, grad, saved, trained>>
StartPass ==
    /\ grad' = NoGradient
    /\ weight' = NoWeight
    /\ next' = 1
    /\ pc' = "backward"
    /\ UNCHANGED <<job, lengths, inferred, order, epoch, mini, pass, micros, saved, trained>>

\* restore_rng_state, then a pass of _run_gopd_component_grad_pass.
BeginDiagnostic ==
    /\ pc = "zero"
    /\ pass # "train"
    /\ rng' = saved
    /\ StartPass

\* "Restore RNG once more before the real training pass."
FaultBeginTraining ==
    /\ pc = "zero"
    /\ pass = "train"
    /\ rng' = rng
    /\ StartPass
BeginTraining ==
    /\ pc = "zero"
    /\ pass = "train"
    /\ rng' = IF job.diagnose THEN saved ELSE rng
    /\ StartPass

\* The factor of a micro-batch's loss is a fraction of LossUnit.
LossUnit(r) ==
    CASE job.engine = "megatron" -> Len(micros[r])
      [] job.engine # "megatron" /\ job.dynamic -> job.mini
      [] OTHER -> job.mini \div job.micro
FaultLossFactor(batch) == 1
LossFactor(batch) ==
    IF job.dynamic THEN IF job.multimodal THEN DictKeys ELSE Len(batch) ELSE 1

\* Forward and backward of one micro-batch on every rank.
Accumulate(factor) ==
    /\ pc = "backward"
    /\ \A r \in Ranks : next <= Len(micros[r])
    /\ LET mini_batch == MiniBatches[mini]
           Trained(r) == {mini_batch[i] : i \in ToSet(micros[r][next])}
       IN grad' = [grad EXCEPT ![pass] = [r \in Ranks |-> [i \in Rows |->
                      @[r][i] + (IF i \in Trained(r) THEN 1 ELSE 0)]]]
    /\ weight' = [r \in Ranks |-> weight[r] + factor[r]]
    /\ rng' = rng + 1
    /\ next' = next + 1
    /\ UNCHANGED <<job, lengths, inferred, pc, order, epoch, mini, pass, micros, saved>>

DiagnosticBackward ==
    /\ pass # "train"
    /\ Accumulate([r \in Ranks |-> LossFactor(micros[r][next])])
    /\ UNCHANGED trained

TrainingBackward ==
    /\ pass = "train"
    /\ job.role = "actor"
    /\ Accumulate([r \in Ranks |-> LossFactor(micros[r][next])])
    /\ trained' = trained + 1

\* The loss of update_critic.
ValueBackward ==
    /\ job.role = "critic"
    /\ Accumulate([r \in Ranks |-> LossFactor(micros[r][next])])
    /\ trained' = trained + 1

LastBackward ==
    /\ pc = "backward"
    /\ \A r \in Ranks : next = Len(micros[r]) + 1
    /\ pc' = "norm"
    /\ UNCHANGED <<job, lengths, inferred, order, epoch, mini, pass, micros, next, grad, weight,
                   rng, saved, trained>>

\* The end of _run_gopd_component_grad_pass: the norm, no step, zero_grad.
Measure ==
    /\ pc = "norm"
    /\ pass # "train"
    /\ grad' = NoGradient
    /\ pass' = IF pass = "opd" THEN "extra" ELSE "train"
    /\ pc' = "zero"
    /\ UNCHANGED <<job, lengths, inferred, order, epoch, mini, micros, next, weight,
                   rng, saved, trained>>

LastOfEpoch == mini = Len(MiniBatches)
LastStep == LastOfEpoch /\ epoch = job.epochs

\* The optimizer's step, and the next mini-batch or epoch.
StepThen(kept) ==
    /\ pc = "norm"
    /\ pass = "train"
    /\ grad' = IF kept THEN grad ELSE NoGradient
    /\ mini' = IF LastOfEpoch THEN 1 ELSE mini + 1
    /\ epoch' = IF LastOfEpoch /\ ~LastStep THEN epoch + 1 ELSE epoch
    /\ pc' = IF LastStep THEN "end" ELSE "split"
    /\ UNCHANGED <<job, lengths, inferred, order, pass, micros, next, weight, rng, saved, trained>>

\* _optimizer_step, which drops a gradient that is not finite, and the zero_grad
\* after the last mini-batch.
Step(finite) == job.role = "actor" /\ StepThen(finite /\ ~LastStep)
ValueStep(finite) == job.role = "critic" /\ StepThen(finite /\ ~LastStep)

-----------------------------------------------------------------------------

Init ==
    /\ job \in {Normalized(c) : c \in Jobs}
    /\ lengths \in [Ranks -> [Rows -> LengthSet]]
    /\ inferred = [r \in Ranks |-> <<>>]
    /\ pc = IF job.engine = "sft" THEN "split" ELSE "infer"
    /\ order = AllRows
    /\ epoch = 1 /\ mini = 1 /\ next = 1
    /\ pass = "train"
    /\ micros = [r \in Ranks |-> <<>>]
    /\ grad = NoGradient /\ weight = NoWeight
    /\ rng = 0 /\ saved = 0 /\ trained = 0

Next ==
    \/ ComputeLogProb \/ ComputeValues \/ ComputeScores
    \/ LogProbs \/ Values \/ Scores
    \/ SplitMiniBatch
    \/ ValueMiniBatch
    \/ BeginDiagnostic
    \/ BeginTraining
    \/ DiagnosticBackward
    \/ TrainingBackward
    \/ ValueBackward
    \/ LastBackward
    \/ Measure
    \/ \E finite \in BOOLEAN : Step(finite) \/ ValueStep(finite)

-----------------------------------------------------------------------------
(* Properties. *)

\* What is inferred is, row by row and token by token of the response, of that
\* token: its log-prob and its value are computed from all tokens of the row before
\* it and no others, the score from the whole row, whatever micro-batches, packed
\* sequences and slices of a group it went through (the reverse index and the
\* forward of compute_log_prob, compute_values and compute_rm_score).
AnswerOf(r, i, t) ==
    LET first == <<i, 1>>
        k == PromptOf(lengths[r][i]) + t     \* the token's number in the row
    IN CASE job.role = "actor" -> <<first, <<i, k - 1>>, <<i, k>>>>
         [] job.role = "critic" -> <<first, <<i, k - 1>>>>
         [] job.role = "reward" -> IF k = lengths[r][i] THEN <<first, <<i, k>>>> ELSE Zero
InferredInOrder ==
    job.engine # "sft" /\ pc \notin {"infer", "merge", "raised"} =>
        \A r \in Ranks : \A i \in Rows :
            \A t \in 1 .. lengths[r][i] - PromptOf(lengths[r][i]) :
                inferred[r][i][t] = AnswerOf(r, i, t)

\* When a gradient is measured or applied it holds every row of its mini-batch
\* once on every rank and nothing of another pass, mini-batch or component
\* (the zero_grad calls of update_policy and _run_gopd_component_grad_pass).
GradientIsMiniBatch ==
    pc = "norm" =>
        \A c \in Components, r \in Ranks, i \in Rows :
            grad[c][r][i] = IF c = pass /\ i \in ToSet(MiniBatches[mini]) THEN 1 ELSE 0

\* "relative to the dynamic bsz": the losses of a whole mini-batch are averaged,
\* their factors add up to one on every rank.
LossFactorsAddUp ==
    pc = "norm" /\ Len(MiniBatches[mini]) = job.mini =>
        \A r \in Ranks : weight[r] = LossUnit(r)

\* "enabling diagnostics does not alter normal training randomness": a training
\* forward draws what it would draw without the passes before it.
RandomnessUndisturbed == pc = "backward" /\ pass = "train" => rng = trained

\* No rank is left waiting in a collective operation: the ranks agree on the
\* number of micro-batches, whatever the lengths of their rows (the all_reduce
\* of rearrange_micro_batches).
NoRankWaits ==
    pc \in {"merge", "zero", "backward"} =>
        \A r, s \in Ranks : Len(micros[r]) = Len(micros[s])
=============================================================================
