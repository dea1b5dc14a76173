--------------------------- MODULE DynamicSampling ---------------------------
(***************************************************************************)
(* The training loop of RayDAPOTrainer, recipe/dapo/dapo_ray_trainer.py,   *)
(* which inherits from the trainer of TrainingStep: prompts whose          *)
(* responses all score alike are dropped, and batches of the dataloader    *)
(* are generated until enough prompts are left for a step.                 *)
(*                                                                         *)
(* While batches are generated `batch' is the code's new_batch, and `kept' *)
(* the batch they are added to; from the update on, `batch' is that.       *)
(*                                                                         *)
(* A definition commented "Fault" is the definition after it with a        *)
(* plausible mistake; no action uses it.                                   *)
(***************************************************************************)
EXTENDS TrainingStep

CONSTANT GenBatches     \* batches of the dataloader in all epochs

\* The rollout is the workers'; the entropy recipe offers the servers', which
\* read a raw_prompt that gen_batch does not have.  compute_advantage is called
\* without the config, which three estimators and the critic's read, and the KL
\* penalty before the log-probs it is of are there.  The entropy recipe joins
\* meta_info's timing, which is another one after ReMax's second generation.
ASSUME DapoAssumption ==
    \A c \in Configs : c.trainer \in {"dapo", "entropy"} =>
        /\ c.estimator \in {"GRPO", "REINFORCE_PLUS_PLUS_BASELINE", "RLOO", "OPO", "REMAX", "RSOPD"}
        /\ ~c.async /\ ~c.kl /\ ~c.teacher
        /\ c.trainer = "entropy" => c.estimator # "REMAX"
ASSUME GenBatchesAssumption == GenBatches \in Nat

VARIABLES
    kept,                   \* batch
    num_prompt_in_batch,
    num_gen_batches

loop == <<kept, num_prompt_in_batch, num_gen_batches>>

-----------------------------------------------------------------------------

NextGenBatch ==
    /\ taken < GenBatches
    /\ NextBatch
    /\ num_gen_batches' = num_gen_batches + 1
    /\ UNCHANGED <<kept, num_prompt_in_batch>>

AssembleNew == AssembleThen("reward")

\* The reward function; what filter_groups.metric names is the score.
ScoreNew ==
    /\ pc = "score"
    /\ \E score \in [1 .. Rows(batch) -> Scores] :
         batch' = Put(batch, "token_level_scores",
                      [i \in 1 .. Rows(batch) |-> [of |-> batch["responses"][i], score |-> score[i]]])
    /\ pc' = "filter"
    /\ UNCHANGED <<config, taken, step, gen, out, reward, actor, critic, table, failed>>
    /\ UNCHANGED loop

\* Rows of the prompts that are kept: their scores have a standard deviation,
\* or there is only one.
FaultQualified(data) == [i \in 1 .. Rows(data) |-> i]
Qualified(data) ==
    LET ScoresOf(i) == {data["token_level_scores"][j].score : j \in Group(data, i)}
        mixed == {i \in 1 .. Rows(data) : Cardinality(ScoresOf(i)) > 1 \/ Cardinality(Group(data, i)) = 1}
    IN InOrder(mixed, Rows(data))

\* The batch so far, and its prompts, with those of new_batch.
Accumulated == LET new == Take(batch, Qualified(batch)) IN
               IF kept = Empty THEN new ELSE Concat(<<kept, new>>)
Counted == num_prompt_in_batch + Cardinality({batch["uid"][i] : i \in ToSet(Qualified(batch))})
Enough == Counted >= config.prompts

NoFilter ==
    /\ pc = "filter"
    /\ ~config.filterGroups
    /\ kept' = batch
    /\ pc' = "align"
    /\ UNCHANGED <<config, taken, step, gen, out, batch, reward, actor, critic, table, failed>>
    /\ UNCHANGED <<num_prompt_in_batch, num_gen_batches>>

FilterGroups ==
    /\ pc = "filter"
    /\ config.filterGroups
    /\ kept' = Accumulated
    /\ num_prompt_in_batch' = Counted
    /\ pc' = IF Enough THEN "align"
             ELSE IF config.maxGenBatches = 0 \/ num_gen_batches < config.maxGenBatches THEN "batch"
             ELSE "raised"
    /\ UNCHANGED <<config, taken, step, gen, out, batch, reward, actor, critic, table, failed>>
    /\ UNCHANGED num_gen_batches

\* The first traj_bsz rows, and their response_mask.
Aligned(data) == IF config.filterGroups THEN FirstRows(data, config.prompts * config.samples) ELSE data
Align ==
    /\ pc = "align"
    /\ batch' = LET data == Aligned(kept) IN Put(data, "response_mask", data["attention_mask"])
    /\ pc' = "balance"
    /\ UNCHANGED <<config, taken, step, gen, out, reward, actor, critic, table, failed>>
    /\ UNCHANGED loop

BalanceNew == BalanceOrSkip("old_log_prob")

ComputeDapoAdvantage ==
    /\ pc = "adv"
    /\ batch' \in WithAdvantages(batch)
    /\ pc' = Warm
    /\ UNCHANGED <<config, taken, step, gen, out, reward, actor, critic, table, failed>>

Reset ==
    /\ kept' = Empty
    /\ num_prompt_in_batch' = 0
    /\ num_gen_batches' = 0

DapoEndStep == EndStep /\ Reset

\* The epochs are over: the loop ends, with what is in `kept'.
Exhausted ==
    /\ pc = "batch"
    /\ taken = GenBatches
    /\ pc' = "exhausted"
    /\ UNCHANGED <<config, taken, step, gen, out, batch, reward, actor, critic, table, failed>>
    /\ UNCHANGED loop

-----------------------------------------------------------------------------

DapoInit == Init /\ kept = Empty /\ num_prompt_in_batch = 0 /\ num_gen_batches = 0

Sampling ==
    \/ NextGenBatch \/ ScoreNew \/ NoFilter \/ FilterGroups \/ Exhausted
    \/ (Generate \/ Baseline \/ AssembleNew \/ RewardModel) /\ UNCHANGED loop

Updating ==
    \/ Align \/ DapoEndStep
    \/ /\ \/ BalanceNew \/ OldLogProb \/ Reference \/ Teacher \/ GopdReference \/ Values
          \/ ComputeDapoAdvantage \/ UpdateActor \/ Validate
       /\ UNCHANGED loop

DapoNext == Sampling \/ Updating

-----------------------------------------------------------------------------
(* Properties. *)

\* With dynamic sampling a step learns only from prompts whose responses do not
\* all score alike, generated for this step and never learned from before, and
\* no batch was generated after there were enough of them.
GroupsQualified ==
    Learning /\ config.filterGroups =>
        /\ config.samples > 1 => \A i \in RowsOf(batch) : \E j \in Group(batch, i) :
              batch["token_level_scores"][j].score # batch["token_level_scores"][i].score
        /\ \A i \in RowsOf(batch) :
              batch["responses"][i].prompt > (taken - num_gen_batches) * config.genPrompts
        /\ num_prompt_in_batch - config.prompts < config.genPrompts

\* "The trainer will repeat sampling with `gen_batch_size` until there are
\* enough qualified groups for `train_batch_size` or reaching the upper limit
\* specified by `max_num_gen_batches`" (docs/algo/dapo.md).
RepeatsUntilEnough == pc = "exhausted" => kept = Empty
=============================================================================
