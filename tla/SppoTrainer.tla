------------------------------ MODULE SppoTrainer ------------------------------
(***************************************************************************)
(* The training loop of RaySPPOTrainer, recipe/sppo, which inherits from   *)
(* the trainer of TrainingStep: without critic and advantages, a response  *)
(* is held against the soft mean of all rewards of the batch.              *)
(*                                                                         *)
(* What follows a step in TrainingStep follows an epoch here: global_steps *)
(* is advanced, and the end of training recognised, when the dataloader    *)
(* has been gone through.                                                  *)
(***************************************************************************)
EXTENDS TrainingStep

CONSTANTS
    EpochBatches,   \* batches of the dataloader in an epoch
    TotalEpochs     \* total_epochs

ASSUME SppoAssumption ==
    \A c \in Configs : c.trainer = "sppo" => ~c.teacher /\ ~c.gopdRef /\ ~c.pfPpo
ASSUME EpochsAssumption == EpochBatches \in Nat \ {0} /\ TotalEpochs \in Nat

-----------------------------------------------------------------------------

\* The rewards of all rows, in softmean, and the row's own.
SoftMean(data) == UNION {Rewards(data, j) : j \in 1 .. Rows(data)}
ComputeSppoAdvantage ==
    /\ pc = "adv"
    /\ LET data == Put(batch, "token_level_scores", reward) IN
       batch' = Put(data, "seq_level_rewards",
                    [i \in 1 .. Rows(data) |-> Rewards(data, i) \cup SoftMean(data)])
    /\ pc' = Warm
    /\ UNCHANGED <<config, taken, step, gen, out, reward, actor, critic, table, failed>>

EndOfEpoch == taken % EpochBatches = 0
IsLastStep == step >= config.steps
EndOfBatch ==
    /\ GiveUpBatch
    /\ IF ~EndOfEpoch THEN pc' = "batch" /\ UNCHANGED step
       ELSE IF IsLastStep \/ taken = EpochBatches * TotalEpochs
         THEN pc' = "done" /\ step' = IF IsLastStep THEN step ELSE step + 1
       ELSE pc' = "batch" /\ step' = step + 1

SppoNext ==
    \/ NextBatch \/ Generate \/ Assemble \/ Balance \/ RewardModel \/ Score
    \/ OldLogProb \/ ReferenceThen("adv") \/ ComputeSppoAdvantage \/ UpdateActor
    \/ Validate \/ EndOfBatch

-----------------------------------------------------------------------------
(* Properties. *)

\* "The frequency (by iteration) to save checkpoint" (docs/examples/config.rst):
\* a step is one turn of the loop, so that steps saved, tested and counted are
\* as far apart as batches learned from.
StepIsIteration == Learning => step = taken
=============================================================================
