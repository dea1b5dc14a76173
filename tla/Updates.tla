------------------------------- MODULE Updates -------------------------------
(***************************************************************************)
(* The updates of a model on data-parallel ranks, which differ in what     *)
(* shards it: the FSDP workers, the Megatron workers, and the trainer of   *)
(* supervised fine-tuning, verl/trainer/fsdp_sft_trainer.py, which infers  *)
(* nothing: an epoch of its dataloader is one of the job, a batch of it a  *)
(* mini-batch, and a row the place of an example in the rank's part.       *)
(***************************************************************************)
EXTENDS MegatronUpdate

\* training_step: zero_grad, and micro-batches of a number of rows.
TrainingStepStart ==
    /\ StartMiniBatch(BySize(MiniBatches[mini]))
    /\ UNCHANGED order

\* _compute_loss_and_backward, which is not told of the micro-batches: what it
\* returns is divided by their number after the backward.
ExampleBackward ==
    /\ Accumulate([r \in Ranks |-> LossUnit(r)])
    /\ trained' = trained + 1

\* clip_grad_norm_ and the step, which is left out if the norm is not finite.
TrainingStepEnd(finite) == StepThen(finite)

SupervisedNext ==
    \/ TrainingStepStart
    \/ ExampleBackward
    \/ LastBackward
    \/ \E finite \in BOOLEAN : TrainingStepEnd(finite)

UpdatesNext ==
    \/ job.engine = "fsdp" /\ Next
    \/ job.engine = "megatron" /\ MegatronNext
    \/ job.engine = "sft" /\ SupervisedNext

Spec == Init /\ [][UpdatesNext]_vars
=============================================================================
