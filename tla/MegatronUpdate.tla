--------------------------- MODULE MegatronUpdate ---------------------------
(***************************************************************************)
(* The actor, critic and reward model of Megatron, whose pipeline takes    *)
(* all micro-batches of a mini-batch in one call.                          *)
(*   verl/workers/actor/megatron_actor.py                                  *)
(*   verl/workers/critic/megatron_critic.py                                *)
(*   verl/workers/reward_model/megatron/reward_model.py                    *)
(* The state is PolicyUpdate's.  The stages of one pipeline are one rank:  *)
(* they are given the last stage's rows, and its results.                  *)
(***************************************************************************)
EXTENDS PolicyUpdate

\* forward_backward_batch: the micro-batches, in groups of the virtual stages
\* when they are made by tokens, and images with their rows by index.
MegatronMicroBatches(rows) == IF job.dynamic THEN Rearrange(rows) ELSE BySize(rows)

\* rearrange_micro_batches asserts that there are rows for all of them.
Feasible(rows) == job.dynamic => CanRearrange(rows)

\* forward_only
InferAll ==
    IF Feasible(AllRows) THEN InferIn(MegatronMicroBatches(AllRows))
    ELSE /\ pc = "infer"
         /\ pc' = "raised"
         /\ UNCHANGED <<job, lengths, inferred, order, epoch, mini, pass, micros, next, grad,
                        weight, rng, saved, trained>>

MegatronLogProb == job.role = "actor" /\ InferAll
MegatronValues == job.role = "critic" /\ InferAll
MegatronScores == job.role = "reward" /\ InferAll

\* The answers of the last stage: the response's part is cut out of log-probs in
\* each micro-batch, of values and scores when the rows are in order again.
MegatronLogProbs ==
    /\ job.role = "actor"
    /\ InferMerge([r \in Ranks |->
          InOrder(r, [m \in DOMAIN micros[r] |->
              ResponsePart(MegatronLabelled(Batch(r, micros[r][m])))])])

WholeRows(r) == InOrder(r, [m \in DOMAIN micros[r] |-> PaddedOutput(Batch(r, micros[r][m]))])

MegatronValuesInOrder ==
    /\ job.role = "critic"
    /\ InferMerge([r \in Ranks |->
          LET values == ResponsePart(WholeRows(r)) IN
          [i \in Rows |-> Masked(lengths[r][i], values[i])]])
MegatronScoresInOrder ==
    /\ job.role = "reward"
    /\ InferMerge([r \in Ranks |-> [i \in Rows |->
          LET row == [row |-> i, length |-> lengths[r][i]] IN
          TokenLevel(row.length, ScoreOf(row, WholeRows(r)[i]))]])

-----------------------------------------------------------------------------

\* make_iterator: an epoch goes through the rows in an order of its own, which
\* data_loader_seed makes the same on all ranks.
Orders ==
    IF mini # 1 THEN {order}
    ELSE IF job.shuffle THEN {p \in [Rows -> Rows] : IsInjective(p)} ELSE {AllRows}

\* zero_grad and zero_grad_buffer, and the micro-batches of the next mini-batch.
MegatronMiniBatch(newOrder) ==
    LET rows == Split(newOrder, job.mini)[mini] IN
    /\ order' = newOrder
    /\ IF Feasible(rows) THEN StartMiniBatch(MegatronMicroBatches(rows))
       ELSE /\ pc = "split"
            /\ grad' = NoGradient
            /\ pc' = "raised"
            /\ UNCHANGED <<job, lengths, inferred, epoch, mini, pass, micros, next, weight,
                           rng, saved, trained>>

\* The schedule of the pipeline divides every loss by the number of them.
MegatronBackward ==
    /\ Accumulate([r \in Ranks |-> 1])
    /\ trained' = trained + 1

MegatronPolicyBackward == job.role = "actor" /\ MegatronBackward
MegatronValueBackward == job.role = "critic" /\ MegatronBackward

\* actor_optimizer.step: "update_successful" is false of gradients that are not
\* finite.
MegatronStep(successful) ==
    IF successful THEN StepThen(TRUE)
    ELSE /\ pc = "norm"
         /\ pc' = "raised"
         /\ UNCHANGED <<job, lengths, inferred, order, epoch, mini, pass, micros, next, grad,
                        weight, rng, saved, trained>>
MegatronPolicyStep(successful) == job.role = "actor" /\ MegatronStep(successful)
MegatronValueStep(successful) == job.role = "critic" /\ MegatronStep(successful)

MegatronNext ==
    \/ MegatronLogProb \/ MegatronValues \/ MegatronScores
    \/ MegatronLogProbs \/ MegatronValuesInOrder \/ MegatronScoresInOrder
    \/ \E newOrder \in Orders : MegatronMiniBatch(newOrder)
    \/ MegatronPolicyBackward \/ MegatronValueBackward
    \/ LastBackward
    \/ \E successful \in BOOLEAN :
          MegatronPolicyStep(successful) \/ MegatronValueStep(successful)
=============================================================================
