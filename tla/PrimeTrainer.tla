----------------------------- MODULE PrimeTrainer -----------------------------
(***************************************************************************)
(* The training loop of RayPRIMETrainer, recipe/prime, which inherits from *)
(* the trainer of TrainingStep: more prompts are generated than a step     *)
(* learns from, groups that are neither too easy nor truncated are kept    *)
(* first, and a reward model is trained on the way, on which of the        *)
(* responses were right.                                                   *)
(*                                                                         *)
(* Here the responses to one prompt are told by their places in the batch, *)
(* n rows side by side, and not by the prompt's uid.                       *)
(***************************************************************************)
EXTENDS TrainingStep

CONSTANTS
    AccuracyLower,      \* accuracy_lower_bound and accuracy_upper_bound, in
    AccuracyUpper,      \* hundredths
    MaxResponseLength

\* genPrompts is train_batch_size times oversample_factor, which is taken to be
\* a whole number: otherwise half a group may be kept.  A worker is not left a
\* single row of a group, of which compute_dpo_accuracy raises.  Both reward
\* coefficients are positive, and nothing but "rloo" is implemented.
ASSUME PrimeAssumption ==
    \A c \in Configs : c.trainer = "prime" =>
        /\ c.estimator = "RLOO" /\ c.samples > 1
        /\ ~c.async /\ ~c.autoPadding /\ ~c.toolUse /\ ~c.kl /\ ~c.teacher /\ ~c.gopdRef
        /\ c.genPrompts >= c.prompts
        /\ c.rewardModel => (((c.prompts * c.samples) \div c.workers) % c.samples) # 1
ASSUME BoundsOfFilterAssumption ==
    AccuracyLower \in Nat /\ AccuracyUpper \in Nat /\ MaxResponseLength \in Nat \ {0}

VARIABLE rm     \* the updates the reward model's weights have had

-----------------------------------------------------------------------------

\* Only tensors are popped.
NextPrimeBatch == PopBatch({"input_ids"})

\* PrimeRewardManager.verify leaves what it found in the batch.
Verify ==
    /\ pc = "verify"
    /\ \E score \in [1 .. Rows(batch) -> Scores] :
         batch' = Put(batch, "acc",
                      [i \in 1 .. Rows(batch) |-> [of |-> batch["responses"][i], score |-> score[i]]])
    /\ pc' = "downsample"
    /\ UNCHANGED <<config, taken, step, gen, out, reward, actor, critic, table, failed>>

\* The rows of the g-th group, and those of row i's.
Places(g) == [k \in 1 .. config.samples |-> (g - 1) * config.samples + k]
PlacesOf(i) == Places(1 + ((i - 1) \div config.samples))

\* filter_mask of filter_and_downsample; one length stands for that of the row
\* and that of its response.
FilterMask(g) ==
    LET right == FoldLeft(LAMBDA n, i : n + batch["acc"][i].score, 0, Places(g)) IN
    /\ "accuracy" \in config.filters =>
         /\ 100 * right >= AccuracyLower * config.samples
         /\ 100 * right <= AccuracyUpper * config.samples
    /\ "truncate" \in config.filters =>
         \A i \in ToSet(Places(g)) : batch["responses"][i].length < MaxResponseLength - 1

\* argsort, which is not stable: any order of the groups in which those that
\* pass come first.
ReorderIndex ==
    LET groups == 1 .. Rows(batch) \div config.samples IN
    {order \in [groups -> groups] :
        /\ IsInjective(order)
        /\ \A g, h \in groups : g < h /\ FilterMask(order[h]) => FilterMask(order[g])}

\* 1 / oversample_factor of the rows are kept.
FilterAndDownsample ==
    /\ pc = "downsample"
    /\ \E order \in ReorderIndex :
         LET index == FlattenSeq([g \in DOMAIN order |-> Places(order[g])]) IN
         batch' = FirstRows(Take(batch, index), config.prompts * config.samples)
    /\ pc' = "old_log_prob"
    /\ UNCHANGED <<config, taken, step, gen, out, reward, actor, critic, table, failed>>

-----------------------------------------------------------------------------
(* The reward model, which scores every token by the change of its          *)
(* probability, q.  prime_norm, by the largest of a worker, is left out.    *)

UpdatedScores(part) ==
    Column(part, "rm_scores", LAMBDA i : [of |-> part["responses"][i], by |-> rm])
PrimeScores(part) ==
    Put(UpdatedScores(part), "q", [i \in 1 .. Rows(part) |-> [of |-> part["responses"][i], by |-> rm]])

PrimeScore(here) == Join(here, "adv", AsLeft(batch), batch, PrimeScores, "rm_scores", "rm_scores")
PrimeUpdate(here) == Join(here, "adv", AsLeft(batch), batch, UpdatedScores, "rm_scores", "rm_scores")

NoRewardModel == ~config.rewardModel /\ Skip("rm", "adv") /\ UNCHANGED rm
OnlyScore == config.rewardModel /\ config.rmUpdate = "none" /\ PrimeScore("rm") /\ UNCHANGED rm
UpdateWhileScoring == config.rewardModel /\ config.rmUpdate = "after" /\ PrimeUpdate("rm") /\ rm' = rm + 1

\* The scores of the update are not used, but those of another call.
UpdateFirst ==
    /\ config.rewardModel /\ config.rmUpdate = "before"
    /\ Skip("rm", "score_rm")
    /\ Accepted(batch)
    /\ rm' = rm + 1
ScoreUpdated == PrimeScore("score_rm") /\ UNCHANGED rm

\* The statistics of every group are put next to each of its rows, for the
\* update to compare with.
Broadcast(column) ==
    [i \in 1 .. Rows(batch) |-> [k \in 1 .. config.samples |-> column[PlacesOf(i)[k]]]]
BroadcastStatistics ==
    /\ config.rewardModel /\ config.rmUpdate = "reverse"
    /\ pc = "rm"
    /\ Accepted(batch)
    /\ batch' = Put(Put(batch, "Q_bc", Broadcast(Called(batch, PrimeScores)["q"])),
                    "acc_bc", Broadcast(batch["acc"]))
    /\ pc' = "update_rm"
    /\ UNCHANGED <<config, taken, step, gen, out, reward, actor, critic, table, failed, rm>>
UpdateLast == PrimeUpdate("update_rm") /\ rm' = rm + 1

-----------------------------------------------------------------------------

\* compute_rloo_advantage_return: each source of reward against the others of
\* the group, and their sum.
PrimeRloo(data, i) ==
    {data[c][j] : c \in {"rm_scores", "acc"} \cap DOMAIN data, j \in ToSet(PlacesOf(i))}

ComputePrimeAdvantage ==
    /\ pc = "adv"
    /\ batch' = Put(batch, "advantages", [i \in 1 .. Rows(batch) |-> PrimeRloo(batch, i)])
    /\ pc' = "update_actor"
    /\ UNCHANGED <<config, taken, step, gen, out, reward, actor, critic, table, failed>>

\* global_steps is counted before it is compared: one step fewer is trained
\* than total_training_steps, and validation and checkpoint follow.
PrimeEndStep ==
    /\ step' = step + 1
    /\ pc' = IF step + 1 >= config.steps THEN "last" ELSE "batch"
    /\ GiveUpBatch

PrimeNext ==
    \/ OnlyScore \/ UpdateWhileScoring \/ UpdateFirst \/ ScoreUpdated \/ BroadcastStatistics \/ UpdateLast
    \/ NoRewardModel
    \/ /\ \/ NextPrimeBatch \/ Generate \/ AssembleThen("balance") \/ BalanceOrSkip("verify")
          \/ Verify \/ FilterAndDownsample \/ OldLogProb \/ ReferenceThen("rm")
          \/ ComputePrimeAdvantage \/ UpdateActor \/ Validate \/ PrimeEndStep
          \/ ValidateThen("last", "done")
       /\ UNCHANGED rm

=============================================================================
