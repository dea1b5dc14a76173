----------------------------- MODULE TrainingStep -----------------------------
(***************************************************************************)
(* The driver's training loop, RayPPOTrainer.fit of                        *)
(* verl/trainer/ppo/ray_trainer.py: what a step asks of the worker groups  *)
(* and how their answers are put together, row by row, into the batch the  *)
(* critic and the actor learn from; and _validate, which does the same for *)
(* prompts that do not fill the workers.                                   *)
(*                                                                         *)
(* A column holds, instead of numbers, what they are of: a response knows  *)
(* its prompt, which of the prompt's samples it is and the weights that    *)
(* generated it, and what is computed of it names it.  Token level tensors *)
(* are one entry; a mask is the set of kinds of tokens it lets through.    *)
(*                                                                         *)
(* A definition commented "Fault" is the definition after it with a        *)
(* plausible mistake; no action uses it.                                   *)
(***************************************************************************)
EXTENDS DataProto, SeqlenBalance, FiniteSets

CONSTANTS
    Configs,        \* configurations, records of Config
    Lengths,        \* tokens of a prompt with its response
    Scores,         \* what a response may score, where that is told apart
    Validations     \* sizes of the validation dataloader's batches

AdvantageEstimator ==
    {"GAE", "GRPO", "GRPO_PASSK", "REINFORCE_PLUS_PLUS", "REINFORCE_PLUS_PLUS_BASELINE",
     "RLOO", "OPO", "REMAX", "RSOPD", "GOPD"}

\* steps: total_training_steps.  prompts: train_batch_size; samples: rollout.n; valSamples: val_kwargs.n;
\* workers: world_size; sp: ulysses_sequence_parallel_size; tp: of the rollout;
\* genPrompts: gen_batch_size, what the dataloader yields.
\* toolUse: responses hold the answers of tools, and in "sync" mode the SGLang
\* rollout marks them in loss_mask (multi_turn.enable).  trainer: which of the
\* main programs runs.  filterGroups and maxGenBatches are of the trainer in
\* DynamicSampling; filters and rmUpdate of that in PrimeTrainer.
Config == [trainer : {"ppo", "dapo", "entropy", "prime", "sppo"}, steps : Nat \ {0},
           prompts : Nat \ {0}, genPrompts : Nat \ {0}, samples : Nat \ {0},
           valSamples : Nat \ {0}, workers : Nat \ {0}, sp : Nat \ {0}, tp : Nat \ {0},
           estimator : AdvantageEstimator \cup {"null"}, pfPpo : BOOLEAN,
           async : BOOLEAN, toolUse : BOOLEAN, reference : BOOLEAN, kl : BOOLEAN,
           teacher : BOOLEAN, gopdRef : BOOLEAN, rewardModel : BOOLEAN,
           balance : BOOLEAN, autoPadding : BOOLEAN, warmup : Nat,
           filterGroups : BOOLEAN, maxGenBatches : Nat,
           filters : SUBSET {"accuracy", "truncate"},
           rmUpdate : {"none", "after", "before", "reverse"}]

\* _validate_config, and main_ppo, which has a reference worker for the KL
\* penalty; the asynchronous workers refuse the baseline's generate_sequences,
\* and pass@k a single sample.
ASSUME ConfigsAssumption ==
    Configs \subseteq
        {c \in Config :
            /\ (c.prompts * c.samples) % c.workers = 0
            /\ c.workers % c.sp = 0 /\ c.workers % c.tp = 0
            /\ c.toolUse /\ ~c.async => c.estimator = "GRPO"
            /\ c.estimator \in {"RSOPD", "GOPD"} => c.reference /\ ~c.kl
            /\ c.kl => c.reference
            /\ c.teacher => c.estimator \in {"RSOPD", "GOPD"}
            /\ c.gopdRef => c.estimator = "GOPD"
            /\ c.estimator = "REMAX" => ~c.async
            /\ c.estimator = "GRPO_PASSK" => c.samples > 1
            /\ c.pfPpo => c.estimator = "GAE"
            /\ c.estimator = "null" <=> c.trainer = "sppo"
            /\ c.filterGroups => c.trainer \in {"dapo", "entropy"}}
ASSUME BoundsAssumption ==
    /\ Lengths \subseteq Nat \ {0}
    /\ Scores \subseteq Nat /\ Scores # {}
    /\ Validations \in Seq(Nat \ {0}) /\ Validations # <<>>

VARIABLES
    config,
    taken,      \* batches taken from the dataloader
    step,       \* global_steps
    pc,         \* what fit does next
    gen,        \* gen_batch
    out,        \* gen_batch_output
    batch,      \* batch
    reward,     \* reward_tensor, or what future_reward comes to: the batch it
                \* is computed of is copied when the task is submitted
    actor,      \* the updates the actor's weights have had
    critic,     \* and the critic's
    table,      \* what the last validation found, a batch
    failed      \* an assertion has failed

vars == <<config, taken, step, pc, gen, out, batch, reward, actor, critic, table, failed>>

Empty == <<>>   \* no batch
UseCritic == config.estimator = "GAE"
Privileged == config.teacher \/ config.gopdRef
MultiTurn == config.toolUse /\ ~config.async

-----------------------------------------------------------------------------
(* What the workers do with their part of a batch.                           *)

\* What a tool answered is attended to; loss_mask, or the response_mask of the
\* chat scheduler, leaves it out.
Attended == IF config.toolUse THEN {"generated", "tool"} ELSE {"generated"}

\* generate_sequences: n rows for each prompt, side by side, whose lengths are
\* those of `length'.  Sample 0 is the greedy one.
Generated(part, n, first, length) ==
    LET rows == Repeat(part, n)
        answers ==
            [i \in 1 .. Rows(rows) |->
                LET prompt == rows["input_ids"][i]
                    sample == first + ((i - 1) % n)
                IN [prompt |-> prompt, sample |-> sample, by |-> actor,
                    length |-> length[<<prompt, sample>>]]]
        mask(kinds) == [i \in 1 .. Rows(rows) |-> kinds]
        attended == Put(Put(rows, "responses", answers), "attention_mask", mask(Attended))
    IN IF ~config.toolUse THEN attended
       ELSE Put(attended, IF config.async THEN "response_mask" ELSE "loss_mask", mask({"generated"}))

\* A model's answers: of the row's response, by its weights, in the row's own
\* context or in that of a privileged prompt.
Column(part, name, Of(_)) == [c \in {name} |-> [i \in 1 .. Rows(part) |-> Of(i)]]
LogProb(part) ==
    Column(part, "old_log_probs", LAMBDA i : [of |-> part["responses"][i], by |-> actor])
RefLogProb(part) ==
    Column(part, "ref_log_prob", LAMBDA i : [of |-> part["responses"][i]])
PrivilegedLogProb(part) ==
    Column(part, "ref_log_prob",
           LAMBDA i : [of |-> part["responses"][i], given |-> part["raw_prompt"][i]])
CriticValues(part) ==
    Column(part, "values", LAMBDA i : [of |-> part["responses"][i], by |-> critic])
RmScores(part) ==
    Column(part, "rm_scores", LAMBDA i : [of |-> part["responses"][i]])

-----------------------------------------------------------------------------
(* The driver, one action for each part of fit.                              *)

Call(data, autoPadding, g, Method(_)) ==
    LET argument == Argument(data, config.workers, autoPadding)
        Output(r) == Own(Method(Gathered(argument, config.workers, g, r)), g, r)
    IN Result([r \in 1 .. config.workers |-> Output(r)], argument, data)
Called(data, Method(_)) == Call(data, config.autoPadding, config.sp, Method)
Rollout(data, Method(_)) == Call(data, config.autoPadding, config.tp, Method)
Accepted(data) == CanDispatch(data, config.workers, config.autoPadding)
AsLeft(data) == Argument(data, config.workers, config.autoPadding)

Fail(here) ==
    /\ failed' = TRUE
    /\ pc' = "failed"
    /\ UNCHANGED <<config, taken, step, gen, out, reward, actor, critic, table>>

\* The answers of a worker group to `argument', joined to the batch `left'.
Join(here, there, left, argument, Method(_), old, new) ==
    /\ pc = here
    /\ IF Accepted(argument) /\ CanUnion(left, Rename(Called(argument, Method), old, new))
         THEN /\ batch' = Union(left, Rename(Called(argument, Method), old, new))
              /\ pc' = there
              /\ UNCHANGED <<config, taken, step, gen, out, reward, actor, critic, table, failed>>
         ELSE UNCHANGED batch /\ Fail(here)

Skip(here, there) ==
    /\ pc = here
    /\ pc' = there
    /\ UNCHANGED <<config, taken, step, gen, out, batch, reward, actor, critic, table, failed>>

\* A batch of the dataloader; what generation needs is popped from it.
PopBatch(popped) ==
    /\ pc = "batch"
    /\ taken' = taken + 1
    /\ LET rows == [i \in 1 .. config.genPrompts |-> taken * config.genPrompts + i] IN
         /\ gen' = [c \in popped |-> rows]
         /\ batch' = [c \in {"data_source"} |-> rows]
    /\ pc' = "generate"
    /\ UNCHANGED <<config, step, out, reward, actor, critic, table, failed>>
NextBatch == PopBatch({"input_ids", "raw_prompt"})

\* generate_sequences: of the workers, or of the chat scheduler, which takes
\* the rows as they are and keeps raw_prompt to itself.
Generate ==
    /\ pc = "generate"
    /\ \E length \in [ToSet(gen["input_ids"]) \X (1 .. config.samples) -> Lengths] :
         LET Method(part) == Generated(part, config.samples, 1, length) IN
         IF config.async
           THEN /\ out' = Without(Method(gen), {"raw_prompt"})
                /\ pc' = "assemble"
                /\ UNCHANGED <<config, taken, step, gen, batch, reward, actor, critic, table, failed>>
         ELSE IF Accepted(gen)
           THEN /\ out' = Rollout(gen, Method)
                /\ gen' = AsLeft(gen)
                /\ pc' = IF config.estimator = "REMAX" THEN "baseline" ELSE "assemble"
                /\ UNCHANGED <<config, taken, step, batch, reward, actor, critic, table, failed>>
         ELSE UNCHANGED batch /\ Fail("generate")

\* REMAX: the reward of the greedy response of each prompt.  Only the tensors
\* of that generation are popped again.
Baseline ==
    /\ pc = "baseline"
    /\ LET Method(part) == Generated(part, 1, 0, [p \in ToSet(gen["input_ids"]) \X {0} |-> 1])
           greedy == Rollout(gen, Method)
           joined == Union(batch, greedy)
       IN IF CanUnion(batch, greedy)
            THEN /\ batch' = Put(Without(joined, DOMAIN greedy \ {"raw_prompt"}),
                                 "reward_baselines",
                                 [i \in 1 .. Rows(joined) |-> [of |-> joined["responses"][i]]])
                 /\ pc' = "assemble"
                 /\ UNCHANGED <<config, taken, step, gen, out, reward, actor, critic, table, failed>>
            ELSE UNCHANGED batch /\ Fail("baseline")

\* uuid4 for every prompt, and repeat.
Repeated == Repeat(Put(batch, "uid", [i \in 1 .. Rows(batch) |-> <<taken, i>>]), config.samples)

\* Union with the answers, which is all of it in two of the recipes.
AssembleThen(there) ==
    /\ pc = "assemble"
    /\ IF CanUnion(Repeated, out)
         THEN /\ batch' = Union(Repeated, out)
              /\ pc' = there
              /\ UNCHANGED <<config, taken, step, gen, out, reward, actor, critic, table, failed>>
         ELSE UNCHANGED batch /\ Fail("assemble")

\* Union; raw_prompt for the privileged contexts; and the mask.
Assemble ==
    /\ pc = "assemble"
    /\ LET rows == Repeated
           joined == Union(rows, out)
           prompts == Repeat(Columns(gen, {"raw_prompt"}), config.samples)
       IN IF CanUnion(rows, out) /\ (Privileged => Rows(prompts) = Rows(joined))
            THEN /\ batch' = LET asked == IF Privileged THEN Union(joined, prompts) ELSE joined
                             IN Put(asked, "response_mask", asked["attention_mask"])
                 /\ pc' = "balance"
                 /\ UNCHANGED <<config, taken, step, gen, out, reward, actor, critic, table, failed>>
            ELSE UNCHANGED batch /\ Fail("assemble")

\* _balance_batch: the rows of a rank, one rank after the other; as many for
\* every rank, which karmarkar_karp asserts.
FaultBalanceBatch(lengths) ==
    LET sorted == Shortest(lengths)
        size == Len(lengths) \div config.workers
    IN [r \in 1 .. config.workers |-> [i \in 1 .. size |-> sorted[(r - 1) * size + i]]]
BalanceBatch(lengths) == BalancedPartitions(lengths, config.workers, TRUE)
BalanceThen(there) ==
    /\ pc = "balance"
    /\ config.balance
    /\ IF Rows(batch) % config.workers = 0
         THEN /\ LET lengths == [i \in 1 .. Rows(batch) |-> batch["responses"][i].length]
                     order == FlattenSeq(BalanceBatch(lengths))
                 IN batch' = Take(batch, order)
              /\ pc' = there
              /\ UNCHANGED <<config, taken, step, gen, out, reward, actor, critic, table, failed>>
         ELSE UNCHANGED batch /\ Fail("balance")
BalanceOrSkip(there) == BalanceThen(there) \/ (~config.balance /\ Skip("balance", there))
Balance == BalanceOrSkip("reward")

\* compute_rm_score, and the reward function or the task that runs it.
RewardModel ==
    IF config.rewardModel
      THEN Join("reward", "score", AsLeft(batch), batch, RmScores, "rm_scores", "rm_scores")
      ELSE Skip("reward", "score")
Score ==
    /\ pc = "score"
    /\ reward' = [i \in 1 .. Rows(batch) |-> [of |-> batch["responses"][i]]]
    /\ pc' = "old_log_prob"
    /\ UNCHANGED <<config, taken, step, gen, out, batch, actor, critic, table, failed>>

OldLogProb ==
    Join("old_log_prob", "ref", AsLeft(batch), batch, LogProb, "old_log_probs", "old_log_probs")

ReferenceThen(there) ==
    IF config.reference
      THEN Join("ref", there, AsLeft(batch), batch, RefLogProb, "ref_log_prob", "ref_log_prob")
      ELSE Skip("ref", there)
Reference == ReferenceThen("teacher")

\* The minimal batch of _build_privileged_log_prob_data.
PrivilegedBatch == Columns(batch, {"responses", "raw_prompt"})

Teacher ==
    IF config.teacher
      THEN Join("teacher", "gopd_ref", batch, PrivilegedBatch, PrivilegedLogProb,
                "ref_log_prob", "teacher_log_prob")
      ELSE Skip("teacher", "gopd_ref")

GopdReference ==
    CASE config.gopdRef ->
            Join("gopd_ref", "values", batch, PrivilegedBatch, PrivilegedLogProb,
                 "ref_log_prob", "gopd_ref_log_prob")
      [] config.estimator = "GOPD" /\ ~config.gopdRef ->
            Join("gopd_ref", "values", AsLeft(batch), batch, RefLogProb,
                 "ref_log_prob", "gopd_ref_log_prob")
      [] OTHER -> Skip("gopd_ref", "values")

Values ==
    IF UseCritic
      THEN Join("values", "adv", AsLeft(batch), batch, CriticValues, "values", "values")
      ELSE Skip("values", "adv")

\* What a row's reward is of, with the KL penalty; and the other answers that
\* compute_advantage reads.
Rewards(data, i) ==
    {data["token_level_scores"][i]} \cup (IF config.kl THEN {data["ref_log_prob"][i]} ELSE {})
TeacherLogProb(data, i) ==
    IF "teacher_log_prob" \in DOMAIN data THEN data["teacher_log_prob"][i] ELSE data["ref_log_prob"][i]

\* The rows of row i's prompt: id2score, and the like.
FaultGroup(data, i) ==
    {j \in 1 .. Rows(data) : (j - 1) \div config.samples = (i - 1) \div config.samples}
Group(data, i) == {j \in 1 .. Rows(data) : data["uid"][j] = data["uid"][i]}
GroupRewards(data, i) == UNION {Rewards(data, j) : j \in Group(data, i)}

\* The estimators: what an advantage is made of.  The whitening of some of them
\* by statistics of the whole batch, and G-OPD's lambda, are left out.
Gae(data, i) == Rewards(data, i) \cup {data["values"][i]}
Grpo(data, i) == GroupRewards(data, i)
ReinforcePlusPlusBaseline(data, i) == GroupRewards(data, i)
ReinforcePlusPlus(data, i) == Rewards(data, i)
Rloo(data, i) == GroupRewards(data, i)
Opo(data, i) == GroupRewards(data, i) \cup {[of |-> data["responses"][j]] : j \in Group(data, i)}
Remax(data, i) == Rewards(data, i) \cup {data["reward_baselines"][i]}
Rsopd(data, i) == {data["old_log_probs"][i], TeacherLogProb(data, i)}
Gopd(data, i) == Rsopd(data, i) \cup {data["gopd_ref_log_prob"][i]}

\* Pass@k: only the best of a group, in `best', has an advantage.
Best(data) == {best \in SUBSET (1 .. Rows(data)) :
                  \A i \in 1 .. Rows(data) : Cardinality(best \cap Group(data, i)) = 1}
GrpoPassK(data, i, best) == IF i \in best THEN GroupRewards(data, i) ELSE {}

Advantage(data, i, best) ==
    CASE config.estimator = "GAE" -> Gae(data, i)
      [] config.estimator = "GRPO" -> Grpo(data, i)
      [] config.estimator = "GRPO_PASSK" -> GrpoPassK(data, i, best)
      [] config.estimator = "REINFORCE_PLUS_PLUS" -> ReinforcePlusPlus(data, i)
      [] config.estimator = "REINFORCE_PLUS_PLUS_BASELINE" -> ReinforcePlusPlusBaseline(data, i)
      [] config.estimator = "RLOO" -> Rloo(data, i)
      [] config.estimator = "OPO" -> Opo(data, i)
      [] config.estimator = "REMAX" -> Remax(data, i)
      [] config.estimator = "RSOPD" -> Rsopd(data, i)
      [] config.estimator = "GOPD" -> Gopd(data, i)

\* compute_pf_ppo_reweight_data: as many rows, drawn with replacement; every
\* weight is positive.
Reweighted(data) ==
    IF config.pfPpo THEN {Take(data, index) : index \in [1 .. Rows(data) -> 1 .. Rows(data)]}
    ELSE {data}

WithAdvantages(data) ==
    UNION {Reweighted(Put(data, "advantages", [i \in 1 .. Rows(data) |-> Advantage(data, i, best)])) :
              best \in IF config.estimator = "GRPO_PASSK" THEN Best(data) ELSE {{}}}

\* critic_warmup: the actor learns from that step on.
Warm == IF config.warmup <= step THEN "update_actor" ELSE "test"

\* The scores are put in their column, and the advantages.
ComputeAdvantage ==
    /\ pc = "adv"
    /\ batch' \in LET asked == IF Privileged THEN {"raw_prompt"} ELSE {}
                  IN WithAdvantages(Put(Without(batch, asked), "token_level_scores", reward))
    /\ pc' = IF UseCritic THEN "update_critic" ELSE Warm
    /\ UNCHANGED <<config, taken, step, gen, out, reward, actor, critic, table, failed>>

UpdateCritic ==
    /\ pc = "update_critic"
    /\ critic' = critic + 1
    /\ pc' = Warm
    /\ UNCHANGED <<config, taken, step, gen, out, batch, reward, actor, table, failed>>

\* The tokens update_policy takes the loss over.
FaultLossMask(data, i) == data["attention_mask"][i]
LossMask(data, i) == IF MultiTurn THEN data["loss_mask"][i] ELSE data["attention_mask"][i]

UpdateActor ==
    /\ pc = "update_actor"
    /\ actor' = actor + 1
    /\ pc' = "test"
    /\ UNCHANGED <<config, taken, step, gen, out, batch, reward, critic, table, failed>>

-----------------------------------------------------------------------------
(* _validate: each batch of its dataloader is padded for the workers, and    *)
(* what they generate for the padding is cut off again.                      *)

\* The prompts of the first n of them.
Loaded(n) == MapThenSumSet(LAMBDA b : Validations[b], 1 .. n)

Validated(n) ==
    LET prompts == [c \in {"data_source", "input_ids"} |->
                       [i \in 1 .. Validations[n] |-> Loaded(n - 1) + i]]
        data == Repeat(prompts, config.valSamples)
        rows == data["input_ids"]
        test == Columns(data, {"data_source"})
        padded == Padded(Columns(data, {"input_ids"}), config.workers)
        Method(part) == Generated(part, 1, 1, [p \in ToSet(rows) \X {1} |-> 1])
        answers == IF config.async THEN Method(padded)
                   ELSE Call(padded, FALSE, config.tp, Method)
        joined == Union(test, Unpad(answers, PadSize(Len(rows), config.workers)))
    IN Put(Put(Columns(joined, {"data_source", "responses"}), "sample_inputs", rows), "sample_scores",
           [i \in 1 .. Rows(joined) |-> [of |-> joined["responses"][i]]])

ValidateThen(here, there) ==
    /\ pc = here
    /\ table' = Concat([n \in DOMAIN Validations |-> Validated(n)])
    /\ pc' = there
    /\ UNCHANGED <<config, taken, step, gen, out, batch, reward, actor, critic, failed>>
Validate == ValidateThen("first", "batch") \/ ValidateThen("test", "end")

\* The batch is given up with its turn of the loop; in the last step the loop
\* is left.
GiveUpBatch ==
    /\ pc \in {"test", "end"}
    /\ gen' = Empty /\ out' = Empty /\ batch' = Empty /\ reward' = Empty /\ table' = Empty
    /\ UNCHANGED <<config, taken, actor, critic, failed>>
EndStep ==
    /\ step < config.steps
    /\ step' = step + 1
    /\ pc' = "batch"
    /\ GiveUpBatch

-----------------------------------------------------------------------------

Init ==
    /\ config \in Configs
    /\ taken = 0 /\ step = 1
    /\ pc \in {"first", "batch"}
    /\ gen = Empty /\ out = Empty /\ batch = Empty /\ reward = Empty /\ table = Empty
    /\ actor = 0 /\ critic = 0
    /\ failed = FALSE

Next ==
    \/ NextBatch \/ Generate \/ Baseline \/ Assemble
    \/ Balance \/ RewardModel \/ Score \/ OldLogProb \/ Reference \/ Teacher \/ GopdReference
    \/ Values \/ ComputeAdvantage \/ UpdateCritic \/ UpdateActor
    \/ Validate \/ EndStep

Spec == Init /\ [][Next]_vars

-----------------------------------------------------------------------------
(* Properties. *)

Learning == pc \in {"update_critic", "update_actor"}
RowsOf(data) == 1 .. Rows(data)
Prompts == IF config.filterGroups \/ config.trainer = "prime" THEN config.prompts ELSE config.genPrompts

\* No union, split or length the driver asserts about its batches ever fails:
\* of the columns left over from the baseline, of those named alike by several
\* models, and of batches the workers do not divide evenly.
NoAssertionFails == ~failed

\* After repeating, joining, filtering, balancing and splitting, all a row holds
\* is about one response of one prompt; the batch is as many prompts as the step
\* is to be of, each with all its responses, once; and the actor that learns
\* from them is still the one that generated them and gave their old log-probs.
RowsAligned ==
    Learning =>
        /\ Rows(batch) = Prompts * config.samples
        /\ config.pfPpo \/ {<<r.prompt, r.sample>> : r \in ToSet(batch["responses"])} =
              {r.prompt : r \in ToSet(batch["responses"])} \X (1 .. config.samples)
        /\ config.pfPpo \/ IsInjective(batch["responses"])
        /\ \A i \in RowsOf(batch) :
             LET response == batch["responses"][i] IN
             /\ batch["data_source"][i] = response.prompt
             /\ response.by = actor /\ batch["old_log_probs"][i].by = actor
             /\ \A c \in DOMAIN batch \cap {"token_level_scores", "rm_scores", "old_log_probs",
                     "ref_log_prob", "teacher_log_prob", "gopd_ref_log_prob", "values", "acc"} :
                  batch[c][i].of = response
             /\ config.teacher => batch["teacher_log_prob"][i].given = response.prompt
             /\ config.gopdRef => batch["gopd_ref_log_prob"][i].given = response.prompt

\* An advantage is of the rewards and models' answers its estimator is defined
\* by: those of the row's own response, of all the responses to its prompt (for
\* pass@k in one row of a prompt), of all in the batch (SPPO), or with the greedy
\* response (REMAX); and PRIME's reward model compares a row with its prompt's.
AdvantageOfItsGroup ==
    Learning => \A i \in RowsOf(batch) :
        LET response == batch["responses"][i]
            siblings == {j \in RowsOf(batch) : batch["responses"][j].prompt = response.prompt}
            own == {batch["responses"][j] : j \in siblings}
            of == {e.of : e \in batch[IF config.trainer = "sppo" THEN "seq_level_rewards" ELSE "advantages"][i]}
        IN /\ \A c \in DOMAIN batch \cap {"Q_bc", "acc_bc"} : {e.of : e \in ToSet(batch[c][i])} = own
           /\ CASE config.estimator \in {"GRPO", "REINFORCE_PLUS_PLUS_BASELINE", "RLOO", "OPO"} ->
                  of = own /\ Cardinality(own) = config.samples
             [] config.estimator = "GRPO_PASSK" ->
                  /\ of \in {{}, own} /\ Cardinality(own) = config.samples
                  /\ Cardinality({j \in siblings : batch["advantages"][j] # {}}) = 1
             [] config.estimator = "REMAX" ->
                  \E r \in of : /\ r.prompt = response.prompt /\ r.sample = 0 /\ r.by = response.by
                                /\ of = {r, response}
             [] config.trainer = "sppo" -> of = ToSet(batch["responses"])
             [] OTHER -> of = {response}

\* "each dp rank gets similar total tokens": no two ranks differ by more than
\* the longest sequence and the shortest (unless pf_ppo resamples them after).
RanksBalanced ==
    Learning /\ config.balance /\ ~config.pfPpo =>
        LET lengths == [i \in RowsOf(batch) |-> batch["responses"][i].length]
            tokens(r) ==
                LET part == Part(batch, config.workers, r)
                    own == [i \in RowsOf(part) |-> part["responses"][i].length]
                IN TotalLength(own, [i \in DOMAIN own |-> i])
        IN \A r, q \in 1 .. config.workers :
             tokens(r) - tokens(q) <= Max(ToSet(lengths)) - Min(ToSet(lengths))

\* Whatever padding the workers needed, each validation sample is scored once,
\* on its own response and under its own data source.
ValidationAligned ==
    table # Empty =>
        /\ table["sample_inputs"] =
              [i \in 1 .. Loaded(Len(Validations)) * config.valSamples |->
                  1 + ((i - 1) \div config.valSamples)]
        /\ \A i \in RowsOf(table) :
             /\ table["responses"][i].prompt = table["sample_inputs"][i]
             /\ table["data_source"][i] = table["sample_inputs"][i]
             /\ table["sample_scores"][i].of = table["responses"][i]

\* The actor learns from generated tokens only, whoever ran the tools: what they
\* answered is left out by loss_mask in the one case, and by the chat scheduler's
\* response_mask, "with tools calling masked out", in the other.
OnlyGeneratedTrained ==
    pc = "update_actor" => \A i \in RowsOf(batch) : LossMask(batch, i) = {"generated"}
=============================================================================
