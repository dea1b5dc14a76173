---------------------------- MODULE MCTrainingStep ----------------------------
(* The trainers for TLC: every estimator with its models, sizes the workers  *)
(* divide, groups of two and four workers that share a sequence or an        *)
(* engine, validation batches the workers do not divide, dynamic sampling    *)
(* of batches smaller than, as large as and larger than the step's, and      *)
(* every way PRIME has of training its reward model.                         *)
EXTENDS Trainers

Size(prompts, samples, workers) == <<prompts, samples, workers>>

Job(size, estimator, async, toolUse, reference, teacher, gopdRef, balance) ==
    [trainer |-> "ppo", steps |-> 2,
     prompts |-> size[1], genPrompts |-> size[1], samples |-> size[2], workers |-> size[3], sp |-> 1, tp |-> 1,
     valSamples |-> 3 - size[2], estimator |-> estimator, pfPpo |-> FALSE,
     async |-> async, toolUse |-> toolUse,
     reference |-> reference, kl |-> reference /\ estimator \notin {"RSOPD", "GOPD"},
     teacher |-> teacher, gopdRef |-> gopdRef, rewardModel |-> ~async,
     balance |-> balance, autoPadding |-> FALSE, warmup |-> IF estimator = "GAE" THEN 2 ELSE 0,
     filterGroups |-> FALSE, maxGenBatches |-> 0, filters |-> {}, rmUpdate |-> "none"]

Dapo(size, genPrompts, estimator, reference, filterGroups, maxGenBatches) ==
    [Job(size, estimator, FALSE, FALSE, reference, FALSE, FALSE, TRUE) EXCEPT
        !.genPrompts = genPrompts, !.kl = FALSE, !.trainer = "dapo",
        !.filterGroups = filterGroups, !.maxGenBatches = maxGenBatches]

\* Three steps, of which PRIME's loop trains two.  Rows are reordered by length
\* only where there is one worker, and nothing to reorder.
Prime(size, genPrompts, reference, rmUpdate) ==
    [Job(size, "RLOO", FALSE, FALSE, reference, FALSE, FALSE, size[3] = 1) EXCEPT
        !.genPrompts = genPrompts, !.kl = FALSE, !.trainer = "prime", !.steps = 3,
        !.filters = {"accuracy", "truncate"}, !.rmUpdate = rmUpdate]

Sppo(size, async, reference, steps) ==
    [Job(size, "null", async, FALSE, reference, FALSE, FALSE, TRUE) EXCEPT
        !.trainer = "sppo", !.steps = steps]

ConfigsDef ==
    {Job(size, estimator, FALSE, FALSE, TRUE, FALSE, FALSE, TRUE) :
        size \in {Size(2, 2, 2), Size(3, 1, 3)}, estimator \in {"GAE", "GRPO", "REMAX"}}
    \cup {Job(Size(2, 2, 2), estimator, FALSE, FALSE, FALSE, FALSE, FALSE, TRUE) :
            estimator \in {"GRPO_PASSK", "REINFORCE_PLUS_PLUS", "REINFORCE_PLUS_PLUS_BASELINE", "RLOO", "OPO"}}
    \cup {[Job(Size(2, 1, 2), "GAE", FALSE, FALSE, FALSE, FALSE, FALSE, TRUE) EXCEPT !.pfPpo = TRUE]}
    \cup {Job(Size(2, 2, 2), "GRPO", FALSE, TRUE, FALSE, FALSE, FALSE, balance) : balance \in BOOLEAN}
    \cup {Job(Size(3, 2, 2), estimator, TRUE, FALSE, FALSE, FALSE, FALSE, TRUE) : estimator \in {"GAE", "GRPO"}}
    \cup {Job(Size(2, 2, 2), "RSOPD", async, FALSE, TRUE, teacher, FALSE, TRUE) :
            async, teacher \in BOOLEAN}
    \cup {Job(Size(2, 2, 2), "GOPD", FALSE, FALSE, TRUE, teacher, gopdRef, TRUE) :
            teacher, gopdRef \in BOOLEAN}
    \cup {Dapo(Size(2, 2, 1), 1, "GRPO", FALSE, TRUE, 3),
          Dapo(Size(1, 2, 2), 2, "REMAX", FALSE, TRUE, 0),
          Dapo(Size(2, 1, 1), 1, "RLOO", TRUE, TRUE, 0),
          Dapo(Size(2, 2, 2), 2, "RSOPD", TRUE, FALSE, 0)}
    \cup {[Dapo(Size(1, 2, 1), 1, "GRPO", TRUE, filterGroups, 2) EXCEPT !.trainer = "entropy"] :
            filterGroups \in BOOLEAN}
    \cup {Prime(Size(1, 2, 1), 2, TRUE, rmUpdate) : rmUpdate \in {"none", "after", "before", "reverse"}}
    \cup {Prime(Size(2, 2, 2), 2, FALSE, "reverse"),
          [Prime(Size(1, 2, 1), 2, FALSE, "none") EXCEPT !.rewardModel = FALSE]}
    \cup {Sppo(Size(2, 2, 2), FALSE, TRUE, 2), Sppo(Size(3, 1, 3), TRUE, FALSE, 4)}
    \cup {[Job(Size(4, 1, 4), "GAE", FALSE, FALSE, FALSE, FALSE, FALSE, TRUE) EXCEPT !.sp = 2, !.tp = 4],
          [Job(Size(4, 1, 4), "GRPO", FALSE, FALSE, FALSE, FALSE, FALSE, TRUE) EXCEPT !.sp = 4, !.tp = 2]}

\* Tools called by the chat scheduler.
ToolsDef == {Job(Size(2, 2, 2), "GRPO", TRUE, TRUE, FALSE, FALSE, FALSE, balance) : balance \in BOOLEAN}

\* Dynamic sampling without an upper limit.
EndlessDef == {Dapo(Size(2, 2, 1), 1, "GRPO", FALSE, TRUE, 0)}

\* PRIME with the balancing that the other trainers do by default.
PrimeBalancedDef == {[Prime(Size(2, 2, 2), 2, FALSE, "none") EXCEPT !.balance = TRUE]}

\* SPPO's steps.
SppoStepsDef == {Sppo(Size(2, 1, 2), FALSE, FALSE, 2)}

ValidationsDef == <<3, 1>>
=============================================================================
