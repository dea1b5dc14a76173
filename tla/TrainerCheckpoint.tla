-------------------------- MODULE TrainerCheckpoint --------------------------
(***************************************************************************)
(* The training loop of RayPPOTrainer.fit as far as checkpoints go: which  *)
(* steps are validated and saved, what _save_checkpoint does to the disk   *)
(* and in which order, the rotation of FSDPCheckpointManager, the          *)
(* retention of _prune_checkpoints, the tracker file, and what a job that  *)
(* is launched again reads back (_load_checkpoint).  The job may be killed *)
(* between any two operations on the disk and in the middle of one.        *)
(*   verl/trainer/ppo/ray_trainer.py                                       *)
(*   verl/utils/checkpoint/fsdp_checkpoint_manager.py                      *)
(*   verl/utils/checkpoint/checkpoint_manager.py                           *)
(*                                                                         *)
(* `pc' is the operation the job does next:                                *)
(*   "step"     one iteration of the loop up to the decision to save       *)
(*   "rotate_actor", "actor", "rotate_critic", "critic", "data"            *)
(*   "prune"    _prune_checkpoints chooses what to keep                    *)
(*   "remove"   _prune_checkpoints removes the rest                        *)
(*   "open", "write"   the tracker file is truncated, then written         *)
(*   "advance"  the end of the iteration                                   *)
(*                                                                         *)
(* A definition commented "Fault" is the definition after it with a        *)
(* plausible mistake; no action uses it.                                   *)
(***************************************************************************)
EXTENDS Integers, SequencesExt

CONSTANTS
    TotalSteps,     \* total_training_steps
    SaveFreq,       \* trainer.save_freq
    TestFreq,       \* trainer.test_freq
    SaveBest,       \* trainer.save_best_checkpoint
    MaxActor,       \* trainer.max_actor_ckpt_to_keep, 0 for null
    MaxCritic,      \* trainer.max_critic_ckpt_to_keep, 0 for null
    UseCritic,      \* use_critic
    Scores,         \* validation scores, naturals
    ResumeModes,    \* values of trainer.resume_mode the launches use
    MaxLaunches     \* bound: launches of the job, the first one included

ASSUME FrequencyAssumption == TotalSteps \in Nat \ {0} /\ SaveFreq \in Int /\ TestFreq \in Int
ASSUME RetentionAssumption ==
    SaveBest \in BOOLEAN /\ UseCritic \in BOOLEAN /\ MaxActor \in Nat /\ MaxCritic \in Nat
ASSUME ScoresAssumption == Scores \subseteq Nat /\ Scores # {}
ASSUME LaunchAssumption ==
    ResumeModes \subseteq {"auto", "disable", "resume_path"} /\ MaxLaunches \in Nat

VARIABLES
    status,     \* of the job: "down", "training", "finished" or "stuck"
    pc,         \* the next operation of a job that is training
    step,       \* global_steps
    position,   \* batches the dataloader has handed out
    best,       \* best_val_score and best_val_step
    score,      \* the validation score of this step, NoScore without one
    rotation,   \* previous_saved_paths of the actor's and the critic's manager
    kept,       \* kept_steps, {} for None
    garbage,    \* the remove_steps not yet removed
    dirs,       \* the global_step_N directories on disk
    tracker,    \* latest_checkpointed_iteration.txt
    launches    \* launches so far

jobVars == <<pc, step, position, best, score, rotation, kept, garbage>>
vars == <<status, jobVars, dirs, tracker, launches>>

NoScore == -1
NoStep == 0
NoTracker == -1     \* the file does not exist
Torn == -2          \* the file is empty

Roles == {"actor", "critic"}
Parts == Roles \cup {"data"}
PartState == {"absent", "partial", "complete"}

(* A checkpoint directory: what is there of its parts, the position of the *)
(* dataloader in data.pt and the validation score of the model.            *)
Directory == [part: [Parts -> PartState], at: Nat, score: Scores \cup {NoScore}]
EmptyDirectory == [part |-> [p \in Parts |-> "absent"], at |-> 0, score |-> NoScore]

(* Part p of checkpoint s becomes st; the directory is made if need be.    *)
WithPart(ds, s, p, st) ==
    [d \in DOMAIN ds \cup {s} |->
        IF d # s THEN ds[d]
        ELSE [(IF s \in DOMAIN ds THEN ds[s] ELSE EmptyDirectory) EXCEPT !.part[p] = st]]

(* remove_previous_save_local_path: part p of checkpoint s goes, unless    *)
(* _prune_checkpoints has already removed the checkpoint.                  *)
WithoutPart(ds, s, p) == IF s \in DOMAIN ds THEN WithPart(ds, s, p, "absent") ELSE ds

Without(ds, S) == [d \in DOMAIN ds \ S |-> ds[d]]

-----------------------------------------------------------------------------
(* The decisions of one iteration.                                         *)

IsLastStep == step >= TotalSteps
Due(freq) == freq > 0 /\ step % freq = 0
Validates == TestFreq > 0 /\ (IsLastStep \/ Due(TestFreq))

ShouldSave(improved) ==
    IF SaveBest THEN improved \/ Due(SaveFreq) \/ IsLastStep
                ELSE SaveFreq > 0 /\ (Due(SaveFreq) \/ IsLastStep)

(* Best mode leaves the actor's directories to _prune_checkpoints; the     *)
(* critic's are rotated in both modes.                                     *)
RotationLimit(role) ==
    IF role = "critic" THEN MaxCritic ELSE IF SaveBest THEN 0 ELSE MaxActor

(* Fault: the oldest checkpoint goes one save too early.                   *)
RotationFullEarly(role) ==
    RotationLimit(role) > 0 /\ Len(rotation[role]) > 0
        /\ Len(rotation[role]) + 1 >= RotationLimit(role)
RotationFull(role) ==
    RotationLimit(role) > 0 /\ Len(rotation[role]) >= RotationLimit(role)

(* The retention priority of _prune_checkpoints.                           *)
Newest(S, n) == {s \in S : Cardinality({t \in S : t > s}) < n}
(* Fault: the best has no priority.                                        *)
KeepNewest == Newest(DOMAIN dirs, MaxActor)

Keep ==
    LET S == DOMAIN dirs
        first == IF best.step \in S THEN {best.step} ELSE {}
        second == IF Cardinality(first) < MaxActor /\ step \in S
                  THEN first \cup {step} ELSE first
    IN  IF Cardinality(S) <= MaxActor THEN S
        ELSE second \cup Newest(S \ second, MaxActor - Cardinality(second))

Prunes == SaveBest /\ MaxActor > 0

At(p) == status = "training" /\ pc = p

-----------------------------------------------------------------------------
Init ==
    /\ status = "down"
    /\ pc = "step"
    /\ step = 0
    /\ position = 0
    /\ best = [score |-> NoScore, step |-> NoStep]
    /\ score = NoScore
    /\ rotation = [r \in Roles |-> <<>>]
    /\ kept = {}
    /\ garbage = {}
    /\ dirs = [s \in {} |-> EmptyDirectory]
    /\ tracker = NoTracker
    /\ launches = 0

(* One iteration of fit up to the save: the batch is trained on, the step  *)
(* validated if it is due, with score sc.                                  *)
TrainStep(sc) ==
    /\ At("step")
    /\ sc = NoScore <=> ~Validates
    /\ position' = position + 1
    /\ score' = sc
    /\ LET improved == SaveBest /\ sc > best.score
       IN  /\ best' = IF improved THEN [score |-> sc, step |-> step] ELSE best
           /\ pc' = IF ShouldSave(improved) THEN "rotate_actor" ELSE "advance"
    /\ UNCHANGED <<status, step, rotation, kept, garbage, dirs, tracker, launches>>

(* FSDPCheckpointManager.save_checkpoint, first half: the oldest directory *)
(* it wrote goes before the new one is written.                            *)
Rotate(role) ==
    /\ At(IF role = "actor" THEN "rotate_actor" ELSE "rotate_critic")
    /\ IF RotationFull(role)
       THEN /\ dirs' = WithoutPart(dirs, Head(rotation[role]), role)
            /\ rotation' = [rotation EXCEPT ![role] = Tail(@)]
       ELSE UNCHANGED <<dirs, rotation>>
    /\ pc' = role
    /\ UNCHANGED <<status, step, position, best, score, kept, garbage, tracker, launches>>

(* Fault: the critic is not saved.                                         *)
WriteShardsOfActor(role) ==
    /\ At(role)
    /\ dirs' = [WithPart(dirs, step, role, "complete") EXCEPT ![step].score = score]
    /\ rotation' = [rotation EXCEPT ![role] = Append(@, step)]
    /\ pc' = "data"
    /\ UNCHANGED <<status, step, position, best, score, kept, garbage, tracker, launches>>

(* Second half: the shards of every rank are written.                      *)
WriteShards(role) ==
    /\ At(role)
    /\ dirs' = [WithPart(dirs, step, role, "complete") EXCEPT ![step].score = score]
    /\ rotation' = [rotation EXCEPT ![role] = Append(@, step)]
    /\ pc' = IF role = "actor" /\ UseCritic THEN "rotate_critic" ELSE "data"
    /\ UNCHANGED <<status, step, position, best, score, kept, garbage, tracker, launches>>

(* torch.save of the dataloader's state.                                   *)
WriteData ==
    /\ At("data")
    /\ dirs' = [WithPart(dirs, step, "data", "complete") EXCEPT ![step].at = position]
    /\ pc' = IF Prunes THEN "prune" ELSE "open"
    /\ UNCHANGED <<status, step, position, best, score, rotation, kept, garbage, tracker, launches>>

Prune ==
    /\ At("prune")
    /\ kept' = Keep
    /\ garbage' = DOMAIN dirs \ Keep
    /\ pc' = "remove"
    /\ UNCHANGED <<status, step, position, best, score, rotation, dirs, tracker, launches>>

(* shutil.rmtree of the directories not kept, in ascending order.          *)
RemoveDirectory ==
    /\ At("remove")
    /\ IF garbage = {}
       THEN pc' = "open" /\ UNCHANGED <<garbage, dirs>>
       ELSE /\ dirs' = Without(dirs, {Min(garbage)})
            /\ garbage' = garbage \ {Min(garbage)}
            /\ UNCHANGED pc
    /\ UNCHANGED <<status, step, position, best, score, rotation, kept, tracker, launches>>

(* open(tracker, "w") empties the file.                                    *)
OpenTracker ==
    /\ At("open")
    /\ tracker' = Torn
    /\ pc' = "write"
    /\ UNCHANGED <<status, step, position, best, score, rotation, kept, garbage, dirs, launches>>

(* Fault: the step was advanced before the file is written.                *)
WriteTrackerAhead ==
    /\ At("write")
    /\ tracker' = step + 1
    /\ kept' = {}
    /\ pc' = "advance"
    /\ UNCHANGED <<status, step, position, best, score, rotation, garbage, dirs, launches>>

(* The file is written and closed: latest_retained_step.                   *)
WriteTracker ==
    /\ At("write")
    /\ tracker' = IF kept # {} THEN Max(kept) ELSE step
    /\ kept' = {}
    /\ pc' = "advance"
    /\ UNCHANGED <<status, step, position, best, score, rotation, garbage, dirs, launches>>

Advance ==
    /\ At("advance")
    /\ IF IsLastStep THEN status' = "finished" /\ UNCHANGED <<pc, step>>
                     ELSE pc' = "step" /\ step' = step + 1 /\ UNCHANGED status
    /\ score' = NoScore
    /\ UNCHANGED <<position, best, rotation, kept, garbage, dirs, tracker, launches>>

-----------------------------------------------------------------------------
(* What the operation the job is at may leave behind when it is cut short. *)
TornRotation(role) ==
    IF RotationFull(role) /\ Head(rotation[role]) \in DOMAIN dirs
    THEN {WithPart(dirs, Head(rotation[role]), role, "partial")} ELSE {}

TornRemoval ==
    IF garbage = {} THEN {}
    ELSE LET s == Min(garbage)
         IN  {[dirs EXCEPT ![s].part = left] :
                left \in {f \in [Parts -> PartState] :
                            \A p \in Parts : f[p] \in {dirs[s].part[p], "partial", "absent"}}}

TornDisk ==
    CASE pc = "rotate_actor" -> TornRotation("actor")
      [] pc = "rotate_critic" -> TornRotation("critic")
      [] pc \in Parts -> {WithPart(dirs, step, pc, "partial")}
      [] pc = "remove" -> TornRemoval
      [] OTHER -> {}

(* The job is killed: by a failure of a worker or a node, or by its        *)
(* scheduler.                                                              *)
Crash ==
    /\ status = "training"
    /\ launches < MaxLaunches
    /\ status' = "down"
    /\ dirs' \in {dirs} \cup TornDisk
    /\ UNCHANGED <<jobVars, tracker, launches>>

-----------------------------------------------------------------------------
(* A launch begins with an empty process: fit and the constructors of the  *)
(* checkpoint managers reset everything that is not on disk.               *)
StartAfter(s, p) ==
    /\ status' = "training"
    /\ pc' = "step"
    /\ step' = s + 1
    /\ position' = p
    /\ best' = [score |-> NoScore, step |-> NoStep]
    /\ score' = NoScore
    /\ rotation' = [r \in Roles |-> <<>>]
    /\ kept' = {}
    /\ garbage' = {}

(* _load_checkpoint raises: the launch fails, and so would the next.       *)
Fail == status' = "stuck" /\ UNCHANGED jobVars

Loads(s) ==
    /\ dirs[s].part["actor"] = "complete"
    /\ UseCritic => dirs[s].part["critic"] = "complete"
    /\ dirs[s].part["data"] # "partial"

(* Fault: the dataloader starts afresh.                                    *)
LoadFromModelOnly(s) == IF Loads(s) THEN StartAfter(s, 0) ELSE Fail
LoadFrom(s) ==
    IF Loads(s)
    THEN StartAfter(s, IF dirs[s].part["data"] = "complete" THEN dirs[s].at ELSE 0)
    ELSE Fail

(* resume_mode=auto: find_latest_ckpt_path, or from scratch.               *)
ResumeAuto ==
    IF tracker = Torn THEN Fail
    ELSE IF tracker \in DOMAIN dirs THEN LoadFrom(tracker)
    ELSE StartAfter(0, 0)

(* resume_mode=resume_path: the tracker is read all the same.              *)
ResumePath(s) == IF tracker = Torn THEN Fail ELSE LoadFrom(s)

Launch(mode) ==
    /\ status \in {"down", "finished"}
    /\ launches < MaxLaunches
    /\ launches' = launches + 1
    /\ CASE mode = "auto" -> ResumeAuto
         [] mode = "disable" -> StartAfter(0, 0)
         [] mode = "resume_path" -> \E s \in DOMAIN dirs : Loads(s) /\ ResumePath(s)
    /\ UNCHANGED <<dirs, tracker>>

Work ==
    \/ \E sc \in Scores \cup {NoScore} : TrainStep(sc)
    \/ \E role \in Roles : Rotate(role) \/ WriteShards(role)
    \/ WriteData \/ Prune \/ RemoveDirectory \/ OpenTracker \/ WriteTracker \/ Advance

Next == Work \/ Crash \/ \E mode \in ResumeModes : Launch(mode)

Spec == Init /\ [][Next]_vars

(* The job does not stop by itself, and a job that is down is launched     *)
(* again.                                                                  *)
FairSpec ==
    /\ Spec
    /\ WF_vars(Work)
    /\ WF_vars(status = "down" /\ \E mode \in ResumeModes : Launch(mode))

-----------------------------------------------------------------------------
Steps == Nat \ {0}

TypeOK ==
    /\ status \in {"down", "training", "finished", "stuck"}
    /\ pc \in {"step", "rotate_actor", "actor", "rotate_critic", "critic", "data",
               "prune", "remove", "open", "write", "advance"}
    /\ step \in Nat /\ position \in Nat /\ launches \in Nat
    /\ best \in [score: Scores \cup {NoScore}, step: Nat]
    /\ score \in Scores \cup {NoScore}
    /\ rotation \in [Roles -> Seq(Steps)]
    /\ kept \subseteq Steps /\ garbage \subseteq DOMAIN dirs
    /\ DOMAIN dirs \subseteq Steps
    /\ \A s \in DOMAIN dirs : dirs[s] \in Directory
    /\ tracker \in Steps \cup {NoTracker, Torn}

(* A tracker that names a step names a directory that a launch can load,   *)
(* whatever the trainer was doing when it died.                            *)
TrackerLoadable == tracker \in Steps => tracker \in DOMAIN dirs /\ Loads(tracker)

(* A launch fails only on a tracker file that was cut short.               *)
StuckOnlyIfTorn == status = "stuck" => tracker = Torn

(* The dataloader is where the model is: step n trains on batch n, however *)
(* often the job was restarted.                                            *)
DataInStep == status = "training" /\ pc = "step" => position = step - 1

(* The step a launch goes on behind.                                       *)
Committed == IF tracker \in Steps THEN tracker ELSE 0

(* What the trainer relies on when it is restarted (resume_mode=auto).     *)
Durable == INSTANCE DurableTraining WITH
    committed <- IF tracker = Torn THEN -1 ELSE Committed
DurableSpec == Durable!Spec

(* The best validated step of this launch stays on disk, critic and all,   *)
(* once it is saved: of two retention mechanisms with limits of their own  *)
(* and the leftovers of earlier launches none takes a part of it.          *)
BestRetained ==
    SaveBest /\ status = "training" /\ best.step # NoStep /\ (pc = "advance" \/ best.step < step)
        => /\ best.step \in DOMAIN dirs
           /\ Loads(best.step)
           /\ dirs[best.step].score = best.score

(* A job that is launched again whenever it went down comes to its end,    *)
(* unless it died while the tracker file was empty.                        *)
JobCompletes == []<>(status = "finished") \/ <>[](status = "stuck" /\ tracker = Torn)

(* "Retention priority: 1. Best validation checkpoint": pruning never      *)
(* removes a model better than all those it leaves.                        *)
BestScoreKept ==
    [][\A s \in DOMAIN dirs \ DOMAIN dirs' :
        \E t \in DOMAIN dirs' : dirs'[t].score >= dirs[s].score]_vars

(* The tracker file records "the latest checkpoint during training to      *)
(* restart from": a launch after a checkpoint does not begin from scratch. *)
ResumesFromCheckpoint ==
    [][status # "training" /\ status' = "training" /\ tracker \in Steps => step' = tracker + 1]_vars
=============================================================================
