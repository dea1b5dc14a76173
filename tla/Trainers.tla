------------------------------- MODULE Trainers -------------------------------
(***************************************************************************)
(* The main programs, which differ in the trainer whose fit they run:      *)
(* main_ppo, and main_dapo, main_entropy, main_prime and main_sppo of the  *)
(* recipes.                                                                *)
(***************************************************************************)
EXTENDS DynamicSampling, PrimeTrainer, SppoTrainer

allVars == <<vars, loop, rm>>

\* RayEntropyTrainer, recipe/entropy/entropy_ray_trainer.py: RayDAPOTrainer's
\* loop, but that the entropies of the log-probs stay in the batch, where
\* nothing reads them.
EntropySampling == Sampling
EntropyUpdating == Updating
EntropyNext == EntropySampling \/ EntropyUpdating

TrainersInit == DapoInit /\ rm = 0

TrainersNext ==
    \/ config.trainer = "ppo" /\ Next /\ UNCHANGED <<loop, rm>>
    \/ config.trainer = "dapo" /\ DapoNext /\ UNCHANGED rm
    \/ config.trainer = "entropy" /\ EntropyNext /\ UNCHANGED rm
    \/ config.trainer = "prime" /\ PrimeNext /\ UNCHANGED loop
    \/ config.trainer = "sppo" /\ SppoNext /\ UNCHANGED <<loop, rm>>

TrainersSpec == TrainersInit /\ [][TrainersNext]_allVars
=============================================================================
