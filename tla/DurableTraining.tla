--------------------------- MODULE DurableTraining ---------------------------
(***************************************************************************)
(* What a training job promises whoever restarts it after a failure        *)
(* (trainer.resume_mode=auto): it goes on after the step it committed      *)
(* last.  The commit is not atomic: the job first forgets the old step and *)
(* then records the new one, and a job that fails in between is refused.   *)
(* TrainerCheckpoint implements this specification when the workers rotate *)
(* at least two checkpoints.                                               *)
(***************************************************************************)
EXTENDS Integers

VARIABLES
    status,     \* "down", "training", "finished" or "stuck"
    step,       \* the step being trained
    committed   \* the step a restart resumes after, Unknown during a commit

vars == <<status, step, committed>>

Unknown == -1

Init == status = "down" /\ step = 0 /\ committed = 0

Launch ==
    /\ status \in {"down", "finished"}
    /\ committed # Unknown
    /\ status' = "training"
    /\ step' = committed + 1
    /\ UNCHANGED committed

Refuse ==
    /\ status \in {"down", "finished"}
    /\ committed = Unknown
    /\ status' = "stuck"
    /\ UNCHANGED <<step, committed>>

Advance ==
    /\ status = "training" /\ committed # Unknown
    /\ \/ status' = "training" /\ step' = step + 1
       \/ status' = "finished" /\ step' = step
    /\ UNCHANGED committed

Forget ==
    /\ status = "training"
    /\ committed' = Unknown
    /\ UNCHANGED <<status, step>>

(* A commit never moves the job back.                                      *)
Commit ==
    /\ status = "training" /\ committed = Unknown
    /\ committed' = step
    /\ UNCHANGED <<status, step>>

Crash ==
    /\ status = "training"
    /\ status' = "down"
    /\ UNCHANGED <<step, committed>>

Next == Launch \/ Refuse \/ Advance \/ Forget \/ Commit \/ Crash

Spec == Init /\ [][Next]_vars
=============================================================================
