----------------------- MODULE TrainerCheckpointProofs -----------------------
(***************************************************************************)
(* Theorems about TrainerCheckpoint for any number of steps, any           *)
(* frequencies and any crashes.  In every mode the variables keep their    *)
(* types.  When the workers rotate the checkpoints (save_best_checkpoint   *)
(* off) and keep at least two, or all, and the job is always launched with *)
(* resume_mode=auto, the tracker file names a checkpoint that loads or is  *)
(* torn, and the job goes on where that checkpoint was taken.  When        *)
(* _prune_checkpoints chooses what is kept (save_best_checkpoint on), the  *)
(* best checkpoint of a launch stays.                                      *)
(***************************************************************************)
EXTENDS TrainerCheckpoint, FiniteSetTheorems, WellFoundedInduction, TLAPS

(* One checkpoint is not enough: the old one goes before the new one is    *)
(* written.                                                                *)
RotationMode ==
    /\ SaveBest = FALSE
    /\ MaxActor # 1 /\ MaxCritic # 1
    /\ ResumeModes \subseteq {"auto"}

(***************************************************************************)
(* The inductive invariant.                                                *)
(***************************************************************************)

(* The checkpoint of step s is all there and was taken after s batches.    *)
Taken(s) ==
    /\ s \in DOMAIN dirs
    /\ dirs[s].part["actor"] = "complete"
    /\ UseCritic => dirs[s].part["critic"] = "complete"
    /\ dirs[s].part["data"] = "complete"
    /\ dirs[s].at = s

TrackedTaken == tracker \in Steps => Taken(tracker)

(* _prune_checkpoints is never called.                                     *)
NothingPruned == pc \notin {"prune", "remove"} /\ kept = {} /\ garbage = {}

(* The tracker lags behind the step being saved and is torn only between   *)
(* the two operations that replace it.                                     *)
TrackerLags ==
    status = "training" =>
        /\ step >= 1
        /\ tracker <= step
        /\ pc # "advance" => tracker < step
        /\ tracker = Torn <=> pc = "write"

(* The dataloader has handed out the batches of the steps trained.         *)
PositionOfStep ==
    status = "training" => position = IF pc = "step" THEN step - 1 ELSE step

(* The parts of the current checkpoint that are written.                   *)
CurrentWritten ==
    status = "training" =>
        /\ pc \in {"rotate_critic", "critic", "data", "open", "write"} =>
                step \in DOMAIN dirs /\ dirs[step].part["actor"] = "complete"
        /\ pc \in {"data", "open", "write"} /\ UseCritic =>
                dirs[step].part["critic"] = "complete"
        /\ pc \in {"open", "write"} => Taken(step)

(* The checkpoints a manager may remove were taken before this step, and   *)
(* only its last one may be the one the tracker names.                     *)
HasWritten(role) ==
    \/ pc \in {"data", "open", "write"}
    \/ role = "actor" /\ pc \in {"rotate_critic", "critic"}

RotationSpares(role) ==
    LET R == rotation[role]
    IN  /\ \A i \in 1..Len(R) : R[i] <= step
        /\ ~HasWritten(role) /\ pc # "advance" => \A i \in 1..Len(R) : R[i] < step
        /\ HasWritten(role) => \A i \in 1..(Len(R) - 1) : R[i] < step
        /\ ~HasWritten(role) => \A i \in 1..(Len(R) - 1) : R[i] # tracker

RotationsSpare == status = "training" => \A role \in Roles : RotationSpares(role)

IInv ==
    /\ TypeOK
    /\ TrackedTaken
    /\ NothingPruned
    /\ TrackerLags
    /\ PositionOfStep
    /\ CurrentWritten
    /\ RotationsSpare
    /\ StuckOnlyIfTorn

-----------------------------------------------------------------------------
(* Writing or removing one part of one checkpoint touches nothing else.    *)
LEMMA PartOfDirs ==
    ASSUME TypeOK, NEW s \in Steps, NEW p \in Parts, NEW st \in PartState
    PROVE  /\ DOMAIN WithPart(dirs, s, p, st) = DOMAIN dirs \cup {s}
           /\ \A d \in DOMAIN dirs \cup {s} : WithPart(dirs, s, p, st)[d] \in Directory
           /\ \A d \in DOMAIN dirs \ {s} : WithPart(dirs, s, p, st)[d] = dirs[d]
           /\ WithPart(dirs, s, p, st)[s].part[p] = st
           /\ s \in DOMAIN dirs =>
                /\ \A q \in Parts \ {p} : WithPart(dirs, s, p, st)[s].part[q] = dirs[s].part[q]
                /\ WithPart(dirs, s, p, st)[s].score = dirs[s].score
<1> DEFINE W == WithPart(dirs, s, p, st)
           X == IF s \in DOMAIN dirs THEN dirs[s] ELSE EmptyDirectory
           Y == [X EXCEPT !.part[p] = st]
<1>0. DOMAIN dirs \subseteq Steps /\ \A d \in DOMAIN dirs : dirs[d] \in Directory
  BY DEF TypeOK
<1>1. EmptyDirectory \in Directory
  BY DEF EmptyDirectory, Directory, PartState, NoScore
<1>2. X \in Directory
  BY <1>0, <1>1
<1>3. Y \in Directory /\ Y.part[p] = st /\ Y.score = X.score
        /\ \A q \in Parts \ {p} : Y.part[q] = X.part[q]
  <2>1. X.part \in [Parts -> PartState] /\ X.at \in Nat /\ X.score \in Scores \cup {NoScore}
        /\ X = [part |-> X.part, at |-> X.at, score |-> X.score]
    BY <1>2 DEF Directory
  <2> HIDE DEF X
  <2>2. Y = [part |-> [X.part EXCEPT ![p] = st], at |-> X.at, score |-> X.score]
    BY <2>1
  <2> QED
    BY <2>1, <2>2 DEF Directory
<1>4. DOMAIN W = DOMAIN dirs \cup {s} /\ W[s] = Y /\ \A d \in DOMAIN dirs \ {s} : W[d] = dirs[d]
  BY DEF WithPart
<1> HIDE DEF W, Y
<1>5. \A d \in DOMAIN dirs \cup {s} : W[d] \in Directory
  BY <1>0, <1>3, <1>4
<1> QED
  BY <1>3, <1>4, <1>5 DEF W

LEMMA PartNames ==
    /\ Roles \subseteq Parts /\ "data" \in Parts
    /\ {"absent", "partial", "complete"} \subseteq PartState
  BY DEF Roles, Parts, PartState

LEMMA PartRemoved ==
    ASSUME TypeOK, NEW s \in Steps, NEW role \in Roles
    PROVE  /\ DOMAIN WithoutPart(dirs, s, role) = DOMAIN dirs
           /\ \A d \in DOMAIN dirs : WithoutPart(dirs, s, role)[d] \in Directory
           /\ \A d \in DOMAIN dirs \ {s} : WithoutPart(dirs, s, role)[d] = dirs[d]
<1>1. CASE s \notin DOMAIN dirs
  BY <1>1 DEF WithoutPart, TypeOK
<1>2. CASE s \in DOMAIN dirs
  <2> DEFINE W == WithPart(dirs, s, role, "absent")
  <2>1. role \in Parts /\ "absent" \in PartState
    BY PartNames
  <2>2. /\ DOMAIN W = DOMAIN dirs \cup {s}
        /\ \A d \in DOMAIN dirs \cup {s} : W[d] \in Directory
        /\ \A d \in DOMAIN dirs \ {s} : W[d] = dirs[d]
    BY <2>1, PartOfDirs, ZenonT(30)
  <2>3. WithoutPart(dirs, s, role) = W /\ DOMAIN dirs \cup {s} = DOMAIN dirs
    BY <1>2 DEF WithoutPart
  <2> HIDE DEF W
  <2> QED
    BY <2>2, <2>3
<1> QED
  BY <1>1, <1>2

(* The oldest entry of a rotation that is full is not its last.            *)
LEMMA HeadOfFull ==
    ASSUME RotationMode, TypeOK, NEW role \in Roles, RotationFull(role)
    PROVE  /\ 1 \in 1..(Len(rotation[role]) - 1)
           /\ Head(rotation[role]) = rotation[role][1]
           /\ Head(rotation[role]) \in Steps
<1>1. RotationLimit(role) \in Nat /\ RotationLimit(role) > 0 /\ RotationLimit(role) # 1
  BY RetentionAssumption DEF RotationMode, RotationLimit, RotationFull, Roles
<1>2. rotation[role] \in Seq(Steps)
  BY DEF TypeOK
<1>3. Len(rotation[role]) >= 2
  BY <1>1, <1>2 DEF RotationFull
<1> QED
  BY <1>2, <1>3

LEMMA InitIInv == Init => IInv
<1> SUFFICES ASSUME Init PROVE IInv
  OBVIOUS
<1> USE DEF Init, NoTracker, Torn, NoScore, NoStep, Steps
<1>1. TypeOK
  BY DEF TypeOK
<1> QED
  BY <1>1 DEF IInv, TrackedTaken, NothingPruned, TrackerLags, PositionOfStep, CurrentWritten,
       RotationsSpare, StuckOnlyIfTorn

-----------------------------------------------------------------------------
(* Every action of a running job preserves the invariant.                  *)
LEMMA TrainStepPreserves ==
    ASSUME RotationMode, IInv, NEW sc \in Scores \cup {NoScore}, TrainStep(sc)
    PROVE  IInv'
<1> USE DEF IInv, TrainStep, At
<1>1. TypeOK'
  BY DEF TypeOK
<1>2. TrackedTaken' /\ NothingPruned' /\ StuckOnlyIfTorn'
  BY DEF TrackedTaken, Taken, NothingPruned, StuckOnlyIfTorn
<1>3. TrackerLags' /\ PositionOfStep'
  BY DEF TrackerLags, PositionOfStep, TypeOK
<1>4. CurrentWritten'
  BY DEF CurrentWritten
<1>5. RotationsSpare'
  BY DEF RotationsSpare, RotationSpares, HasWritten, TypeOK
<1> QED
  BY <1>1, <1>2, <1>3, <1>4, <1>5

LEMMA RotatePreserves ==
    ASSUME RotationMode, IInv, NEW role \in Roles, Rotate(role)
    PROVE  IInv'
<1> DEFINE R == rotation[role]
           W == WithoutPart(dirs, Head(R), role)
<1> USE DEF IInv
<1>1. CASE ~RotationFull(role)
  <2> USE <1>1 DEF Rotate, At, Roles
  <2>1. TypeOK'
    BY DEF TypeOK
  <2>2. TrackedTaken' /\ NothingPruned' /\ StuckOnlyIfTorn'
    BY DEF TrackedTaken, Taken, NothingPruned, StuckOnlyIfTorn
  <2>3. TrackerLags' /\ PositionOfStep' /\ CurrentWritten'
    BY DEF TrackerLags, PositionOfStep, CurrentWritten
  <2>4. RotationsSpare'
    BY DEF RotationsSpare, RotationSpares, HasWritten
  <2> QED
    BY <2>1, <2>2, <2>3, <2>4
<1>2. CASE RotationFull(role)
  <2>1. /\ status = "training" /\ pc = (IF role = "actor" THEN "rotate_actor" ELSE "rotate_critic")
        /\ dirs' = W
        /\ rotation' = [rotation EXCEPT ![role] = Tail(R)]
        /\ pc' = role
        /\ UNCHANGED <<status, step, position, best, score, kept, garbage, tracker, launches>>
    BY <1>2 DEF Rotate, At
  <2>2. /\ 1 \in 1..(Len(R) - 1) /\ Head(R) = R[1] /\ Head(R) \in Steps
        /\ R \in Seq(Steps)
    BY <1>2, HeadOfFull DEF TypeOK
  <2>3. Head(R) # tracker /\ Head(R) # step
    <3>1. RotationSpares(role) /\ ~HasWritten(role) /\ pc # "advance"
      BY <2>1 DEF RotationsSpare, HasWritten, Roles
    <3>2. 1 \in 1..Len(R) /\ R[1] \in Steps /\ step \in Nat
      BY <2>2 DEF TypeOK
    <3>3. R[1] # tracker /\ R[1] < step
      BY <2>2, <3>1, <3>2 DEF RotationSpares
    <3> QED
      BY <2>2, <3>2, <3>3 DEF Steps
  <2>4. /\ DOMAIN W = DOMAIN dirs
        /\ \A d \in DOMAIN dirs : W[d] \in Directory
        /\ \A d \in DOMAIN dirs \ {Head(R)} : W[d] = dirs[d]
    BY <2>2, PartRemoved
  <2>5. Tail(R) \in Seq(Steps) /\ Len(Tail(R)) = Len(R) - 1
        /\ \A i \in 1..Len(Tail(R)) : Tail(R)[i] = R[i + 1]
    BY <2>2
  <2> HIDE DEF W
  <2>6. TypeOK'
    BY <2>1, <2>2, <2>4, <2>5 DEF TypeOK, Roles
  <2>7. TrackedTaken' /\ CurrentWritten'
    BY <2>1, <2>3, <2>4 DEF TrackedTaken, CurrentWritten, Taken, Roles
  <2>8. NothingPruned' /\ StuckOnlyIfTorn' /\ TrackerLags' /\ PositionOfStep'
    BY <2>1 DEF NothingPruned, StuckOnlyIfTorn, TrackerLags, PositionOfStep, Roles
  <2>9. RotationsSpare'
    <3> SUFFICES ASSUME NEW r \in Roles PROVE RotationSpares(r)'
      BY DEF RotationsSpare
    <3>0. RotationSpares(r)
      BY <2>1 DEF RotationsSpare
    <3>1. CASE r # role
      BY <2>1, <3>0, <3>1 DEF RotationSpares, HasWritten, Roles, TypeOK
    <3>2. CASE r = role
      <4>1. rotation'[r] = Tail(R)
        BY <2>1, <3>2 DEF TypeOK
      <4>2. ~HasWritten(r) /\ ~HasWritten(r)' /\ pc # "advance"
        BY <2>1, <3>2 DEF HasWritten, Roles
      <4>3. \A i \in 1..Len(Tail(R)) : i + 1 \in 1..Len(R)
        BY <2>2, <2>5
      <4>4. \A i \in 1..(Len(Tail(R)) - 1) : i + 1 \in 1..(Len(R) - 1) /\ i \in 1..Len(Tail(R))
        BY <2>2, <2>5
      <4>5. \A i \in 1..Len(Tail(R)) : Tail(R)[i] <= step /\ Tail(R)[i] < step
        BY <2>5, <3>0, <3>2, <4>2, <4>3 DEF RotationSpares
      <4>6. \A i \in 1..(Len(Tail(R)) - 1) : Tail(R)[i] # tracker
        BY <2>5, <3>0, <3>2, <4>2, <4>4 DEF RotationSpares
      <4> QED
        BY <2>1, <4>1, <4>2, <4>5, <4>6 DEF RotationSpares
    <3> QED
      BY <3>1, <3>2
  <2> QED
    BY <2>6, <2>7, <2>8, <2>9
<1> QED
  BY <1>1, <1>2

LEMMA WriteShardsPreserves ==
    ASSUME RotationMode, IInv, NEW role \in Roles, WriteShards(role)
    PROVE  IInv'
<1> DEFINE R == rotation[role]
           W == WithPart(dirs, step, role, "complete")
           V == [W EXCEPT ![step].score = score]
<1> USE DEF IInv
<1>1. /\ status = "training" /\ pc = role
      /\ dirs' = V
      /\ rotation' = [rotation EXCEPT ![role] = Append(R, step)]
      /\ pc' = IF role = "actor" /\ UseCritic THEN "rotate_critic" ELSE "data"
      /\ UNCHANGED <<status, step, position, best, score, kept, garbage, tracker, launches>>
  BY DEF WriteShards, At
<1>2. step \in Steps /\ tracker # step /\ R \in Seq(Steps)
  BY <1>1 DEF TrackerLags, TypeOK, Steps, Roles
<1>3. /\ DOMAIN W = DOMAIN dirs \cup {step}
      /\ \A d \in DOMAIN dirs \cup {step} : W[d] \in Directory
      /\ \A d \in DOMAIN dirs \ {step} : W[d] = dirs[d]
      /\ W[step].part[role] = "complete"
      /\ step \in DOMAIN dirs => \A q \in Parts \ {role} : W[step].part[q] = dirs[step].part[q]
  <2>1. role \in Parts /\ "complete" \in PartState
    BY PartNames
  <2> QED
    BY <1>2, <2>1, PartOfDirs, ZenonT(30)
<1>4. W = [d \in DOMAIN W |-> W[d]]
  BY DEF WithPart
<1> HIDE DEF W
<1>5. /\ DOMAIN V = DOMAIN dirs \cup {step}
      /\ \A d \in DOMAIN dirs \ {step} : V[d] = dirs[d]
      /\ V[step] = [W[step] EXCEPT !.score = score]
  BY <1>3, <1>4
<1>6. V[step] \in Directory /\ V[step].part = W[step].part
  <2>1. W[step] \in Directory
    BY <1>3
  <2> QED
    BY <1>5, <2>1 DEF Directory, TypeOK
<1> HIDE DEF V
<1>7. Append(R, step) \in Seq(Steps) /\ Len(Append(R, step)) = Len(R) + 1
      /\ (\A i \in 1..Len(R) : Append(R, step)[i] = R[i]) /\ Append(R, step)[Len(R) + 1] = step
  BY <1>2
<1>8. TypeOK'
  <2>1. pc' \in {"rotate_critic", "data"}
    BY <1>1
  <2>2. rotation' \in [Roles -> Seq(Steps)]
    BY <1>1, <1>7 DEF TypeOK
  <2>3. DOMAIN dirs' \subseteq Steps /\ DOMAIN dirs \subseteq DOMAIN dirs'
    BY <1>1, <1>2, <1>5 DEF TypeOK
  <2>4. \A d \in DOMAIN dirs' : dirs'[d] \in Directory
    BY <1>1, <1>5, <1>6 DEF TypeOK
  <2> QED
    BY <1>1, <2>1, <2>2, <2>3, <2>4 DEF TypeOK
<1>9. TrackedTaken'
  BY <1>1, <1>2, <1>5 DEF TrackedTaken, Taken
<1>10. CurrentWritten'
  BY <1>1, <1>3, <1>5, <1>6 DEF CurrentWritten, Roles, Parts
<1>11. NothingPruned' /\ StuckOnlyIfTorn' /\ TrackerLags' /\ PositionOfStep'
  BY <1>1 DEF NothingPruned, StuckOnlyIfTorn, TrackerLags, PositionOfStep, Roles
<1>12. RotationsSpare'
  <2> SUFFICES ASSUME NEW r \in Roles PROVE RotationSpares(r)'
    BY DEF RotationsSpare
  <2>0. RotationSpares(r)
    BY <1>1 DEF RotationsSpare
  <2>1. CASE r # role
    <3>1. rotation'[r] = rotation[r] /\ rotation[r] \in Seq(Steps)
      BY <1>1, <2>1 DEF TypeOK
    <3> QED
      BY <1>1, <2>0, <2>1, <3>1 DEF RotationSpares, HasWritten, Roles
  <2>2. CASE r = role
    <3>1. rotation'[r] = Append(R, step)
      BY <1>1, <2>2 DEF TypeOK
    <3>2. ~HasWritten(r) /\ HasWritten(r)' /\ pc # "advance"
      BY <1>1, <2>2 DEF HasWritten, Roles
    <3>3. \A i \in 1..Len(R) : R[i] < step
      BY <2>0, <2>2, <3>2 DEF RotationSpares
    <3>4. \A i \in 1..Len(Append(R, step)) : Append(R, step)[i] <= step
      BY <1>2, <1>7, <3>3 DEF Steps
    <3>5. \A i \in 1..(Len(Append(R, step)) - 1) : Append(R, step)[i] < step
      BY <1>2, <1>7, <3>3
    <3> QED
      BY <1>1, <3>1, <3>2, <3>4, <3>5 DEF RotationSpares
  <2> QED
    BY <2>1, <2>2
<1> QED
  BY <1>8, <1>9, <1>10, <1>11, <1>12

LEMMA WriteDataPreserves ==
    ASSUME RotationMode, IInv, WriteData
    PROVE  IInv'
<1> DEFINE W == WithPart(dirs, step, "data", "complete")
           V == [W EXCEPT ![step].at = position]
<1> USE DEF IInv
<1>1. /\ status = "training" /\ pc = "data"
      /\ dirs' = V
      /\ pc' = "open"
      /\ UNCHANGED <<status, step, position, best, score, rotation, kept, garbage, tracker, launches>>
  BY DEF WriteData, At, Prunes, RotationMode
<1>2. step \in Steps /\ tracker # step /\ position = step /\ step \in DOMAIN dirs
  BY <1>1 DEF TrackerLags, TypeOK, Steps, PositionOfStep, CurrentWritten
<1>3. /\ DOMAIN W = DOMAIN dirs
      /\ \A d \in DOMAIN W : W[d] \in Directory
      /\ \A d \in DOMAIN dirs \ {step} : W[d] = dirs[d]
      /\ W[step].part["data"] = "complete"
      /\ \A q \in Parts \ {"data"} : W[step].part[q] = dirs[step].part[q]
  <2>1. "data" \in Parts /\ "complete" \in PartState
    BY PartNames
  <2> QED
    BY <1>2, <2>1, PartOfDirs
<1>4. W = [d \in DOMAIN W |-> W[d]]
  BY DEF WithPart
<1> HIDE DEF W
<1>5. /\ DOMAIN V = DOMAIN dirs
      /\ \A d \in DOMAIN dirs \ {step} : V[d] = dirs[d]
      /\ V[step] = [W[step] EXCEPT !.at = position]
  BY <1>2, <1>3, <1>4
<1>6. V[step] \in Directory /\ V[step].part = W[step].part /\ V[step].at = step
  <2>1. W[step] \in Directory
    BY <1>2, <1>3
  <2> QED
    BY <1>2, <1>5, <2>1 DEF Directory, TypeOK
<1> HIDE DEF V
<1>7. TypeOK'
  BY <1>1, <1>3, <1>5, <1>6 DEF TypeOK
<1>8. TrackedTaken'
  BY <1>1, <1>2, <1>5 DEF TrackedTaken, Taken
<1>9. CurrentWritten'
  BY <1>1, <1>2, <1>3, <1>5, <1>6 DEF CurrentWritten, Taken, Roles, Parts
<1>10. NothingPruned' /\ StuckOnlyIfTorn' /\ TrackerLags' /\ PositionOfStep'
  BY <1>1 DEF NothingPruned, StuckOnlyIfTorn, TrackerLags, PositionOfStep
<1>11. RotationsSpare'
  BY <1>1 DEF RotationsSpare, RotationSpares, HasWritten, Roles, TypeOK
<1> QED
  BY <1>7, <1>8, <1>9, <1>10, <1>11

LEMMA TrackerPreserves ==
    ASSUME RotationMode, IInv, OpenTracker \/ WriteTracker
    PROVE  IInv'
<1> USE DEF IInv, At
<1>1. CASE OpenTracker
  <2> USE <1>1 DEF OpenTracker
  <2>1. TypeOK'
    BY DEF TypeOK
  <2>2. TrackedTaken' /\ NothingPruned' /\ StuckOnlyIfTorn'
    BY DEF TrackedTaken, NothingPruned, StuckOnlyIfTorn, Steps, Torn
  <2>3. TrackerLags' /\ PositionOfStep' /\ CurrentWritten'
    BY DEF TrackerLags, PositionOfStep, CurrentWritten, Taken, Torn, TypeOK
  <2>4. RotationsSpare'
    BY DEF RotationsSpare, RotationSpares, HasWritten
  <2> QED
    BY <2>1, <2>2, <2>3, <2>4
<1>2. CASE WriteTracker
  <2>1. /\ status = "training" /\ pc = "write" /\ pc' = "advance"
        /\ tracker' = step /\ kept' = kept
        /\ UNCHANGED <<status, step, position, best, score, rotation, garbage, dirs, launches>>
    BY <1>2 DEF WriteTracker, NothingPruned
  <2>2. step \in Steps
    BY <2>1 DEF TrackerLags, TypeOK, Steps
  <2>3. TypeOK'
    BY <2>1, <2>2 DEF TypeOK
  <2>4. TrackedTaken' /\ NothingPruned' /\ StuckOnlyIfTorn'
    BY <2>1 DEF TrackedTaken, Taken, CurrentWritten, NothingPruned, StuckOnlyIfTorn
  <2>5. TrackerLags' /\ PositionOfStep' /\ CurrentWritten'
    BY <2>1, <2>2 DEF TrackerLags, PositionOfStep, CurrentWritten, Torn, Steps
  <2>6. RotationsSpare'
    <3> SUFFICES ASSUME NEW r \in Roles PROVE RotationSpares(r)'
      BY DEF RotationsSpare
    <3>1. RotationSpares(r) /\ HasWritten(r)
      BY <2>1 DEF RotationsSpare, HasWritten
    <3>2. rotation[r] \in Seq(Steps)
      BY DEF TypeOK
    <3>3. \A i \in 1..(Len(rotation[r]) - 1) : rotation[r][i] # step
      BY <2>2, <3>1, <3>2 DEF RotationSpares, Steps
    <3> QED
      BY <2>1, <3>1, <3>3 DEF RotationSpares, HasWritten
  <2> QED
    BY <2>3, <2>4, <2>5, <2>6
<1> QED
  BY <1>1, <1>2

LEMMA AdvancePreserves ==
    ASSUME IInv, Advance
    PROVE  IInv'
<1> USE DEF IInv, Advance, At
<1>1. TypeOK'
  BY DEF TypeOK
<1>2. TrackedTaken' /\ NothingPruned' /\ StuckOnlyIfTorn'
  BY DEF TrackedTaken, Taken, NothingPruned, StuckOnlyIfTorn
<1>3. TrackerLags' /\ PositionOfStep'
  BY DEF TrackerLags, PositionOfStep, TypeOK, Steps, NoTracker, Torn
<1>4. CurrentWritten'
  BY DEF CurrentWritten
<1>5. RotationsSpare'
  <2> SUFFICES ASSUME status' = "training", NEW r \in Roles PROVE RotationSpares(r)'
    BY DEF RotationsSpare
  <2>1. RotationSpares(r) /\ ~HasWritten(r) /\ ~HasWritten(r)'
    BY DEF RotationsSpare, HasWritten
  <2>2. rotation[r] \in Seq(Steps) /\ step \in Nat
    BY DEF TypeOK
  <2>3. \A i \in 1..Len(rotation[r]) : rotation[r][i] < step + 1
    BY <2>1, <2>2 DEF RotationSpares, Steps
  <2> QED
    BY <2>1, <2>2, <2>3 DEF RotationSpares, Steps
<1> QED
  BY <1>1, <1>2, <1>3, <1>4, <1>5

-----------------------------------------------------------------------------
(* A kill leaves the tracked checkpoint alone: the operation it cuts short *)
(* concerns the current checkpoint or the oldest.                          *)
LEMMA CrashPreserves ==
    ASSUME RotationMode, IInv, Crash
    PROVE  IInv'
<1> USE DEF IInv
<1>1. /\ status = "training" /\ status' = "down"
      /\ dirs' \in {dirs} \cup TornDisk
      /\ UNCHANGED <<pc, step, position, best, score, rotation, kept, garbage, tracker, launches>>
  BY DEF Crash, jobVars
<1>2. CASE dirs' = dirs
  BY <1>1, <1>2 DEF TypeOK, TrackedTaken, Taken, NothingPruned, TrackerLags, PositionOfStep,
     CurrentWritten, RotationsSpare, StuckOnlyIfTorn
<1>3. ASSUME NEW s \in Steps, NEW p \in Parts, s # tracker,
             dirs' = WithPart(dirs, s, p, "partial")
      PROVE  IInv'
  <2>1. /\ DOMAIN dirs' = DOMAIN dirs \cup {s}
        /\ \A d \in DOMAIN dirs' : dirs'[d] \in Directory
        /\ \A d \in DOMAIN dirs \ {s} : dirs'[d] = dirs[d]
    <3> HIDE DEF IInv
    <3>1. "partial" \in PartState /\ TypeOK
      BY PartNames DEF IInv
    <3>2. /\ DOMAIN WithPart(dirs, s, p, "partial") = DOMAIN dirs \cup {s}
          /\ \A d \in DOMAIN dirs \cup {s} : WithPart(dirs, s, p, "partial")[d] \in Directory
          /\ \A d \in DOMAIN dirs \ {s} : WithPart(dirs, s, p, "partial")[d] = dirs[d]
      BY <3>1, PartOfDirs, ZenonT(30)
    <3> QED
      BY <1>3, <3>2
  <2>2. TypeOK'
    BY <1>1, <2>1 DEF TypeOK
  <2>3. TrackedTaken'
    BY <1>1, <1>3, <2>1 DEF TrackedTaken, Taken
  <2> QED
    BY <1>1, <2>2, <2>3 DEF NothingPruned, TrackerLags, PositionOfStep, CurrentWritten,
       RotationsSpare, StuckOnlyIfTorn
<1>4. ASSUME NEW role \in Roles, dirs' \in TornRotation(role),
             pc = IF role = "actor" THEN "rotate_actor" ELSE "rotate_critic"
      PROVE  IInv'
  <2>1. RotationFull(role) /\ dirs' = WithPart(dirs, Head(rotation[role]), role, "partial")
    BY <1>4 DEF TornRotation
  <2>2. Head(rotation[role]) \in Steps /\ Head(rotation[role]) # tracker /\ role \in Parts
    BY <1>1, <1>4, <2>1, HeadOfFull
    DEF RotationsSpare, RotationSpares, HasWritten, Roles, Parts
  <2> QED
    BY <1>3, <2>1, <2>2
<1>5. CASE pc = "rotate_actor"
  <2>1. dirs' \in {dirs} \cup TornRotation("actor")
    BY <1>1, <1>5 DEF TornDisk, Parts, Roles
  <2> QED
    BY <1>2, <1>4, <1>5, <2>1 DEF Roles
<1>6. CASE pc = "rotate_critic"
  <2>1. dirs' \in {dirs} \cup TornRotation("critic")
    BY <1>1, <1>6 DEF TornDisk, Parts, Roles
  <2> QED
    BY <1>2, <1>4, <1>6, <2>1 DEF Roles
<1>7. CASE pc \in Parts
  <2>1. step \in Steps /\ step # tracker
    BY <1>1, <1>7 DEF TrackerLags, TypeOK, Steps, Parts, Roles
  <2>2. dirs' = dirs \/ dirs' = WithPart(dirs, step, pc, "partial")
    BY <1>1, <1>7 DEF TornDisk, Parts, Roles
  <2> QED
    BY <1>2, <1>3, <1>7, <2>1, <2>2
<1>8. CASE pc \notin Parts \cup {"rotate_actor", "rotate_critic"}
  <2>1. pc # "remove"
    BY DEF NothingPruned
  <2>2. TornDisk = {}
    BY <1>8, <2>1 DEF TornDisk
  <2> QED
    BY <1>1, <1>2, <2>2
<1> QED
  BY <1>5, <1>6, <1>7, <1>8

LEMMA LaunchPreserves ==
    ASSUME RotationMode, IInv, NEW mode \in ResumeModes, Launch(mode)
    PROVE  IInv' /\ (tracker # Torn => status' = "training" /\ step' = Committed + 1)
                 /\ (tracker = Torn => status' = "stuck" /\ step' = step)
<1> USE DEF IInv
<1>1. /\ ResumeAuto
      /\ launches' = launches + 1
      /\ UNCHANGED <<dirs, tracker>>
  BY DEF Launch, RotationMode
<1>2. ASSUME NEW s \in Nat, StartAfter(s, s), tracker \in {s} \cup {NoTracker}
      PROVE  IInv'
  <2> USE <1>1, <1>2 DEF StartAfter, NoScore, NoStep
  <2>1. TypeOK'
    BY DEF TypeOK, Roles, Steps
  <2>2. TrackedTaken' /\ NothingPruned' /\ StuckOnlyIfTorn'
    BY DEF TrackedTaken, Taken, NothingPruned, StuckOnlyIfTorn
  <2>3. TrackerLags' /\ PositionOfStep' /\ CurrentWritten'
    BY DEF TrackerLags, PositionOfStep, CurrentWritten, NoTracker, Torn
  <2>4. RotationsSpare'
    BY DEF RotationsSpare, RotationSpares, Roles
  <2> QED
    BY <2>1, <2>2, <2>3, <2>4
<1>3. CASE tracker = Torn
  <2>1. /\ status' = "stuck"
        /\ UNCHANGED <<pc, step, position, best, score, rotation, kept, garbage>>
    BY <1>1, <1>3 DEF ResumeAuto, Fail, jobVars
  <2> QED
    BY <1>1, <1>3, <2>1 DEF TypeOK, TrackedTaken, Taken, NothingPruned, TrackerLags,
       PositionOfStep, CurrentWritten, RotationsSpare, StuckOnlyIfTorn
<1>4. CASE tracker \in Steps
  <2>1. Taken(tracker)
    BY <1>4 DEF TrackedTaken
  <2>2. Loads(tracker)
    BY <2>1 DEF Taken, Loads
  <2>3. tracker # Torn
    BY <1>4 DEF Steps, Torn
  <2>4. StartAfter(tracker, tracker)
    BY <1>1, <2>1, <2>2, <2>3 DEF ResumeAuto, LoadFrom, Taken
  <2>5. IInv'
    BY <1>2, <1>4, <2>4 DEF Steps
  <2> QED
    BY <1>4, <2>3, <2>4, <2>5 DEF StartAfter, Committed
<1>5. CASE tracker = NoTracker
  <2>1. tracker \notin Steps /\ tracker # Torn
    BY <1>5 DEF NoTracker, Steps, Torn
  <2>2. tracker \notin DOMAIN dirs
    BY <2>1 DEF TypeOK
  <2>3. StartAfter(0, 0)
    BY <1>1, <2>1, <2>2 DEF ResumeAuto
  <2>4. IInv'
    BY <1>2, <1>5, <2>3
  <2> QED
    BY <2>1, <2>3, <2>4 DEF StartAfter, Committed
<1> QED
  BY <1>3, <1>4, <1>5 DEF TypeOK

-----------------------------------------------------------------------------
LEMMA StutterPreserves ==
    ASSUME IInv, UNCHANGED vars
    PROVE  IInv'
BY DEF IInv, vars, jobVars, TypeOK, TrackedTaken, Taken, NothingPruned, TrackerLags,
   PositionOfStep, CurrentWritten, RotationsSpare, RotationSpares, HasWritten, StuckOnlyIfTorn

LEMMA StepIInv ==
    ASSUME RotationMode, IInv, [Next]_vars
    PROVE  IInv'
<1>1. ~Prune /\ ~RemoveDirectory
  BY DEF IInv, NothingPruned, Prune, RemoveDirectory, At
<1>2. CASE Next
  BY <1>1, <1>2, TrainStepPreserves, RotatePreserves, WriteShardsPreserves, WriteDataPreserves,
     TrackerPreserves, AdvancePreserves, CrashPreserves, LaunchPreserves
  DEF Next, Work
<1>3. CASE UNCHANGED vars
  BY <1>3, StutterPreserves
<1> QED
  BY <1>2, <1>3

LEMMA Invariance ==
    RotationMode /\ Spec => []IInv
<1>1. ASSUME RotationMode PROVE IInv /\ [Next]_vars => IInv'
  BY <1>1, StepIInv
<1>2. ASSUME RotationMode PROVE Spec => []IInv
  BY <1>1, <1>2, InitIInv, PTL DEF Spec
<1> QED
  BY <1>2

(* TrackerLoadable: whenever the trainer dies, in the middle of a removal  *)
(* or of a write too, the tracker file does not name a checkpoint that     *)
(* find_latest_ckpt_path or load_checkpoint would not find complete.       *)
THEOREM AlwaysLoadable ==
    RotationMode /\ Spec => []TrackerLoadable
<1>1. IInv => TrackerLoadable
  BY DEF IInv, TrackedTaken, Taken, TrackerLoadable, Loads
<1> QED
  BY <1>1, Invariance, PTL

(* StuckOnlyIfTorn: _load_checkpoint raises for no other reason than a     *)
(* tracker file cut short.                                                 *)
THEOREM StuckOnlyByTornTracker ==
    RotationMode /\ Spec => []StuckOnlyIfTorn
<1>1. IInv => StuckOnlyIfTorn
  BY DEF IInv
<1> QED
  BY <1>1, Invariance, PTL

(* DataInStep: the dataloader resumes where the model does.                *)
THEOREM DataFollowsModel ==
    RotationMode /\ Spec => []DataInStep
<1>1. IInv => DataInStep
  BY DEF IInv, PositionOfStep, DataInStep
<1> QED
  BY <1>1, Invariance, PTL

(* DurableSpec: the trainer implements DurableTraining.  Every step is one *)
(* of the abstract job or a stutter.                                       *)
THEOREM ImplementsDurable ==
    RotationMode /\ Spec => DurableSpec
<1>1. Init => Durable!Init
  BY DEF Init, Durable!Init, Committed, NoTracker, Torn, Steps
<1>2. ASSUME RotationMode, IInv, [Next]_vars
      PROVE  [Durable!Next]_Durable!vars
  <2> DEFINE C == IF tracker = Torn THEN -1 ELSE Committed
  <2> USE DEF Durable!vars
  <2>0. /\ tracker # Torn => C \in Nat
        /\ tracker = Torn => C = -1
        /\ ~Prune /\ ~RemoveDirectory
    BY <1>2 DEF Committed, Steps, IInv, NothingPruned, Prune, RemoveDirectory, At
  <2>1. CASE UNCHANGED vars
    BY <2>1 DEF vars, jobVars, Committed
  <2>2. ASSUME UNCHANGED <<status, step, tracker>>
        PROVE  UNCHANGED <<status, step, C>>
    BY <2>2 DEF Committed
  <2>3. CASE \E sc \in Scores \cup {NoScore} : TrainStep(sc)
    BY <2>2, <2>3 DEF TrainStep
  <2>4. CASE \E role \in Roles : Rotate(role) \/ WriteShards(role)
    BY <2>2, <2>4 DEF Rotate, WriteShards
  <2>5. CASE WriteData
    BY <2>2, <2>5 DEF WriteData
  <2>6. CASE OpenTracker
    BY <2>6 DEF OpenTracker, At, Durable!Next, Durable!Forget, Durable!Unknown
  <2>7. CASE WriteTracker
    <3>1. tracker = Torn /\ status = "training" /\ step \in Steps /\ tracker' = step
          /\ UNCHANGED <<status, step>>
      BY <1>2, <2>7 DEF WriteTracker, At, IInv, NothingPruned, TrackerLags, TypeOK, Steps
    <3>2. C = -1 /\ C' = step
      BY <3>1 DEF Committed, Steps, Torn
    <3> QED
      BY <3>1, <3>2 DEF Durable!Next, Durable!Commit, Durable!Unknown
  <2>8. CASE Advance
    <3>1. tracker # Torn /\ C' = C
      BY <1>2, <2>8 DEF Advance, At, IInv, TrackerLags, Committed
    <3> QED
      BY <2>0, <2>8, <3>1
      DEF Advance, At, Durable!Next, Durable!Advance, Durable!Unknown
  <2>9. CASE Crash
    <3>1. C' = C
      BY <2>9 DEF Crash, Committed
    <3> QED
      BY <2>9, <3>1 DEF Crash, jobVars, Durable!Next, Durable!Crash
  <2>10. ASSUME NEW mode \in ResumeModes, Launch(mode)
         PROVE  Durable!Next
    <3>1. C' = C /\ status \in {"down", "finished"}
      BY <2>10 DEF Launch, Committed
    <3>2. CASE tracker = Torn
      <4>1. status' = "stuck" /\ step' = step
        BY <1>2, <2>10, <3>2, LaunchPreserves
      <4> QED
        BY <2>0, <3>1, <3>2, <4>1 DEF Durable!Next, Durable!Refuse, Durable!Unknown
    <3>3. CASE tracker # Torn
      <4>1. status' = "training" /\ step' = C + 1
        BY <1>2, <2>10, <3>3, LaunchPreserves
      <4> QED
        BY <2>0, <3>1, <3>3, <4>1 DEF Durable!Next, Durable!Launch, Durable!Unknown
    <3> QED
      BY <3>2, <3>3
  <2> QED
    BY <1>2, <2>0, <2>1, <2>3, <2>4, <2>5, <2>6, <2>7, <2>8, <2>9, <2>10 DEF Next, Work
<1>3. ASSUME RotationMode PROVE Spec => DurableSpec
  <2>1. IInv /\ [Next]_vars => [Durable!Next]_Durable!vars
    BY <1>2, <1>3
  <2>2. RotationMode
    BY <1>3
  <2> QED
    BY <1>1, <2>1, <2>2, Invariance, PTL DEF Spec, DurableSpec, Durable!Spec
<1> QED
  BY <1>3

-----------------------------------------------------------------------------
(***************************************************************************)
(* Types, in every mode.                                                   *)
(***************************************************************************)

(* The directories are finitely many, so that the first of those to be     *)
(* removed and the last of those kept exist.                               *)
Typed ==
    /\ TypeOK
    /\ IsFiniteSet(DOMAIN dirs) /\ IsFiniteSet(kept)
    /\ status = "training" => step >= 1

(* A finite set of numbers has a first and a last element.                 *)
LEMMA Extremes ==
    ASSUME NEW T \in SUBSET Int, IsFiniteSet(T), T # {}
    PROVE  Min(T) \in T /\ Max(T) \in T
<1> DEFINE Below(n) == {k \in T : k < n}
           Above(n) == {k \in T : k > n}
           F == {Below(n) : n \in T}
           G == {Above(n) : n \in T}
           R == StrictSubsetOrdering(T)
<1>0. \A k \in T : k \in Int
  OBVIOUS
<1>1. F \subseteq FiniteSubsetsOf(T) /\ F # {} /\ G \subseteq FiniteSubsetsOf(T) /\ G # {}
  <2>1. \A n \in T : Below(n) \in FiniteSubsetsOf(T) /\ Above(n) \in FiniteSubsetsOf(T)
    BY FS_Subset DEF FiniteSubsetsOf
  <2> QED
    BY <2>1
<1>2. IsWellFoundedOn(R, FiniteSubsetsOf(T))
  BY FS_StrictSubsetOrderingWellFounded
<1>a. ASSUME NEW m \in T, NEW n \in T, n < m
      PROVE  <<Below(n), Below(m)>> \in R
  <2>1. \A k \in T : k < n => k < m
    BY <1>0, <1>a
  <2>2. n \in Below(m) /\ n \notin Below(n)
    BY <1>0, <1>a
  <2> QED
    BY <2>1, <2>2 DEF R, StrictSubsetOrdering
<1>b. ASSUME NEW m \in T, NEW n \in T, n > m
      PROVE  <<Above(n), Above(m)>> \in R
  <2>1. \A k \in T : k > n => k > m
    BY <1>0, <1>b
  <2>2. n \in Above(m) /\ n \notin Above(n)
    BY <1>0, <1>b
  <2> QED
    BY <2>1, <2>2 DEF R, StrictSubsetOrdering
<1> HIDE DEF F, G, R
<1>3. \E m \in T : \A n \in T : m =< n
  <2>1. PICK X \in F : \A Y \in F : ~(<<Y, X>> \in R)
    BY <1>1, <1>2, WFMin
  <2>2. PICK m \in T : X = Below(m)
    BY DEF F
  <2>3. \A n \in T : Below(n) \in F
    BY DEF F
  <2> HIDE DEF Below
  <2>4. \A n \in T : ~(n < m)
    BY <1>a, <2>1, <2>2, <2>3
  <2> QED
    BY <1>0, <2>4
<1>4. \E m \in T : \A n \in T : m >= n
  <2>1. PICK X \in G : \A Y \in G : ~(<<Y, X>> \in R)
    BY <1>1, <1>2, WFMin
  <2>2. PICK m \in T : X = Above(m)
    BY DEF G
  <2>3. \A n \in T : Above(n) \in G
    BY DEF G
  <2> HIDE DEF Above
  <2>4. \A n \in T : ~(n > m)
    BY <1>b, <2>1, <2>2, <2>3
  <2> QED
    BY <1>0, <2>4
<1> QED
  BY <1>3, <1>4 DEF Min, Max

(* What the operations on the disk do to its type.                         *)
LEMMA PartKeepsType ==
    ASSUME Typed, NEW s \in Steps, NEW p \in Parts, NEW st \in PartState,
           NEW ds, ds = WithPart(dirs, s, p, st)
    PROVE  /\ DOMAIN ds \subseteq Steps /\ DOMAIN dirs \subseteq DOMAIN ds
           /\ \A d \in DOMAIN ds : ds[d] \in Directory
           /\ IsFiniteSet(DOMAIN ds)
<1>1. DOMAIN ds = DOMAIN dirs \cup {s} /\ \A d \in DOMAIN ds : ds[d] \in Directory
  BY PartOfDirs, ZenonT(30) DEF Typed
<1>2. IsFiniteSet(DOMAIN dirs \cup {s})
  BY FS_AddElement DEF Typed
<1> QED
  BY <1>1, <1>2 DEF Typed, TypeOK

LEMMA HeadOfRotation ==
    ASSUME Typed, NEW role \in Roles, RotationFull(role)
    PROVE  Head(rotation[role]) \in Steps /\ Tail(rotation[role]) \in Seq(Steps)
<1>1. rotation[role] \in Seq(Steps) /\ RotationLimit(role) \in Nat
  BY RetentionAssumption DEF Typed, TypeOK, RotationLimit, Roles
<1>2. rotation[role] # <<>>
  BY <1>1 DEF RotationFull
<1> QED
  BY <1>1, <1>2

LEMMA SaveKeepsTypes ==
    ASSUME Typed,
           \/ \E role \in Roles : Rotate(role) \/ WriteShards(role)
           \/ WriteData
    PROVE  Typed'
<1> USE DEF Typed
<1>1. ASSUME NEW role \in Roles, Rotate(role) PROVE Typed'
  <2>1. CASE ~RotationFull(role)
    BY <1>1, <2>1 DEF Rotate, At, Roles, TypeOK
  <2>2. CASE RotationFull(role)
    <3>1. /\ dirs' = WithoutPart(dirs, Head(rotation[role]), role)
          /\ rotation' = [rotation EXCEPT ![role] = Tail(@)]
          /\ pc' = role
          /\ UNCHANGED <<status, step, position, best, score, kept, garbage, tracker, launches>>
      BY <1>1, <2>2 DEF Rotate
    <3>2. Head(rotation[role]) \in Steps /\ Tail(rotation[role]) \in Seq(Steps)
      BY <2>2, HeadOfRotation
    <3>3. /\ DOMAIN dirs' \subseteq Steps /\ DOMAIN dirs \subseteq DOMAIN dirs'
          /\ \A d \in DOMAIN dirs' : dirs'[d] \in Directory
          /\ IsFiniteSet(DOMAIN dirs')
      BY <3>1, <3>2, PartRemoved DEF TypeOK
    <3> QED
      BY <3>1, <3>2, <3>3 DEF TypeOK, Roles
  <2> QED
    BY <2>1, <2>2
<1>2. ASSUME NEW role \in Roles, WriteShards(role) PROVE Typed'
  <2> DEFINE W == WithPart(dirs, step, role, "complete")
  <2>1. /\ dirs' = [W EXCEPT ![step].score = score] /\ status = "training"
        /\ rotation' = [rotation EXCEPT ![role] = Append(@, step)]
        /\ pc' \in {"rotate_critic", "data"}
        /\ UNCHANGED <<status, step, position, best, score, kept, garbage, tracker, launches>>
    BY <1>2 DEF WriteShards, At
  <2>2. step \in Steps
    BY <2>1 DEF Steps, TypeOK
  <2>3. /\ DOMAIN W \subseteq Steps /\ DOMAIN dirs \subseteq DOMAIN W
        /\ \A d \in DOMAIN W : W[d] \in Directory
        /\ IsFiniteSet(DOMAIN W)
    BY <2>2, PartNames, PartKeepsType
  <2> HIDE DEF W
  <2>4. DOMAIN dirs' = DOMAIN W /\ \A d \in DOMAIN dirs' : dirs'[d] \in Directory
    BY <2>1, <2>3 DEF Directory, TypeOK
  <2>5. rotation' \in [Roles -> Seq(Steps)]
    BY <2>1, <2>2 DEF TypeOK
  <2> QED
    BY <2>1, <2>2, <2>3, <2>4, <2>5 DEF TypeOK
<1>3. CASE WriteData
  <2> DEFINE W == WithPart(dirs, step, "data", "complete")
  <2>1. /\ dirs' = [W EXCEPT ![step].at = position] /\ status = "training"
        /\ pc' \in {"prune", "open"}
        /\ UNCHANGED <<status, step, position, best, score, rotation, kept, garbage, tracker, launches>>
    BY <1>3 DEF WriteData, At
  <2>2. step \in Steps
    BY <2>1 DEF Steps, TypeOK
  <2>3. /\ DOMAIN W \subseteq Steps /\ DOMAIN dirs \subseteq DOMAIN W
        /\ \A d \in DOMAIN W : W[d] \in Directory
        /\ IsFiniteSet(DOMAIN W)
    BY <2>2, PartNames, PartKeepsType
  <2> HIDE DEF W
  <2>4. DOMAIN dirs' = DOMAIN W /\ \A d \in DOMAIN dirs' : dirs'[d] \in Directory
    BY <2>1, <2>3 DEF Directory, TypeOK
  <2> QED
    BY <2>1, <2>2, <2>3, <2>4 DEF TypeOK
<1> QED
  BY <1>1, <1>2, <1>3

(* What is kept are directories on disk.                                   *)
LEMMA KeepOnDisk == Keep \subseteq DOMAIN dirs
BY DEF Keep, Newest

LEMMA RemovalKeepsTypes ==
    ASSUME Typed, Prune \/ RemoveDirectory \/ OpenTracker \/ WriteTracker
    PROVE  Typed'
<1> USE DEF Typed, At
<1>1. CASE Prune
  <2>1. kept' \subseteq DOMAIN dirs /\ IsFiniteSet(kept')
    BY <1>1, KeepOnDisk, FS_Subset DEF Prune
  <2> QED
    BY <1>1, <2>1 DEF Prune, TypeOK
<1>2. CASE RemoveDirectory
  <2>1. CASE garbage = {}
    BY <1>2, <2>1 DEF RemoveDirectory, TypeOK
  <2>2. CASE garbage # {}
    <3>1. /\ dirs' = Without(dirs, {Min(garbage)})
          /\ garbage' = garbage \ {Min(garbage)}
          /\ UNCHANGED <<status, pc, step, position, best, score, rotation, kept, tracker, launches>>
      BY <1>2, <2>2 DEF RemoveDirectory
    <3>2. /\ DOMAIN dirs' = DOMAIN dirs \ {Min(garbage)}
          /\ \A d \in DOMAIN dirs' : dirs'[d] = dirs[d]
      BY <3>1 DEF Without
    <3>3. IsFiniteSet(DOMAIN dirs')
      BY <3>2, FS_RemoveElement
    <3> QED
      BY <3>1, <3>2, <3>3 DEF TypeOK
  <2> QED
    BY <2>1, <2>2
<1>3. CASE OpenTracker
  BY <1>3 DEF OpenTracker, TypeOK
<1>4. CASE WriteTracker
  <2>1. tracker' \in Steps
    <3>1. CASE kept = {}
      BY <1>4, <3>1 DEF WriteTracker, TypeOK, Steps
    <3>2. CASE kept # {}
      <4>1. kept \in SUBSET Int /\ kept \subseteq Steps
        BY DEF TypeOK, Steps
      <4>2. Max(kept) \in kept
        BY <3>2, <4>1, Extremes
      <4> QED
        BY <1>4, <3>2, <4>1, <4>2 DEF WriteTracker
    <3> QED
      BY <3>1, <3>2
  <2> QED
    BY <1>4, <2>1, FS_EmptySet DEF WriteTracker, TypeOK
<1> QED
  BY <1>1, <1>2, <1>3, <1>4

LEMMA CrashKeepsTypes ==
    ASSUME Typed, Crash
    PROVE  Typed'
<1> USE DEF Typed
<1>1. /\ dirs' \in {dirs} \cup TornDisk /\ status = "training" /\ status' = "down"
      /\ UNCHANGED <<pc, step, position, best, score, rotation, kept, garbage, tracker, launches>>
  BY DEF Crash, jobVars
<1>2. ASSUME /\ DOMAIN dirs' \subseteq Steps /\ DOMAIN dirs \subseteq DOMAIN dirs'
             /\ \A d \in DOMAIN dirs' : dirs'[d] \in Directory
             /\ IsFiniteSet(DOMAIN dirs')
      PROVE  Typed'
  BY <1>1, <1>2 DEF TypeOK
<1>3. CASE dirs' = dirs
  BY <1>2, <1>3 DEF TypeOK
<1>4. ASSUME NEW role \in Roles, dirs' \in TornRotation(role) PROVE Typed'
  <2>1. RotationFull(role) /\ dirs' = WithPart(dirs, Head(rotation[role]), role, "partial")
    BY <1>4 DEF TornRotation
  <2>2. Head(rotation[role]) \in Steps /\ role \in Parts /\ "partial" \in PartState
    BY <2>1, HeadOfRotation, PartNames
  <2> HIDE DEF Typed
  <2> QED
    BY <1>2, <2>1, <2>2, PartKeepsType
<1>5. CASE pc \in Parts /\ dirs' = WithPart(dirs, step, pc, "partial")
  <2>1. step \in Steps /\ "partial" \in PartState
    BY <1>1, PartNames DEF TypeOK, Steps
  <2> HIDE DEF Typed
  <2> QED
    BY <1>2, <1>5, <2>1, PartKeepsType
<1>6. CASE dirs' \in TornRemoval
  <2>1. garbage # {} /\ garbage \in SUBSET Int /\ garbage \subseteq DOMAIN dirs
    BY <1>6 DEF TornRemoval, TypeOK, Steps
  <2>2. IsFiniteSet(garbage)
    BY <2>1, FS_Subset
  <2> DEFINE s == Min(garbage)
  <2>3. s \in DOMAIN dirs
    BY <2>1, <2>2, Extremes
  <2>4. PICK left \in [Parts -> PartState] : dirs' = [dirs EXCEPT ![s].part = left]
    BY <1>6, <2>1 DEF TornRemoval
  <2> HIDE DEF s
  <2>5. dirs[s] \in Directory
    BY <2>3 DEF TypeOK
  <2>6. [dirs[s] EXCEPT !.part = left] \in Directory
    BY <2>5 DEF Directory
  <2>7. DOMAIN dirs' = DOMAIN dirs /\ \A d \in DOMAIN dirs' : dirs'[d] \in Directory
    BY <2>3, <2>4, <2>6 DEF TypeOK
  <2> QED
    BY <1>2, <2>7 DEF TypeOK
<1>7. \/ dirs' = dirs
      \/ \E role \in Roles : dirs' \in TornRotation(role)
      \/ pc \in Parts /\ dirs' = WithPart(dirs, step, pc, "partial")
      \/ dirs' \in TornRemoval
  BY <1>1 DEF TornDisk, Parts, Roles
<1> QED
  BY <1>3, <1>4, <1>5, <1>6, <1>7

(* A launch that goes on, goes on behind a step on disk or from scratch.   *)
LEMMA LaunchStarts ==
    ASSUME Typed, NEW mode \in ResumeModes, Launch(mode)
    PROVE  /\ launches' = launches + 1 /\ UNCHANGED <<dirs, tracker>>
           /\ \/ Fail
              \/ \E s \in Nat, p \in Nat : StartAfter(s, p)
<1>1. \A s \in DOMAIN dirs : s \in Nat /\ dirs[s].at \in Nat
  BY DEF Typed, TypeOK, Steps, Directory
<1>2. ASSUME NEW s \in DOMAIN dirs, LoadFrom(s)
      PROVE  Fail \/ \E t \in Nat, p \in Nat : StartAfter(t, p)
  <2>1. CASE ~Loads(s)
    BY <1>2, <2>1 DEF LoadFrom
  <2>2. CASE Loads(s) /\ dirs[s].part["data"] = "complete"
    <3>1. StartAfter(s, dirs[s].at)
      BY <1>2, <2>2 DEF LoadFrom
    <3> QED
      BY <1>1, <3>1
  <2>3. CASE Loads(s) /\ dirs[s].part["data"] # "complete"
    <3>1. StartAfter(s, 0)
      BY <1>2, <2>3 DEF LoadFrom
    <3> QED
      BY <1>1, <3>1
  <2> QED
    BY <2>1, <2>2, <2>3
<1>3. CASE mode = "auto"
  <2>1. ResumeAuto
    BY <1>3 DEF Launch
  <2>2. StartAfter(0, 0) => \E t \in Nat, p \in Nat : StartAfter(t, p)
    OBVIOUS
  <2> QED
    BY <1>2, <2>1, <2>2 DEF ResumeAuto, Launch
<1>4. CASE mode = "disable"
  <2>1. StartAfter(0, 0)
    BY <1>4 DEF Launch
  <2> QED
    BY <2>1 DEF Launch
<1>5. CASE mode = "resume_path"
  BY <1>2, <1>5 DEF Launch, ResumePath
<1> QED
  BY <1>3, <1>4, <1>5, LaunchAssumption

LEMMA LaunchKeepsTypes ==
    ASSUME Typed, NEW mode \in ResumeModes, Launch(mode)
    PROVE  Typed'
<1> USE DEF Typed
<1>1. launches' = launches + 1 /\ UNCHANGED <<dirs, tracker>>
  BY LaunchStarts
<1>2. CASE Fail
  BY <1>1, <1>2 DEF Fail, jobVars, TypeOK
<1>3. ASSUME NEW s \in Nat, NEW p \in Nat, StartAfter(s, p) PROVE Typed'
  BY <1>1, <1>3, FS_EmptySet DEF StartAfter, TypeOK, Roles, Steps, NoScore, NoStep
<1> QED
  BY <1>2, <1>3, LaunchStarts

LEMMA InitTyped == Init => Typed
<1> SUFFICES ASSUME Init PROVE Typed
  OBVIOUS
<1>1. DOMAIN dirs = {} /\ kept = {} /\ IsFiniteSet({})
  BY FS_EmptySet DEF Init
<1>2. TypeOK
  BY DEF Init, TypeOK, NoTracker, Torn, NoScore, NoStep, Steps
<1> QED
  BY <1>1, <1>2 DEF Typed, Init

LEMMA NextTyped == Typed /\ [Next]_vars => Typed'
<1> SUFFICES ASSUME Typed, [Next]_vars PROVE Typed'
  OBVIOUS
<1>1. ASSUME NEW sc \in Scores \cup {NoScore}, TrainStep(sc) PROVE Typed'
  <2>1. best' \in [score: Scores \cup {NoScore}, step: Nat]
    BY <1>1 DEF TrainStep, Typed, TypeOK
  <2>2. /\ position' \in Nat /\ score' = sc /\ pc' \in {"rotate_actor", "advance"}
        /\ UNCHANGED <<status, step, rotation, kept, garbage, dirs, tracker, launches>>
    BY <1>1 DEF TrainStep, Typed, TypeOK
  <2> QED
    BY <2>1, <2>2 DEF Typed, TypeOK
<1>2. CASE Advance
  BY <1>2 DEF Advance, At, Typed, TypeOK
<1>3. CASE UNCHANGED vars
  BY <1>3 DEF vars, jobVars, Typed, TypeOK
<1> QED
  BY <1>1, <1>2, <1>3, SaveKeepsTypes, RemovalKeepsTypes, CrashKeepsTypes, LaunchKeepsTypes
  DEF Next, Work

LEMMA AlwaysTyped == Spec => []Typed
  BY InitTyped, NextTyped, PTL DEF Spec

(* TypeOK in every mode: whatever is kept, rotated and resumed from, what  *)
(* a kill leaves behind is a directory of parts, and the tracker file      *)
(* never names anything but a step.                                        *)
THEOREM TypeCorrect == Spec => []TypeOK
<1>1. Typed => TypeOK
  BY DEF Typed
<1> QED
  BY <1>1, AlwaysTyped, PTL

-----------------------------------------------------------------------------
(***************************************************************************)
(* The best checkpoint, when save_best_checkpoint is on: the retention of  *)
(* _prune_checkpoints and the leftovers of earlier launches do not touch   *)
(* it, provided that the critic's manager rotates nothing.                 *)
(***************************************************************************)
BestMode == SaveBest /\ (MaxCritic = 0 \/ ~UseCritic)

Saved(s) ==
    /\ s \in DOMAIN dirs
    /\ Loads(s)
    /\ dirs[s].score = best.score

(* The best step of this launch is behind, and kept, or it is this one and *)
(* the parts of it that are written carry its score.                       *)
BestBehind ==
    best.step < step /\ (best.step # NoStep => Saved(best.step))

BestCurrent ==
    /\ best.step = step /\ score = best.score
    /\ pc \in {"rotate_critic", "critic", "data", "prune", "remove", "open", "write", "advance"} =>
            /\ step \in DOMAIN dirs
            /\ dirs[step].part["actor"] = "complete"
            /\ dirs[step].score = score
    /\ pc \in {"data", "prune", "remove", "open", "write", "advance"} /\ UseCritic =>
            dirs[step].part["critic"] = "complete"
    /\ pc \in {"prune", "remove", "open", "write", "advance"} =>
            dirs[step].part["data"] = "complete"

(* What _prune_checkpoints removes does not include it.                    *)
BestSpared == pc = "remove" => best.step \notin garbage

BestInv ==
    status = "training" =>
        /\ BestBehind \/ (pc # "step" /\ BestCurrent)
        /\ pc \in {"rotate_critic", "critic"} => UseCritic
        /\ BestSpared

LEMMA NothingRotated ==
    ASSUME BestMode, BestInv, NEW role \in Roles, Rotate(role)
    PROVE  ~RotationFull(role)
<1>1. CASE role = "actor"
  BY <1>1 DEF BestMode, RotationFull, RotationLimit
<1>2. CASE role = "critic"
  <2>1. MaxCritic = 0
    BY <1>2 DEF Rotate, At, BestMode, BestInv
  <2> QED
    BY <1>2, <2>1 DEF RotationFull, RotationLimit
<1> QED
  BY <1>1, <1>2 DEF Roles

(* What an action does to dirs leaves a best that is behind alone.         *)
LEMMA BehindStays ==
    ASSUME BestBehind, UNCHANGED <<best, step>>,
           best.step # NoStep =>
                best.step \in DOMAIN dirs' /\ dirs'[best.step] = dirs[best.step]
    PROVE  BestBehind'
BY DEF BestBehind, Saved, Loads

LEMMA SaveKeepsBest ==
    ASSUME BestMode, Typed, BestInv,
           \/ \E role \in Roles : Rotate(role) \/ WriteShards(role)
           \/ WriteData
    PROVE  BestInv'
<1>t. best.step \in Nat /\ step \in Nat
  BY DEF Typed, TypeOK
<1>1. ASSUME NEW role \in Roles, Rotate(role) PROVE BestInv'
  <2>1. /\ status = "training" /\ pc = (IF role = "actor" THEN "rotate_actor" ELSE "rotate_critic")
        /\ pc' = role
        /\ UNCHANGED <<status, step, position, best, score, dirs, garbage>>
    BY <1>1, NothingRotated DEF Rotate, At
  <2>2. pc' # "step" /\ pc' # "remove" /\ (pc' = "critic" => UseCritic) /\ pc' # "rotate_critic"
    BY <2>1 DEF Roles, BestInv
  <2>3. CASE BestBehind
    <3>1. BestBehind'
      BY <2>1, <2>3, BehindStays DEF BestBehind, Saved
    <3> QED
      BY <2>2, <3>1 DEF BestInv, BestSpared
  <2>4. CASE BestCurrent
    <3>1. BestCurrent'
      BY <2>1, <2>4 DEF BestCurrent, Roles
    <3> QED
      BY <2>2, <3>1 DEF BestInv, BestSpared
  <2> QED
    BY <2>1, <2>3, <2>4 DEF BestInv
<1>2. ASSUME NEW role \in Roles, WriteShards(role) PROVE BestInv'
  <2> DEFINE W == WithPart(dirs, step, role, "complete")
             V == [W EXCEPT ![step].score = score]
  <2>1. /\ status = "training" /\ pc = role /\ dirs' = V
        /\ pc' = IF role = "actor" /\ UseCritic THEN "rotate_critic" ELSE "data"
        /\ UNCHANGED <<status, step, position, best, score, garbage>>
    BY <1>2 DEF WriteShards, At
  <2>2. step \in Steps
    BY <2>1 DEF Steps, Typed, TypeOK
  <2>3. /\ DOMAIN W = DOMAIN dirs \cup {step}
        /\ \A d \in DOMAIN dirs \cup {step} : W[d] \in Directory
        /\ \A d \in DOMAIN dirs \ {step} : W[d] = dirs[d]
        /\ W[step].part[role] = "complete"
        /\ step \in DOMAIN dirs => \A q \in Parts \ {role} : W[step].part[q] = dirs[step].part[q]
    <3>1. role \in Parts /\ "complete" \in PartState /\ TypeOK
      BY PartNames DEF Typed
    <3> QED
      BY <2>2, <3>1, PartOfDirs, ZenonT(30)
  <2>4. W = [d \in DOMAIN W |-> W[d]]
    BY DEF WithPart
  <2> HIDE DEF W
  <2>5. /\ DOMAIN V = DOMAIN dirs \cup {step}
        /\ \A d \in DOMAIN dirs \ {step} : V[d] = dirs[d]
        /\ V[step] = [W[step] EXCEPT !.score = score]
    BY <2>3, <2>4
  <2>6. V[step].part = W[step].part /\ V[step].score = score
    <3>1. W[step] \in Directory
      BY <2>3
    <3> QED
      BY <2>5, <3>1 DEF Directory
  <2> HIDE DEF V
  <2>7. /\ pc' \notin {"step", "remove"} /\ (pc' \in {"rotate_critic", "critic"} => UseCritic)
        /\ (pc = "critic" => UseCritic)
    BY <2>1 DEF BestInv
  <2>8. CASE BestBehind
    <3>1. BestBehind'
      BY <1>t, <2>1, <2>5, <2>8, BehindStays DEF BestBehind, Saved
    <3> QED
      BY <2>7, <3>1 DEF BestInv, BestSpared
  <2>9. CASE BestCurrent
    <3>1. role = "critic" => step \in DOMAIN dirs /\ dirs[step].part["actor"] = "complete"
      BY <2>1, <2>9 DEF BestCurrent
    <3>2. V[step].part["actor"] = "complete"
      BY <2>3, <2>6, <3>1 DEF Roles, Parts
    <3>3. pc' = "data" /\ UseCritic => V[step].part["critic"] = "complete"
      BY <2>1, <2>3, <2>6 DEF Roles
    <3>4. BestCurrent'
      BY <2>1, <2>5, <2>6, <2>9, <3>2, <3>3 DEF BestCurrent
    <3> QED
      BY <2>7, <3>4 DEF BestInv, BestSpared
  <2> QED
    BY <2>1, <2>8, <2>9 DEF BestInv
<1>3. CASE WriteData
  <2> DEFINE W == WithPart(dirs, step, "data", "complete")
             V == [W EXCEPT ![step].at = position]
  <2>1. /\ status = "training" /\ pc = "data" /\ dirs' = V /\ pc' \in {"prune", "open"}
        /\ UNCHANGED <<status, step, position, best, score, garbage>>
    BY <1>3 DEF WriteData, At
  <2>2. step \in Steps
    BY <2>1 DEF Steps, Typed, TypeOK
  <2>3. /\ DOMAIN W = DOMAIN dirs \cup {step}
        /\ \A d \in DOMAIN dirs \cup {step} : W[d] \in Directory
        /\ \A d \in DOMAIN dirs \ {step} : W[d] = dirs[d]
        /\ W[step].part["data"] = "complete"
        /\ step \in DOMAIN dirs =>
                /\ \A q \in Parts \ {"data"} : W[step].part[q] = dirs[step].part[q]
                /\ W[step].score = dirs[step].score
    <3>1. "data" \in Parts /\ "complete" \in PartState /\ TypeOK
      BY PartNames DEF Typed
    <3> QED
      BY <2>2, <3>1, PartOfDirs, ZenonT(30)
  <2>4. W = [d \in DOMAIN W |-> W[d]]
    BY DEF WithPart
  <2> HIDE DEF W
  <2>5. /\ DOMAIN V = DOMAIN dirs \cup {step}
        /\ \A d \in DOMAIN dirs \ {step} : V[d] = dirs[d]
        /\ V[step] = [W[step] EXCEPT !.at = position]
    BY <2>3, <2>4
  <2>6. V[step].part = W[step].part /\ V[step].score = W[step].score
    <3>1. W[step] \in Directory
      BY <2>3
    <3> QED
      BY <2>5, <3>1 DEF Directory
  <2> HIDE DEF V
  <2>8. CASE BestBehind
    <3>1. BestBehind'
      BY <1>t, <2>1, <2>5, <2>8, BehindStays DEF BestBehind, Saved
    <3> QED
      BY <2>1, <3>1 DEF BestInv, BestSpared
  <2>9. CASE BestCurrent
    <3>1. BestCurrent'
      BY <2>1, <2>3, <2>5, <2>6, <2>9 DEF BestCurrent, Roles, Parts
    <3> QED
      BY <2>1, <3>1 DEF BestInv, BestSpared
  <2> QED
    BY <2>1, <2>8, <2>9 DEF BestInv
<1> QED
  BY <1>1, <1>2, <1>3

LEMMA PruneKeepsBest ==
    ASSUME Typed, BestInv, Prune \/ RemoveDirectory
    PROVE  BestInv'
<1>1. CASE Prune
  <2>1. /\ status = "training" /\ pc = "prune" /\ pc' = "remove" /\ garbage' = DOMAIN dirs \ Keep
        /\ UNCHANGED <<status, step, best, score, dirs>>
    BY <1>1 DEF Prune, At
  <2>2. best.step \in DOMAIN dirs => best.step \in Keep
    BY DEF Keep
  <2>3. BestSpared'
    BY <2>1, <2>2 DEF BestSpared
  <2>4. BestBehind => BestBehind'
    BY <2>1 DEF BestBehind, Saved, Loads
  <2>5. BestCurrent => BestCurrent'
    BY <2>1 DEF BestCurrent
  <2> QED
    BY <2>1, <2>3, <2>4, <2>5 DEF BestInv
<1>2. CASE RemoveDirectory /\ garbage = {}
  <2>1. /\ status = "training" /\ pc = "remove" /\ pc' = "open"
        /\ UNCHANGED <<status, step, best, score, dirs>>
    BY <1>2 DEF RemoveDirectory, At
  <2>4. BestBehind => BestBehind'
    BY <2>1 DEF BestBehind, Saved, Loads
  <2>5. BestCurrent => BestCurrent'
    BY <2>1 DEF BestCurrent
  <2> QED
    BY <2>1, <2>4, <2>5 DEF BestInv, BestSpared
<1>3. CASE RemoveDirectory /\ garbage # {}
  <2> DEFINE s == Min(garbage)
  <2>1. /\ status = "training" /\ pc = "remove"
        /\ dirs' = Without(dirs, {s}) /\ garbage' = garbage \ {s}
        /\ UNCHANGED <<status, pc, step, best, score>>
    BY <1>3 DEF RemoveDirectory, At
  <2>2. s \in garbage
    <3>1. garbage \in SUBSET Int /\ garbage \subseteq DOMAIN dirs
      BY DEF Typed, TypeOK, Steps
    <3>2. IsFiniteSet(garbage)
      BY <3>1, FS_Subset DEF Typed
    <3> QED
      BY <1>3, <3>1, <3>2, Extremes
  <2>3. best.step # s
    BY <2>1, <2>2 DEF BestInv, BestSpared
  <2> HIDE DEF s
  <2>4. DOMAIN dirs' = DOMAIN dirs \ {s} /\ \A d \in DOMAIN dirs' : dirs'[d] = dirs[d]
    BY <2>1 DEF Without
  <2>5. BestBehind => BestBehind'
    BY <2>1, <2>3, <2>4, BehindStays DEF BestBehind, Saved
  <2>6. BestCurrent => BestCurrent'
    BY <2>1, <2>3, <2>4 DEF BestCurrent
  <2> QED
    BY <2>1, <2>5, <2>6 DEF BestInv, BestSpared
<1> QED
  BY <1>1, <1>2, <1>3

LEMMA NextBest == BestMode /\ Typed /\ BestInv /\ [Next]_vars => BestInv'
<1> SUFFICES ASSUME BestMode, Typed, BestInv, [Next]_vars PROVE BestInv'
  OBVIOUS
<1>t. best.step \in Nat /\ step \in Nat
  BY DEF Typed, TypeOK
<1>1. ASSUME NEW sc \in Scores \cup {NoScore}, TrainStep(sc) PROVE BestInv'
  <2>1. /\ status = "training" /\ pc = "step" /\ score' = sc
        /\ pc' \in {"rotate_actor", "advance"} /\ UNCHANGED <<status, step, dirs, garbage>>
    BY <1>1 DEF TrainStep, At
  <2>2. BestBehind
    BY <2>1 DEF BestInv
  <2>3. CASE SaveBest /\ sc > best.score
    <3>1. best' = [score |-> sc, step |-> step] /\ pc' = "rotate_actor"
      BY <1>1, <2>3 DEF TrainStep, ShouldSave
    <3>2. BestCurrent'
      BY <2>1, <3>1 DEF BestCurrent
    <3> QED
      BY <3>1, <3>2 DEF BestInv, BestSpared
  <2>4. CASE ~(SaveBest /\ sc > best.score)
    <3>1. best' = best
      BY <1>1, <2>4 DEF TrainStep
    <3>2. BestBehind'
      BY <2>1, <2>2, <3>1 DEF BestBehind, Saved, Loads
    <3> QED
      BY <2>1, <3>2 DEF BestInv, BestSpared
  <2> QED
    BY <2>3, <2>4
<1>2. CASE OpenTracker \/ WriteTracker
  <2>1. /\ pc' \in {"write", "advance"} /\ pc \in {"open", "write"} /\ status = "training"
        /\ UNCHANGED <<status, step, best, score, dirs>>
    BY <1>2 DEF OpenTracker, WriteTracker, At
  <2>2. BestBehind => BestBehind'
    BY <2>1 DEF BestBehind, Saved, Loads
  <2>3. BestCurrent => BestCurrent'
    BY <2>1 DEF BestCurrent
  <2> QED
    BY <2>1, <2>2, <2>3 DEF BestInv, BestSpared
<1>3. CASE Advance
  <2>1. status = "training" /\ pc = "advance" /\ UNCHANGED <<best, dirs>>
    BY <1>3 DEF Advance, At
  <2>2. CASE IsLastStep
    BY <1>3, <2>2 DEF Advance, BestInv
  <2>3. CASE ~IsLastStep
    <3>1. pc' = "step" /\ step' = step + 1
      BY <1>3, <2>3 DEF Advance
    <3>2. BestBehind \/ BestCurrent
      BY <2>1 DEF BestInv
    <3>3. best.step < step' /\ (best.step # NoStep => Saved(best.step))
      BY <1>t, <2>1, <3>1, <3>2 DEF BestBehind, BestCurrent, Saved, Loads
    <3>4. BestBehind'
      BY <2>1, <3>3 DEF BestBehind, Saved, Loads
    <3> QED
      BY <3>1, <3>4 DEF BestInv, BestSpared
  <2> QED
    BY <2>2, <2>3
<1>4. CASE Crash
  BY <1>4 DEF Crash, BestInv
<1>5. ASSUME NEW mode \in ResumeModes, Launch(mode) PROVE BestInv'
  <2>1. CASE Fail
    BY <2>1 DEF Fail, BestInv
  <2>2. ASSUME NEW s \in Nat, NEW p \in Nat, StartAfter(s, p) PROVE BestInv'
    BY <2>2 DEF StartAfter, BestInv, BestBehind, BestSpared, NoStep, NoScore
  <2> QED
    BY <1>5, <2>1, <2>2, LaunchStarts
<1>6. CASE UNCHANGED vars
  BY <1>6 DEF vars, jobVars, BestInv, BestBehind, BestCurrent, BestSpared, Saved, Loads
<1> QED
  BY <1>1, <1>2, <1>3, <1>4, <1>5, <1>6, SaveKeepsBest, PruneKeepsBest DEF Next, Work

(* BestRetained: once it is saved, the best validated step of a launch     *)
(* stays on disk whole, for any retention limit and frequency, whatever    *)
(* directories earlier launches left behind, resumed from or not.          *)
THEOREM BestStays == BestMode /\ Spec => []BestRetained
<1>1. Init => BestInv
  BY DEF Init, BestInv
<1>2. ASSUME BestMode PROVE Typed /\ BestInv /\ [Next]_vars => BestInv'
  BY <1>2, NextBest
<1>3. Typed /\ BestInv => BestRetained
  <2> SUFFICES ASSUME Typed, BestInv, status = "training", best.step # NoStep,
                      pc = "advance" \/ best.step < step
               PROVE  Saved(best.step)
    BY DEF BestRetained, Saved
  <2>1. best.step \in Nat /\ step \in Nat
    BY DEF Typed, TypeOK
  <2>2. CASE BestBehind
    BY <2>2 DEF BestBehind
  <2>3. CASE BestCurrent
    BY <2>1, <2>3 DEF BestCurrent, Saved, Loads
  <2> QED
    BY <2>2, <2>3 DEF BestInv
<1>4. ASSUME BestMode PROVE Spec => []BestRetained
  BY <1>1, <1>2, <1>3, <1>4, AlwaysTyped, PTL DEF Spec
<1> QED
  BY <1>4

=============================================================================
