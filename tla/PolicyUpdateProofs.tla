------------------------- MODULE PolicyUpdateProofs -------------------------
(***************************************************************************)
(* Updates of any configuration that JobsAssumption allows, with any       *)
(* number of ranks and rows, of any lengths: the diagnostics of            *)
(* update_policy leave no trace in the random state; no rank is left       *)
(* waiting; a gradient is of its mini-batch; the losses' factors add up;   *)
(* what is inferred is of its row and token.                               *)
(*                                                                         *)
(* The three in the middle are of one invariant, PassInv: all ranks'       *)
(* micro-batches are partitions of the rows into the same number, which    *)
(* Split and, by RearrangedRows, rearrange_micro_batches give; and what a  *)
(* pass has gathered is of the micro-batches before the next, which share  *)
(* no row with it.                                                         *)
(*                                                                         *)
(* The last, InferInv, follows the tokens: in the order in which packing   *)
(* lays them, through the slices of a group, back to their places and out  *)
(* of the micro-batches by the reverse index.                              *)
(***************************************************************************)
EXTENDS Updates, SeqlenBalanceProofs, TLAPS

\* Outside the passes of a mini-batch, and in the training pass, the random
\* state is that of an update without diagnostics; while they run, what was
\* saved before them is, and the training pass starts from it.
Untouched == pc \in {"infer", "merge", "split", "end"} => rng = trained
Training == pc \in {"backward", "norm"} /\ pass = "train" => rng = trained
Kept ==
    pc \in {"zero", "backward", "norm"} /\ (pc = "zero" \/ pass # "train") =>
        IF job.diagnose THEN saved = trained ELSE rng = trained /\ pass = "train"

\* Only the FSDP actor has passes other than the training one.
OnePass == job.role # "actor" \/ job.engine # "fsdp" => pass = "train" /\ ~job.diagnose
Roles == job.role \in {"actor", "critic", "reward"}
IInv == Untouched /\ Training /\ Kept /\ OnePass /\ Roles

\* The invariant holds at first,
LEMMA InitIInv == Init => IInv
<1> SUFFICES ASSUME Init PROVE IInv
  OBVIOUS
<1>1. PICK c \in Jobs : job = Normalized(c)
  BY DEF Init
<1>2. job.role = c.role /\ job.engine = c.engine /\ job.diagnose = c.diagnose
  BY <1>1 DEF Normalized
<1>3. /\ c.role \in {"actor", "critic", "reward"}
      /\ c.role # "actor" => ~c.diagnose
      /\ c.engine # "fsdp" => ~c.diagnose
  BY JobsAssumption
<1> QED
  BY <1>2, <1>3 DEF Init, IInv, Untouched, Training, Kept, OnePass, Roles

\* The FSDP workers, each action by itself.
LEMMA NextIInv == IInv /\ job.engine = "fsdp" /\ Next => IInv'
<1> SUFFICES ASSUME IInv, Next PROVE IInv'
  OBVIOUS
<1> USE DEF IInv, Untouched, Training, Kept, OnePass, Roles
<1>1. CASE ComputeLogProb \/ ComputeValues \/ ComputeScores
  BY <1>1 DEF ComputeLogProb, ComputeValues, ComputeScores, InferIn
<1>2. CASE LogProbs \/ Values \/ Scores
  BY <1>2 DEF LogProbs, Values, Scores, InferMerge
<1>3. CASE SplitMiniBatch
  BY <1>3 DEF SplitMiniBatch, FirstPass
<1>4. CASE ValueMiniBatch
  BY <1>4 DEF ValueMiniBatch, StartMiniBatch
<1>5. CASE BeginDiagnostic
  BY <1>5 DEF BeginDiagnostic, StartPass
<1>6. CASE BeginTraining
  BY <1>6 DEF BeginTraining, StartPass
<1>7. CASE DiagnosticBackward
  BY <1>7 DEF DiagnosticBackward, Accumulate
<1>8. CASE TrainingBackward
  BY <1>8 DEF TrainingBackward, Accumulate
<1>9. CASE ValueBackward
  BY <1>9 DEF ValueBackward, Accumulate
<1>10. CASE LastBackward
  BY <1>10 DEF LastBackward
<1>11. CASE Measure
  BY <1>11 DEF Measure
<1>12. ASSUME NEW finite \in BOOLEAN, Step(finite) \/ ValueStep(finite) PROVE IInv'
  BY <1>12 DEF Step, ValueStep, StepThen
<1> QED
  BY <1>1, <1>2, <1>3, <1>4, <1>5, <1>6, <1>7, <1>8, <1>9, <1>10, <1>11, <1>12 DEF Next

\* The Megatron workers.
LEMMA MegatronIInv == IInv /\ job.engine = "megatron" /\ MegatronNext => IInv'
<1> SUFFICES ASSUME IInv, job.engine = "megatron", MegatronNext PROVE IInv'
  OBVIOUS
<1> USE DEF IInv, Untouched, Training, Kept, OnePass, Roles
<1>1. CASE MegatronLogProb \/ MegatronValues \/ MegatronScores
  <2>1. InferAll
    BY <1>1 DEF MegatronLogProb, MegatronValues, MegatronScores
  <2>2. CASE Feasible(AllRows)
    BY <2>1, <2>2 DEF InferAll, InferIn
  <2>3. CASE ~Feasible(AllRows)
    BY <2>1, <2>3 DEF InferAll
  <2> QED
    BY <2>2, <2>3
<1>2. CASE MegatronLogProbs \/ MegatronValuesInOrder \/ MegatronScoresInOrder
  BY <1>2 DEF MegatronLogProbs, MegatronValuesInOrder, MegatronScoresInOrder, InferMerge
<1>3. ASSUME NEW newOrder \in Orders, MegatronMiniBatch(newOrder) PROVE IInv'
  <2> DEFINE rows == Split(newOrder, job.mini)[mini]
  <2>1. CASE Feasible(rows)
    BY <1>3, <2>1 DEF MegatronMiniBatch, StartMiniBatch
  <2>2. CASE ~Feasible(rows)
    BY <1>3, <2>2 DEF MegatronMiniBatch
  <2> QED
    BY <2>1, <2>2
<1>4. CASE MegatronPolicyBackward \/ MegatronValueBackward
  BY <1>4 DEF MegatronPolicyBackward, MegatronValueBackward, MegatronBackward, Accumulate
<1>5. CASE LastBackward
  BY <1>5 DEF LastBackward
<1>6. ASSUME NEW successful \in BOOLEAN,
             MegatronPolicyStep(successful) \/ MegatronValueStep(successful)
      PROVE  IInv'
  BY <1>6 DEF MegatronPolicyStep, MegatronValueStep, MegatronStep, StepThen
<1> QED
  BY <1>1, <1>2, <1>3, <1>4, <1>5, <1>6 DEF MegatronNext

\* The trainer of supervised fine-tuning.
LEMMA SupervisedIInv == IInv /\ job.engine = "sft" /\ SupervisedNext => IInv'
<1> SUFFICES ASSUME IInv, job.engine = "sft", SupervisedNext PROVE IInv'
  OBVIOUS
<1> USE DEF IInv, Untouched, Training, Kept, OnePass, Roles
<1>1. CASE TrainingStepStart
  BY <1>1 DEF TrainingStepStart, StartMiniBatch
<1>2. CASE ExampleBackward
  BY <1>2 DEF ExampleBackward, Accumulate
<1>3. CASE LastBackward
  BY <1>3 DEF LastBackward
<1>4. ASSUME NEW finite \in BOOLEAN, TrainingStepEnd(finite) PROVE IInv'
  BY <1>4 DEF TrainingStepEnd, StepThen
<1> QED
  BY <1>1, <1>2, <1>3, <1>4 DEF SupervisedNext

\* and every step of any worker keeps it.
LEMMA StepIInv == IInv /\ [UpdatesNext]_vars => IInv'
<1> SUFFICES ASSUME IInv, [UpdatesNext]_vars PROVE IInv'
  OBVIOUS
<1>1. CASE UpdatesNext
  BY <1>1, NextIInv, MegatronIInv, SupervisedIInv DEF UpdatesNext
<1>2. CASE UNCHANGED vars
  BY <1>2 DEF vars, IInv, Untouched, Training, Kept, OnePass, Roles
<1> QED
  BY <1>1, <1>2

\* Training draws what it would draw if no gradient had been diagnosed: the
\* comment of update_policy, "enabling diagnostics does not alter normal training
\* randomness", for every configuration.
THEOREM TrainingRandomness == Spec => []RandomnessUndisturbed
<1>1. IInv => RandomnessUndisturbed
  BY DEF IInv, Training, RandomnessUndisturbed
<1> QED
  BY InitIInv, StepIInv, <1>1, PTL DEF Spec
-----------------------------------------------------------------------------
(* What a batch is cut into.                                                 *)

\* min of Python.
LEMMA SmallerOfTwo ==
    ASSUME NEW a \in Nat, NEW b \in Nat
    PROVE  Min({a, b}) = IF a <= b THEN a ELSE b
<1>1. PICK s : s = {a, b}
  OBVIOUS
<1>2. \E x \in s : \A y \in s : x <= y
  BY <1>1
<1>3. Min(s) \in s /\ \A y \in s : Min(s) <= y
  BY <1>2 DEF Min
<1> QED
  BY <1>1, <1>3

\* part is what rows have after the first a of them.
PieceAfter(part, rows, a) ==
    /\ Len(part) \in Nat \ {0}
    /\ a + Len(part) <= Len(rows)
    /\ DOMAIN part = 1 .. Len(part)
    /\ \A i \in 1 .. Len(part) : part[i] = rows[a + i]

\* The b-th of q pieces of so many rows, all but the last of one size.
PieceOf(part, rows, size, b, q) ==
    /\ PieceAfter(part, rows, (b - 1) * size)
    /\ Len(part) <= size
    /\ b < q => Len(part) = size
    /\ b = q => (b - 1) * size + Len(part) = Len(rows)

\* split gives such pieces.
LEMMA SplitPiece ==
    ASSUME NEW S, NEW rows \in Seq(S), rows # <<>>, NEW size \in Nat \ {0},
           NEW q, q = CeilDiv(Len(rows), size), NEW b \in 1 .. q,
           NEW part, part = Split(rows, size)[b]
    PROVE  part \in Seq(S) /\ PieceOf(part, rows, size, b, q)
<1>1. PICK n \in Nat \ {0} : n = Len(rows) /\ DOMAIN rows = 1 .. n
  OBVIOUS
<1>2. /\ q \in Nat \ {0} /\ q * size >= n /\ (q - 1) * size < n
  BY <1>1, CeilDivType
<1>3. PICK a \in Nat : a = (b - 1) * size
  BY <1>2
<1>4. b * size = a + size /\ b * size \in Nat
  BY <1>2, <1>3
<1>5. b < q => a + size < n
  <2> SUFFICES ASSUME b < q PROVE a + size < n
    OBVIOUS
  <2>1. PICK d \in Nat : q - 1 = b + d
    BY <1>2
  <2>2. (q - 1) * size = b * size + d * size /\ d * size \in Nat
    BY <2>1, <1>2
  <2> QED
    BY <1>2, <1>4, <2>2
<1>6. b = q => a < n /\ a + size >= n
  BY <1>2, <1>3, <1>4
<1>7. a < n
  BY <1>2, <1>5, <1>6
<1>8. PICK l : l = IF a + size <= n THEN size ELSE n - a
  OBVIOUS
<1>9. l \in Nat \ {0}
  BY <1>7, <1>8
<1>10. Min({b * size, n}) = a + l
  <2>1. PICK e \in Nat : e = b * size
    BY <1>4
  <2>2. Min({e, n}) = IF e <= n THEN e ELSE n
    BY SmallerOfTwo
  <2> QED
    BY <1>4, <1>7, <1>8, <2>1, <2>2
<1>11. part = SubSeq(rows, a + 1, a + l)
  BY <1>1, <1>3, <1>10 DEF Split
<1>12. a + l <= n /\ l <= size
  BY <1>9, <1>7, <1>8
<1>13. part = [i \in 1 .. l |-> rows[a + i]]
  BY <1>9, <1>1, <1>11, <1>12
<1>14. Len(part) = l /\ DOMAIN part = 1 .. l /\ part \in Seq(S)
  BY <1>9, <1>1, <1>12, <1>13
<1>15. PieceAfter(part, rows, a)
  BY <1>9, <1>1, <1>12, <1>13, <1>14 DEF PieceAfter
<1>16. b < q => l = size
  BY <1>5, <1>8
<1>17. b = q => a + l = n
  BY <1>6, <1>7, <1>8
<1> QED
  BY <1>1, <1>3, <1>12, <1>14, <1>15, <1>16, <1>17 DEF PieceOf

\* A sequence that has no row twice.
Distinct(rows) == \A i, j \in DOMAIN rows : rows[i] = rows[j] => i = j

\* A mini-batch has rows, and each of them once.
LEMMA MiniBatchRows ==
    ASSUME NEW S, NEW rows \in Seq(S), rows # <<>>, Distinct(rows),
           NEW size \in Nat \ {0}, NEW b \in 1 .. Len(Split(rows, size)),
           NEW part, part = Split(rows, size)[b]
    PROVE  part \in Seq(S) /\ part # <<>> /\ Distinct(part)
<1>1. PICK n \in Nat \ {0} : n = Len(rows) /\ DOMAIN rows = 1 .. n
  OBVIOUS
<1>2. PICK q \in Nat \ {0} : q = CeilDiv(n, size)
  <2>1. n > 0
    OBVIOUS
  <2>2. CeilDiv(n, size) \in Nat /\ CeilDiv(n, size) > 0
    BY <2>1, CeilDivType
  <2> QED
    BY <2>2
<1>3. Len(Split(rows, size)) = q
  BY <1>1, <1>2 DEF Split
<1>4. b \in 1 .. q
  BY <1>3
<1>5. part \in Seq(S) /\ PieceAfter(part, rows, (b - 1) * size)
  BY <1>1, <1>2, <1>4, SplitPiece DEF PieceOf
<1>6. PICK a \in Nat : a = (b - 1) * size
  BY <1>2, <1>4
<1>7. PICK l \in Nat \ {0} : l = Len(part) /\ a + l <= n /\ DOMAIN part = 1 .. l
  BY <1>1, <1>5, <1>6 DEF PieceAfter
<1>8. \A i \in 1 .. l : part[i] = rows[a + i]
  BY <1>5, <1>6, <1>7 DEF PieceAfter
<1>9. ASSUME NEW i \in 1 .. l, NEW j \in 1 .. l, part[i] = part[j] PROVE i = j
  <2>1. a + i \in 1 .. n /\ a + j \in 1 .. n
    BY <1>7
  <2>2. rows[a + i] = rows[a + j]
    BY <1>8, <1>9
  <2>3. a + i = a + j
    BY <1>1, <2>1, <2>2 DEF Distinct
  <2> QED
    BY <2>3
<1> QED
  BY <1>5, <1>7, <1>9 DEF Distinct

\* Micro-batches of a number of rows are a partition of them.
LEMMA SplitPartition ==
    ASSUME NEW n \in Nat \ {0}, NEW size \in Nat \ {0},
           NEW parts, parts = Split([i \in 1 .. n |-> i], size)
    PROVE  /\ CeilDiv(n, size) \in Nat \ {0}
           /\ parts \in Seq(Seq(1 .. n)) /\ Len(parts) = CeilDiv(n, size)
           /\ Partition(parts, n)
<1>1. PICK rows : rows = [i \in 1 .. n |-> i]
  OBVIOUS
<1>2. rows \in Seq(1 .. n) /\ Len(rows) = n /\ rows # <<>> /\ \A i \in 1 .. n : rows[i] = i
  BY <1>1
<1>3. PICK q \in Nat \ {0} : q = CeilDiv(n, size)
  <2>1. n > 0
    OBVIOUS
  <2>2. CeilDiv(n, size) \in Nat /\ CeilDiv(n, size) > 0
    BY <2>1, CeilDivType
  <2> QED
    BY <2>2
<1>4. q * size >= n
  BY <1>3, CeilDivType
<1>5. DOMAIN parts = 1 .. q
  BY <1>1, <1>2, <1>3 DEF Split
<1>6. ASSUME NEW b \in 1 .. q
      PROVE  /\ parts[b] \in Seq(1 .. n) /\ PieceAfter(parts[b], rows, (b - 1) * size)
             /\ Len(parts[b]) <= size
             /\ b < q => Len(parts[b]) = size
             /\ b = q => (b - 1) * size + Len(parts[b]) = n
  <2>1. parts[b] = Split(rows, size)[b]
    BY <1>1
  <2>2. PICK S : S = 1 .. n
    OBVIOUS
  <2>3. rows \in Seq(S)
    BY <1>2, <2>2
  <2>4. PICK part : part = parts[b]
    OBVIOUS
  <2>5. q = CeilDiv(Len(rows), size) /\ part = Split(rows, size)[b]
    BY <1>2, <1>3, <2>1, <2>4
  <2>6. part \in Seq(S) /\ PieceOf(part, rows, size, b, q)
    BY <1>2, <2>3, <2>5, SplitPiece
  <2> QED
    BY <1>2, <2>2, <2>4, <2>6 DEF PieceOf
<1>7. ASSUME NEW b \in 1 .. q, NEW x \in DOMAIN parts[b]
      PROVE  x \in 1 .. size /\ parts[b][x] = (b - 1) * size + x /\ (b - 1) * size + x \in 1 .. n
  <2>1. PICK l \in Nat : l = Len(parts[b]) /\ DOMAIN parts[b] = 1 .. l
    BY <1>6 DEF PieceAfter
  <2>2. PICK a \in Nat : a = (b - 1) * size
    BY <1>3
  <2>3. l <= size /\ a + l <= n /\ parts[b][x] = rows[a + x]
    BY <1>2, <1>6, <1>7, <2>1, <2>2 DEF PieceAfter
  <2>4. x \in 1 .. size /\ a + x \in 1 .. n
    BY <1>7, <2>1, <2>3
  <2> QED
    BY <1>2, <2>2, <2>3, <2>4
<1>8. Numbered(q * size, size, q)
  BY <1>3, RowByRow
<1>9. Once(parts)
  <2> SUFFICES ASSUME NEW b \in 1 .. q, NEW c \in 1 .. q, NEW x \in DOMAIN parts[b],
                      NEW y \in DOMAIN parts[c], parts[b][x] = parts[c][y]
               PROVE  b = c /\ x = y
    BY <1>5 DEF Once
  <2>1. (b - 1) * size + x = (c - 1) * size + y /\ x \in 1 .. size /\ y \in 1 .. size
    BY <1>7
  <2> QED
    BY <1>8, <2>1 DEF Numbered
<1>10. ASSUME NEW v \in 1 .. n PROVE \E b \in 1 .. q : \E x \in DOMAIN parts[b] : parts[b][x] = v
  <2>1. v \in 1 .. q * size
    BY <1>3, <1>4
  <2>2. PICK b \in 1 .. q, x \in 1 .. size : v = (b - 1) * size + x
    BY <1>8, <2>1 DEF Numbered
  <2>3. PICK a \in Nat : a = (b - 1) * size
    BY <1>3
  <2>4. PICK l \in Nat : l = Len(parts[b]) /\ DOMAIN parts[b] = 1 .. l
    BY <1>6 DEF PieceAfter
  <2>5. b < q => l = size
    BY <1>6, <2>4
  <2>6. b = q => a + l = n
    BY <1>6, <2>3, <2>4
  <2>7. x <= l
    BY <1>3, <2>2, <2>3, <2>5, <2>6
  <2>8. x \in DOMAIN parts[b]
    BY <2>4, <2>7
  <2> QED
    BY <1>7, <2>2, <2>8
<1>11. Partition(parts, n)
  BY <1>5, <1>6, <1>9, <1>10 DEF Partition
<1>12. parts \in Seq(Seq(1 .. n)) /\ Len(parts) = q
  <2>1. parts \in [1 .. q -> Seq(1 .. n)]
    BY <1>1, <1>2, <1>3, <1>5, <1>6 DEF Split
  <2> QED
    BY <1>5, <2>1
<1> QED
  BY <1>3, <1>11, <1>12

-----------------------------------------------------------------------------
(* The positions of the first m micro-batches.                               *)

Passed(seq, m) == UNION {ToSet(seq[i]) : i \in 1 .. m}

\* They are none at first and all in the end, and a micro-batch adds new ones.
LEMMA PassedSteps ==
    ASSUME NEW n \in Nat, NEW seq, NEW k, CutInto(seq, n, k)
    PROVE  /\ Passed(seq, 0) = {} /\ Passed(seq, k) = 1 .. n
           /\ \A m \in 1 .. k :
                /\ Passed(seq, m) = Passed(seq, m - 1) \cup ToSet(seq[m])
                /\ Passed(seq, m - 1) \cap ToSet(seq[m]) = {}
                /\ Passed(seq, m) \in SUBSET (1 .. n)
                /\ ToSet(seq[m]) \in SUBSET (1 .. n)
<1> USE DEF CutInto
<1>1. DOMAIN seq = 1 .. k /\ \A m \in 1 .. k : seq[m] \in Seq(1 .. n)
  OBVIOUS
<1>2. \A m \in 1 .. k : \A v : v \in ToSet(seq[m]) <=> \E x \in DOMAIN seq[m] : seq[m][x] = v
  BY DEF ToSet
<1>3. \A m \in 1 .. k : ToSet(seq[m]) \in SUBSET (1 .. n)
  BY <1>1 DEF ToSet
<1>4. Passed(seq, 0) = {}
  BY DEF Passed
<1>5. Passed(seq, k) = 1 .. n
  <2>1. ASSUME NEW v \in 1 .. n PROVE v \in Passed(seq, k)
    <3>1. PICK m \in 1 .. k : \E x \in DOMAIN seq[m] : seq[m][x] = v
      BY <1>1 DEF Partition
    <3>2. v \in ToSet(seq[m])
      BY <1>2, <3>1
    <3> QED
      BY <3>2 DEF Passed
  <2>2. ASSUME NEW v \in Passed(seq, k) PROVE v \in 1 .. n
    BY <1>3 DEF Passed
  <2> QED
    BY <2>1, <2>2
<1>6. ASSUME NEW m \in 1 .. k
      PROVE  /\ Passed(seq, m) = Passed(seq, m - 1) \cup ToSet(seq[m])
             /\ Passed(seq, m - 1) \cap ToSet(seq[m]) = {}
             /\ Passed(seq, m) \in SUBSET (1 .. n)
  <2>1. ASSUME NEW v \in Passed(seq, m) PROVE v \in Passed(seq, m - 1) \cup ToSet(seq[m])
    <3>1. PICK i \in 1 .. m : v \in ToSet(seq[i])
      BY DEF Passed
    <3>2. CASE i = m
      BY <3>1, <3>2
    <3>3. CASE i \in 1 .. m - 1
      BY <3>1, <3>3 DEF Passed
    <3> QED
      BY <3>2, <3>3
  <2>2. ASSUME NEW v \in Passed(seq, m - 1) \cup ToSet(seq[m]) PROVE v \in Passed(seq, m)
    <3>1. CASE v \in ToSet(seq[m])
      <4>1. m \in 1 .. m
        OBVIOUS
      <4> QED
        BY <3>1, <4>1 DEF Passed
    <3>2. CASE v \in Passed(seq, m - 1)
      <4>1. PICK i \in 1 .. m - 1 : v \in ToSet(seq[i])
        BY <3>2 DEF Passed
      <4>2. i \in 1 .. m
        OBVIOUS
      <4> QED
        BY <4>1, <4>2 DEF Passed
    <3> QED
      BY <2>2, <3>1, <3>2
  <2>3. ASSUME NEW v \in Passed(seq, m - 1), v \in ToSet(seq[m]) PROVE FALSE
    <3>1. PICK i \in 1 .. m - 1 : v \in ToSet(seq[i])
      BY DEF Passed
    <3>2. i \in 1 .. k /\ i # m
      OBVIOUS
    <3>3. PICK x \in DOMAIN seq[i] : seq[i][x] = v
      BY <1>2, <3>1, <3>2
    <3>4. PICK y \in DOMAIN seq[m] : seq[m][y] = v
      BY <1>2, <2>3
    <3>5. Once(seq)
      BY DEF Partition
    <3>6. i = m
      BY <1>1, <3>2, <3>3, <3>4, <3>5 DEF Once
    <3> QED
      BY <3>2, <3>6
  <2>4. ASSUME NEW v \in Passed(seq, m) PROVE v \in 1 .. n
    <3>1. PICK i \in 1 .. m : v \in ToSet(seq[i])
      BY DEF Passed
    <3>2. i \in 1 .. k
      OBVIOUS
    <3> QED
      BY <1>3, <3>1, <3>2
  <2> QED
    BY <2>1, <2>2, <2>3, <2>4
<1> QED
  BY <1>3, <1>4, <1>5, <1>6

\* Their number, as the losses' factors count them.
LEMMA PassedNumber ==
    ASSUME NEW n \in Nat, NEW seq, NEW k, CutInto(seq, n, k), NEW m \in 1 .. k
    PROVE  Cardinality(Passed(seq, m)) = Cardinality(Passed(seq, m - 1)) + Len(seq[m])
<1> USE DEF CutInto
<1>1. PICK N : N = 1 .. n /\ IsFiniteSet(N) /\ Cardinality(N) = n
  BY FS_Interval
<1>2. PICK A, B : A = Passed(seq, m - 1) /\ B = ToSet(seq[m])
  OBVIOUS
<1>3. Passed(seq, m) = A \cup B /\ A \cap B = {} /\ B \in SUBSET N /\ Passed(seq, m) \in SUBSET N
  BY <1>1, <1>2, PassedSteps
<1>4. IsFiniteSet(A) /\ IsFiniteSet(B)
  BY <1>1, <1>3, FS_Subset
<1>5. Cardinality(A \cup B) = Cardinality(A) + Cardinality(B) - Cardinality(A \cap B)
  BY <1>4, FS_Union
<1>6. Cardinality(A \cap B) = 0 /\ Cardinality(A) \in Nat /\ Cardinality(B) \in Nat
  BY <1>3, <1>4, FS_EmptySet, FS_CardinalityType
<1>7. PICK s : s = seq[m]
  OBVIOUS
<1>8. s \in Seq(1 .. n) /\ DOMAIN s = 1 .. Len(s) /\ Len(s) \in Nat
  BY <1>7
<1>9. \A x, y \in DOMAIN s : s[x] = s[y] => x = y
  <2>1. m \in DOMAIN seq /\ Once(seq)
    BY DEF Partition
  <2> QED
    BY <1>7, <2>1 DEF Once
<1>10. PICK l \in Nat : l = Len(s)
  BY <1>8
<1>11. PICK D : D = 1 .. l /\ IsFiniteSet(D) /\ Cardinality(D) = l
  BY FS_Interval
<1>12. s \in Surjection(D, B)
  BY <1>2, <1>7, <1>8, <1>10, <1>11 DEF ToSet, Surjection
<1>13. s \in Bijection(D, B)
  BY <1>8, <1>9, <1>10, <1>11, <1>12 DEF Bijection, Injection, IsInjective, Surjection
<1>14. Cardinality(B) = l
  BY <1>11, <1>13, FS_Bijection DEF ExistsBijection
<1> QED
  <2>1. Cardinality(A \cup B) = Cardinality(A) + l
    BY <1>5, <1>6, <1>14
  <2> QED
    BY <1>2, <1>3, <1>7, <1>10, <2>1
-----------------------------------------------------------------------------
(* The configuration, and the rows.                                          *)

JobType(j) ==
    /\ {j.rows, j.mini, j.micro, j.sp, j.stages} \subseteq Nat \ {0}
    /\ {j.dynamic, j.multimodal} \subseteq BOOLEAN
    /\ j.mini % j.micro = 0
    /\ j.role \in {"actor", "critic", "reward"} /\ j.engine \in {"fsdp", "megatron", "sft"}
    /\ j.role # "actor" => ~(j.dynamic /\ j.multimodal)
    /\ j.engine = "sft" => ~j.dynamic

\* A configuration that the workers accept gives every rank rows.
LEMMA JobFacts ==
    ASSUME NEW c \in Jobs, NEW j, j = Normalized(c)
    PROVE  JobType(j)
<1>1. PICK ranks : ranks = Cardinality(Ranks)
  OBVIOUS
<1>2. ranks \in Nat \ {0}
  BY <1>1, RanksAssumption, FS_CardinalityType, FS_EmptySet
<1>3. PICK total : total = c.prompts * c.samples
  OBVIOUS
<1>4. /\ c.prompts \in Nat \ {0} /\ c.samples \in Nat \ {0}
      /\ c.sp \in Nat \ {0} /\ c.stages \in Nat \ {0}
      /\ c.dynamic \in BOOLEAN /\ c.multimodal \in BOOLEAN
      /\ c.role \in {"actor", "critic", "reward"} /\ c.engine \in {"fsdp", "megatron", "sft"}
      /\ c.role # "actor" => ~(c.dynamic /\ c.multimodal)
      /\ c.engine = "sft" => ~c.dynamic
      /\ (c.prompts * c.samples) % Cardinality(Ranks) = 0
      /\ {Normalized(c).mini, Normalized(c).micro} \subseteq Nat \ {0}
      /\ Normalized(c).mini % Normalized(c).micro = 0
  BY JobsAssumption
<1>5. total \in Nat \ {0} /\ total % ranks = 0
  BY <1>1, <1>3, <1>4
<1>6. total \div ranks \in Nat \ {0}
  <2>1. total = ((total \div ranks) * ranks) + (total % ranks) /\ total \div ranks \in Nat
    BY <1>2, <1>5, Dividing
  <2> QED
    BY <1>2, <1>5, <2>1
<1>7. /\ j.rows = total \div ranks
      /\ j.sp = c.sp /\ j.stages = c.stages /\ j.dynamic = c.dynamic
      /\ j.multimodal = c.multimodal /\ j.role = c.role /\ j.engine = c.engine
  BY <1>1, <1>3 DEF Normalized
<1> QED
  BY <1>4, <1>6, <1>7 DEF JobType

RowsInv ==
    /\ JobType(job)
    /\ lengths \in [Ranks -> [Rows -> LengthSet]]
    /\ order \in [Rows -> Rows] /\ IsInjective(order)
    /\ mini \in 1 .. Len(MiniBatches)
    /\ pass \in Components

\* Every rank has the same number of micro-batches, which have its rows once.
CutAlike(ms, n, k) == \A r \in Ranks : CutInto(ms[r], n, k)
Cut(ms, n) == \E k \in Nat \ {0} : CutAlike(ms, n, k)
\* Without dynamic micro-batches they are as many as the mini-batch has.
BySizeOnly(ms, n) == ~job.dynamic => \A r \in Ranks : Len(ms[r]) = CeilDiv(n, job.micro)

\* Micro-batches of a number of rows, the same on all ranks.
LEMMA CutBySize ==
    ASSUME RowsInv, NEW S, NEW rows \in Seq(S), rows # <<>>
    PROVE  Cut(BySize(rows), Len(rows)) /\ BySizeOnly(BySize(rows), Len(rows))
<1>1. PICK n \in Nat \ {0} : n = Len(rows) /\ DOMAIN rows = 1 .. n
  OBVIOUS
<1>2. PICK size \in Nat \ {0} : size = job.micro
  BY DEF RowsInv, JobType
<1>3. PICK parts : parts = Split([i \in 1 .. n |-> i], size)
  OBVIOUS
<1>4. \A r \in Ranks : BySize(rows)[r] = parts
  BY <1>1, <1>2, <1>3 DEF BySize
<1>5. /\ CeilDiv(n, size) \in Nat \ {0}
      /\ parts \in Seq(Seq(1 .. n)) /\ Len(parts) = CeilDiv(n, size)
      /\ Partition(parts, n)
  BY <1>3, SplitPartition
<1>6. Cut(BySize(rows), n)
  <2>1. PICK k \in Nat \ {0} : k = CeilDiv(n, size)
    BY <1>5
  <2>2. CutInto(parts, n, k)
    BY <1>5, <2>1 DEF CutInto
  <2> QED
    BY <1>4, <2>2 DEF Cut, CutAlike
<1>7. BySizeOnly(BySize(rows), n)
  BY <1>2, <1>4, <1>5 DEF BySizeOnly
<1> QED
  BY <1>1, <1>6, <1>7

\* The number is agreed on, by dynamic micro-batches.
LEMMA CutByTokens ==
    ASSUME RowsInv, NEW rows \in Seq(Rows), rows # <<>>
    PROVE  Cut(Rearrange(rows), Len(rows))
<1>1. PICK n \in Nat \ {0} : n = Len(rows) /\ DOMAIN rows = 1 .. n
  OBVIOUS
<1>2. PICK group \in Nat \ {0} : group = job.stages
  BY DEF RowsInv, JobType
<1>3. Width \in Nat /\ MaxTokens \in Nat \ {0}
  BY WidthAssumption, LengthAssumption DEF Width
<1>4. PICK maxTokens \in Nat \ {0} : maxTokens = MaxTokenLen
  <2>1. job.sp \in Nat \ {0}
    BY DEF RowsInv, JobType
  <2>2. MaxTokens * job.sp \in Nat \ {0}
    BY <1>3, <2>1
  <2> QED
    BY <2>2 DEF MaxTokenLen
<1>5. PICK Ls : Ls = LengthsOf(rows)
  OBVIOUS
<1>6. Ls \in [Ranks -> Seq(Nat \ {0})] /\ \A r \in Ranks : Len(Ls[r]) = n
  <2>1. LengthSet \subseteq Nat \ {0}
    BY <1>3, LengthAssumption
  <2>2. ASSUME NEW r \in Ranks PROVE Ls[r] \in Seq(Nat \ {0}) /\ Len(Ls[r]) = n
    <3>1. Ls[r] = [i \in 1 .. n |-> lengths[r][rows[i]]]
      BY <1>1, <1>5 DEF LengthsOf
    <3>2. ASSUME NEW i \in 1 .. n PROVE lengths[r][rows[i]] \in Nat \ {0}
      <4>1. rows[i] \in Rows
        BY <1>1
      <4> QED
        BY <2>1, <4>1 DEF RowsInv
    <3>3. Ls[r] \in [1 .. n -> Nat \ {0}]
      BY <3>1, <3>2
    <3> QED
      BY <3>3
  <2> QED
    BY <1>5, <2>2 DEF LengthsOf
<1>7. PICK k : k = AgreedNumber(Ls, maxTokens, group)
  OBVIOUS
<1>8. ASSUME NEW r \in Ranks
      PROVE  CutInto(Rearrange(rows)[r], n, k)
  <2>1. PICK parts : parts = RearrangeMicroBatches(Ls, maxTokens, group)[r]
    OBVIOUS
  <2>2. parts = Rearrange(rows)[r]
    BY <1>2, <1>4, <1>5, <2>1 DEF Rearrange
  <2>3. CutInto(parts, n, k)
    BY <1>6, <1>7, <2>1, RearrangedRows
  <2> QED
    BY <2>2, <2>3
<1>9. k \in Nat \ {0}
  BY <1>8, RanksAssumption DEF CutInto
<1>10. Cut(Rearrange(rows), n)
  BY <1>8, <1>9 DEF Cut, CutAlike
<1> QED
  BY <1>1, <1>10

\* The micro-batches of all workers are one or the other.
Batches(rows, batches) ==
    batches \in {IF job.dynamic THEN Rearrange(rows) ELSE BySize(rows), CriticMicroBatches(rows)}

\* So no worker's micro-batches leave out a row or differ in number.
LEMMA CutAll ==
    ASSUME RowsInv, NEW rows \in Seq(Rows), rows # <<>>, NEW batches, Batches(rows, batches),
           job.role = "critic" \/ batches = IF job.dynamic THEN Rearrange(rows) ELSE BySize(rows)
    PROVE  Cut(batches, Len(rows)) /\ BySizeOnly(batches, Len(rows))
<1>1. Cut(BySize(rows), Len(rows)) /\ BySizeOnly(BySize(rows), Len(rows))
  BY CutBySize
<1>2. Cut(Rearrange(rows), Len(rows))
  BY CutByTokens
<1>3. job.dynamic => BySizeOnly(batches, Len(rows))
  BY DEF BySizeOnly
<1>4. batches = IF job.dynamic THEN Rearrange(rows) ELSE BySize(rows)
  <2>1. job.role = "critic" => ~(job.dynamic /\ job.multimodal)
    BY DEF RowsInv, JobType
  <2> QED
    BY <2>1 DEF Batches, CriticMicroBatches
<1> QED
  BY <1>1, <1>2, <1>3, <1>4
-----------------------------------------------------------------------------
(* A pass over the micro-batches.                                            *)

RowsAt(rows, positions) == {rows[j] : j \in positions}

\* What a gradient holds after the first m micro-batches of a pass.
Gathered(p, rows, ms, m) ==
    [c \in Components |-> [r \in Ranks |-> [i \in Rows |->
        IF c = p /\ i \in RowsAt(rows, Passed(ms[r], m)) THEN 1 ELSE 0]]]
Added(g, p, rows, ms, m) ==
    [g EXCEPT ![p] = [r \in Ranks |-> [i \in Rows |->
        @[r][i] + (IF i \in RowsAt(rows, ToSet(ms[r][m])) THEN 1 ELSE 0)]]]

\* No row at the start of a pass,
LEMMA GatheredFirst ==
    ASSUME NEW p, NEW rows, NEW ms
    PROVE  Gathered(p, rows, ms, 0) = NoGradient
<1>1. \A r \in Ranks : RowsAt(rows, Passed(ms[r], 0)) = {}
  BY DEF RowsAt, Passed
<1> QED
  BY <1>1 DEF Gathered, NoGradient

\* and then those of the next micro-batch, which are new.
LEMMA RowsAtNext ==
    ASSUME NEW rows, NEW n \in Nat, DOMAIN rows = 1 .. n, Distinct(rows),
           NEW seq, NEW k, CutInto(seq, n, k), NEW m \in 1 .. k, NEW i
    PROVE  /\ i \in RowsAt(rows, Passed(seq, m)) <=>
                i \in RowsAt(rows, Passed(seq, m - 1)) \/ i \in RowsAt(rows, ToSet(seq[m]))
           /\ ~(i \in RowsAt(rows, Passed(seq, m - 1)) /\ i \in RowsAt(rows, ToSet(seq[m])))
<1>1. PICK A, B, C : A = Passed(seq, m - 1) /\ B = ToSet(seq[m]) /\ C = Passed(seq, m)
  OBVIOUS
<1>2. C = A \cup B /\ A \cap B = {} /\ C \in SUBSET (1 .. n)
  BY <1>1, PassedSteps
<1>3. i \in RowsAt(rows, C) <=> i \in RowsAt(rows, A) \/ i \in RowsAt(rows, B)
  BY <1>2 DEF RowsAt
<1>4. ~(i \in RowsAt(rows, A) /\ i \in RowsAt(rows, B))
  BY <1>2 DEF RowsAt, Distinct
<1> QED
  BY <1>1, <1>3, <1>4

\* What a backward adds to the gradient is what the next micro-batch has.
LEMMA GatheredNext ==
    ASSUME NEW rows, NEW n \in Nat, DOMAIN rows = 1 .. n, Distinct(rows),
           NEW ms, NEW k, CutAlike(ms, n, k), NEW m \in 1 .. k,
           NEW p \in Components, NEW g, g = Gathered(p, rows, ms, m - 1)
    PROVE  Added(g, p, rows, ms, m) = Gathered(p, rows, ms, m)
<1>1. PICK h : h = Gathered(p, rows, ms, m)
  OBVIOUS
<1>2. ASSUME NEW r \in Ranks, NEW i \in Rows
      PROVE  g[p][r][i] + (IF i \in RowsAt(rows, ToSet(ms[r][m])) THEN 1 ELSE 0) = h[p][r][i]
  <2>1. PICK seq : seq = ms[r]
    OBVIOUS
  <2>2. CutInto(seq, n, k)
    BY <2>1 DEF CutAlike
  <2>3. /\ i \in RowsAt(rows, Passed(seq, m)) <=>
             i \in RowsAt(rows, Passed(seq, m - 1)) \/ i \in RowsAt(rows, ToSet(seq[m]))
        /\ ~(i \in RowsAt(rows, Passed(seq, m - 1)) /\ i \in RowsAt(rows, ToSet(seq[m])))
    BY <2>2, RowsAtNext
  <2>4. g[p][r][i] = IF i \in RowsAt(rows, Passed(seq, m - 1)) THEN 1 ELSE 0
    BY <2>1 DEF Gathered
  <2>5. h[p][r][i] = IF i \in RowsAt(rows, Passed(seq, m)) THEN 1 ELSE 0
    BY <1>1, <2>1 DEF Gathered
  <2>6. CASE i \in RowsAt(rows, ToSet(seq[m]))
    BY <2>1, <2>3, <2>4, <2>5, <2>6
  <2>7. CASE i \notin RowsAt(rows, ToSet(seq[m]))
    BY <2>1, <2>3, <2>4, <2>5, <2>7
  <2> QED
    BY <2>6, <2>7
<1>3. PICK a : a = [r \in Ranks |-> [i \in Rows |->
                      g[p][r][i] + (IF i \in RowsAt(rows, ToSet(ms[r][m])) THEN 1 ELSE 0)]]
  OBVIOUS
<1>4. a = h[p]
  <2>1. h[p] = [r \in Ranks |-> [i \in Rows |-> h[p][r][i]]]
    BY <1>1 DEF Gathered
  <2>2. a = [r \in Ranks |-> [i \in Rows |-> h[p][r][i]]]
    BY <1>2, <1>3
  <2> QED
    BY <2>1, <2>2
<1>5. Added(g, p, rows, ms, m) = [g EXCEPT ![p] = a]
  BY <1>3 DEF Added
<1>6. \A c \in Components : c # p => g[c] = h[c]
  BY <1>1 DEF Gathered
<1>7. g = [c \in Components |-> g[c]] /\ h = [c \in Components |-> h[c]]
  BY <1>1 DEF Gathered
<1>8. [g EXCEPT ![p] = a] = h
  BY <1>4, <1>6, <1>7
<1> QED
  BY <1>1, <1>5, <1>8

\* Configurations whose losses have the factors of their rows: images are counted
\* by their keys, and supervised fine-tuning divides by the micro-batches twice.
Counted(j) ==
    /\ ~(j.engine = "fsdp" /\ j.dynamic /\ j.multimodal)
    /\ j.engine = "sft" => j.mini = j.micro

\* The sum of the factors of the first m micro-batches.
Weighed(w, ms, m) ==
    Counted(job) => \A r \in Ranks :
        w[r] = IF job.engine = "fsdp" /\ job.dynamic THEN Cardinality(Passed(ms[r], m)) ELSE m

ReadyInv ==
    /\ pc = "merge" => Cut(micros, job.rows)
    /\ pc \in {"zero", "backward", "norm"} =>
          /\ Cut(micros, Len(MiniBatches[mini]))
          /\ BySizeOnly(micros, Len(MiniBatches[mini]))

RunInv ==
    pc \in {"backward", "norm"} =>
        /\ next \in Nat \ {0}
        /\ \A r \in Ranks : next <= Len(micros[r]) + 1
        /\ pc = "norm" => \A r \in Ranks : next = Len(micros[r]) + 1
        /\ grad = Gathered(pass, MiniBatches[mini], micros, next - 1)
        /\ Weighed(weight, micros, next - 1)

PassInv == RowsInv /\ ReadyInv /\ RunInv

\* The rows of a mini-batch, in any order of the batch.
LEMMA CurrentRows ==
    ASSUME RowsInv, NEW newOrder \in [Rows -> Rows], IsInjective(newOrder),
           NEW rows, rows = Split(newOrder, job.mini)[mini]
    PROVE  /\ mini \in 1 .. Len(Split(newOrder, job.mini))
           /\ rows \in Seq(Rows) /\ rows # <<>> /\ Distinct(rows)
<1>1. PICK n \in Nat \ {0} : n = job.rows /\ Rows = 1 .. n
  BY DEF RowsInv, JobType, Rows
<1>2. PICK size \in Nat \ {0} : size = job.mini
  BY DEF RowsInv, JobType
<1>3. PICK S : S = Rows
  OBVIOUS
<1>4. order \in [1 .. n -> S] /\ newOrder \in [1 .. n -> S]
  BY <1>1, <1>3 DEF RowsInv
<1>5. /\ newOrder \in Seq(S) /\ Len(newOrder) = n /\ newOrder # <<>>
      /\ order \in Seq(S) /\ Len(order) = n
  BY <1>4
<1>6. Distinct(newOrder)
  BY DEF IsInjective, Distinct
<1>7. Len(Split(newOrder, size)) = Len(Split(order, size))
  <2>1. DOMAIN Split(newOrder, size) = DOMAIN Split(order, size)
    BY <1>5 DEF Split
  <2>2. PICK q \in Nat : q = CeilDiv(n, size)
    BY CeilDivType
  <2>3. DOMAIN Split(newOrder, size) = 1 .. q /\ DOMAIN Split(order, size) = 1 .. q
    BY <1>5, <2>2 DEF Split
  <2> QED
    BY <1>5, <2>2, <2>3 DEF Split
<1>8. mini \in 1 .. Len(Split(newOrder, size))
  BY <1>2, <1>7 DEF RowsInv, MiniBatches
<1>9. PICK b : b = mini
  OBVIOUS
<1>10. rows = Split(newOrder, size)[b] /\ b \in 1 .. Len(Split(newOrder, size))
  BY <1>2, <1>8, <1>9
<1>11. rows \in Seq(S) /\ rows # <<>> /\ Distinct(rows)
  BY <1>5, <1>10, <1>6, MiniBatchRows
<1> QED
  BY <1>2, <1>3, <1>8, <1>11
-----------------------------------------------------------------------------
(* What the steps keep of it.                                                *)

\* It holds at first.
LEMMA InitPassInv == Init => PassInv
<1> SUFFICES ASSUME Init PROVE PassInv
  OBVIOUS
<1>1. JobType(job)
  BY JobFacts DEF Init
<1>2. PICK n \in Nat \ {0} : n = job.rows /\ Rows = 1 .. n
  BY <1>1 DEF JobType, Rows
<1>3. order \in [Rows -> Rows] /\ IsInjective(order)
  BY DEF Init, AllRows, IsInjective
<1>4. mini \in 1 .. Len(MiniBatches)
  <2>1. PICK size \in Nat \ {0} : size = job.mini
    BY <1>1 DEF JobType
  <2>2. Len(order) = n
    BY <1>2 DEF Init, AllRows
  <2>3. PICK q \in Nat \ {0} : q = CeilDiv(n, size)
    <3>1. n > 0
      OBVIOUS
    <3>2. CeilDiv(n, size) \in Nat /\ CeilDiv(n, size) > 0
      BY <3>1, CeilDivType
    <3> QED
      BY <3>2
  <2>4. Len(MiniBatches) = q
    BY <2>1, <2>2, <2>3 DEF MiniBatches, Split
  <2> QED
    BY <2>3, <2>4 DEF Init
<1>5. RowsInv
  BY <1>1, <1>3, <1>4 DEF Init, RowsInv, Components
<1>6. ReadyInv /\ RunInv
  BY DEF Init, ReadyInv, RunInv
<1> QED
  BY <1>5, <1>6 DEF PassInv

\* What most steps leave alone.
LEMMA RowsKept ==
    ASSUME RowsInv, UNCHANGED <<job, lengths, order, mini>>, pass' \in Components
    PROVE  RowsInv' /\ MiniBatches[mini]' = MiniBatches[mini] /\ job.rows' = job.rows
BY DEF RowsInv, MiniBatches, Rows

\* The micro-batches of inference,
LEMMA InferStep ==
    ASSUME PassInv, NEW batches, InferIn(batches), Cut(batches, job.rows)
    PROVE  PassInv'
<1>1. RowsInv' /\ job.rows' = job.rows
  BY RowsKept DEF InferIn, PassInv, RowsInv
<1>2. ReadyInv'
  BY <1>1 DEF InferIn, ReadyInv
<1>3. RunInv'
  BY DEF InferIn, RunInv
<1> QED
  BY <1>1, <1>2, <1>3 DEF PassInv

\* the answers,
LEMMA MergeStep ==
    ASSUME PassInv, NEW answers, InferMerge(answers)
    PROVE  PassInv'
<1>1. RowsInv'
  BY RowsKept DEF InferMerge, PassInv, RowsInv
<1>2. pc' \in {"end", "split"}
  BY DEF InferMerge
<1> QED
  BY <1>1, <1>2 DEF PassInv, ReadyInv, RunInv

\* a mini-batch that is cut and started in one step,
LEMMA StartStep ==
    ASSUME PassInv, NEW newOrder \in [Rows -> Rows], IsInjective(newOrder), order' = newOrder,
           NEW rows, rows = Split(newOrder, job.mini)[mini],
           NEW batches, StartMiniBatch(batches),
           Cut(batches, Len(rows)), BySizeOnly(batches, Len(rows))
    PROVE  PassInv'
<1>1. mini \in 1 .. Len(Split(newOrder, job.mini))
  BY CurrentRows DEF PassInv
<1>2. /\ UNCHANGED <<job, lengths, mini, pass>>
      /\ micros' = batches /\ grad' = NoGradient /\ weight' = NoWeight /\ next' = 1
      /\ pc' = "backward"
  BY DEF StartMiniBatch
<1>3. RowsInv'
  BY <1>1, <1>2 DEF PassInv, RowsInv, MiniBatches, Rows
<1>4. MiniBatches[mini]' = rows
  BY <1>2 DEF MiniBatches
<1>5. ReadyInv'
  BY <1>2, <1>4 DEF ReadyInv, BySizeOnly
<1>6. RunInv'
  <2>1. \A r \in Ranks : Len(micros[r])' \in Nat
    BY <1>2 DEF Cut, CutAlike, CutInto
  <2>2. grad' = Gathered(pass, rows, batches, 0)
    BY <1>2, GatheredFirst
  <2>3. (grad = Gathered(pass, MiniBatches[mini], micros, next - 1))'
    BY <1>2, <1>4, <2>2 DEF Gathered, Rows
  <2>4. Weighed(weight, micros, next - 1)'
    <3>1. \A r \in Ranks : Passed(batches[r], 0) = {}
      BY DEF Passed
    <3>2. \A r \in Ranks : Cardinality(Passed(batches[r], 0)) = 0
      BY <3>1, FS_EmptySet, Zenon
    <3>3. next' - 1 = 0
      BY <1>2
    <3>4. \A r \in Ranks : weight'[r] = 0
      BY <1>2 DEF NoWeight
    <3> QED
      BY <1>2, <3>2, <3>4, <3>3 DEF Weighed
  <2> QED
    BY <1>2, <2>1, <2>3, <2>4 DEF RunInv
<1> QED
  BY <1>3, <1>5, <1>6 DEF PassInv

\* the start of a pass,
LEMMA StartPassStep ==
    ASSUME PassInv, pc = "zero", StartPass
    PROVE  PassInv'
<1>1. /\ UNCHANGED <<job, lengths, order, mini, pass, micros>>
      /\ grad' = NoGradient /\ weight' = NoWeight /\ next' = 1
      /\ pc' = "backward"
  BY DEF StartPass
<1>2. RowsInv' /\ MiniBatches[mini]' = MiniBatches[mini]
  BY <1>1, RowsKept DEF PassInv, RowsInv
<1>3. ReadyInv'
  BY <1>1, <1>2 DEF ReadyInv, BySizeOnly, PassInv
<1>4. PICK rows : rows = MiniBatches[mini]
  OBVIOUS
<1>5. RunInv'
  <2>1. \A r \in Ranks : Len(micros[r])' \in Nat
    BY <1>1 DEF PassInv, ReadyInv, Cut, CutAlike, CutInto
  <2>2. grad' = Gathered(pass, rows, micros, 0)
    BY <1>1, GatheredFirst
  <2>3. (grad = Gathered(pass, MiniBatches[mini], micros, next - 1))'
    BY <1>1, <1>2, <1>4, <2>2 DEF Gathered, Rows
  <2>4. Weighed(weight, micros, next - 1)'
    <3>1. \A r \in Ranks : Cardinality(Passed(micros[r]', 0)) = 0
      BY FS_EmptySet DEF Passed
    <3> QED
      BY <1>1, <3>1 DEF Weighed, NoWeight
  <2> QED
    BY <1>1, <2>1, <2>3, <2>4 DEF RunInv
<1> QED
  BY <1>2, <1>3, <1>5 DEF PassInv

\* The factor of the loss of a configuration that counts its rows.
FactorOf(r) == IF job.engine = "fsdp" /\ job.dynamic THEN Len(micros[r][next]) ELSE 1

\* the backward of a micro-batch on all ranks,
LEMMA AccumulateStep ==
    ASSUME PassInv, NEW factor, Accumulate(factor),
           Counted(job) => \A r \in Ranks : factor[r] = FactorOf(r)
    PROVE  PassInv'
<1>1. /\ UNCHANGED <<job, lengths, pc, order, mini, pass, micros>>
      /\ pc = "backward" /\ next' = next + 1
      /\ \A r \in Ranks : next <= Len(micros[r])
      /\ weight' = [r \in Ranks |-> weight[r] + factor[r]]
  BY DEF Accumulate
<1>2. RowsInv' /\ MiniBatches[mini]' = MiniBatches[mini]
  BY <1>1, RowsKept DEF PassInv, RowsInv
<1>3. ReadyInv'
  BY <1>1, <1>2 DEF ReadyInv, BySizeOnly, PassInv
<1>4. PICK rows : rows = MiniBatches[mini]
  OBVIOUS
<1>5. rows \in Seq(Rows) /\ rows # <<>> /\ Distinct(rows)
  BY <1>4, CurrentRows DEF PassInv, RowsInv, MiniBatches
<1>6. PICK n \in Nat : n = Len(rows) /\ DOMAIN rows = 1 .. n
  BY <1>5
<1>7. PICK k \in Nat \ {0} : \A r \in Ranks : CutInto(micros[r], n, k)
  BY <1>1, <1>4, <1>6 DEF PassInv, ReadyInv, Cut, CutAlike
<1>8. PICK m : m = next
  OBVIOUS
<1>9. m \in 1 .. k
  <2>1. PICK r \in Ranks : TRUE
    BY RanksAssumption
  <2>2. Len(micros[r]) = k /\ m <= Len(micros[r])
    BY <1>1, <1>7, <1>8 DEF CutInto
  <2>3. m \in Nat \ {0}
    BY <1>1, <1>8 DEF PassInv, RunInv
  <2> QED
    BY <2>2, <2>3
<1>10. PICK ms : ms = micros
  OBVIOUS
<1>11. (grad = Gathered(pass, MiniBatches[mini], micros, next - 1))'
  <2>1. grad = Gathered(pass, rows, ms, m - 1)
    BY <1>1, <1>4, <1>8, <1>10 DEF PassInv, RunInv
  <2>2. PICK p : p = pass
    OBVIOUS
  <2>3. p \in Components
    BY <2>2 DEF PassInv, RowsInv
  <2>4. grad' = Added(grad, p, rows, ms, m)
    BY <1>4, <1>8, <1>10, <2>2 DEF Accumulate, Added, RowsAt
  <2>5. PICK g : g = grad
    OBVIOUS
  <2>6. g = Gathered(p, rows, ms, m - 1) /\ CutAlike(ms, n, k)
    BY <1>7, <1>10, <2>1, <2>2, <2>5 DEF CutAlike
  <2>7. Added(g, p, rows, ms, m) = Gathered(p, rows, ms, m)
    BY <1>5, <1>6, <1>9, <2>3, <2>6, GatheredNext
  <2>8. next' - 1 = m
    BY <1>1, <1>8, <1>9
  <2> QED
    BY <1>1, <1>2, <1>4, <1>10, <2>2, <2>4, <2>7, <2>8, <2>5 DEF Gathered, Rows
<1>12. Weighed(weight, micros, next - 1)'
  <2> SUFFICES ASSUME Counted(job), NEW r \in Ranks
               PROVE  weight'[r] = IF job.engine = "fsdp" /\ job.dynamic
                                     THEN Cardinality(Passed(ms[r], m)) ELSE m
    BY <1>1, <1>8, <1>9, <1>10 DEF Weighed
  <2>1. weight[r] = IF job.engine = "fsdp" /\ job.dynamic
                      THEN Cardinality(Passed(ms[r], m - 1)) ELSE m - 1
    BY <1>1, <1>8, <1>10 DEF PassInv, RunInv, Weighed
  <2>2. weight'[r] = weight[r] + FactorOf(r)
    BY <1>1
  <2>3. PICK seq : seq = ms[r]
    OBVIOUS
  <2>4. CutInto(seq, n, k)
    BY <1>7, <1>10, <2>3
  <2>5. Cardinality(Passed(seq, m)) = Cardinality(Passed(seq, m - 1)) + Len(seq[m])
    BY <1>9, <2>4, PassedNumber
  <2> QED
    BY <1>8, <1>9, <1>10, <2>1, <2>2, <2>3, <2>5 DEF FactorOf
<1>13. RunInv'
  <2>1. \A r \in Ranks : Len(micros[r]) \in Nat
    BY <1>7 DEF CutInto
  <2>2. next' \in Nat \ {0} /\ \A r \in Ranks : next' <= Len(micros'[r]) + 1
    BY <1>1, <1>8, <1>9, <2>1
  <2> QED
    BY <1>1, <1>11, <1>12, <2>2 DEF RunInv
<1> QED
  BY <1>2, <1>3, <1>13 DEF PassInv
\* the last of them,
LEMMA LastStepOfPass ==
    ASSUME PassInv, LastBackward
    PROVE  PassInv'
<1>1. /\ UNCHANGED <<job, lengths, order, mini, pass, micros, next, grad, weight>>
      /\ pc = "backward" /\ pc' = "norm" /\ \A r \in Ranks : next = Len(micros[r]) + 1
  BY DEF LastBackward
<1>2. RowsInv' /\ MiniBatches[mini]' = MiniBatches[mini]
  BY <1>1, RowsKept DEF PassInv, RowsInv
<1>3. ReadyInv'
  BY <1>1, <1>2 DEF ReadyInv, BySizeOnly, PassInv
<1>4. RunInv'
  BY <1>1, <1>2 DEF RunInv, PassInv, Gathered, Weighed, Rows
<1> QED
  BY <1>2, <1>3, <1>4 DEF PassInv

\* the norm of a diagnosed gradient,
LEMMA MeasureStep ==
    ASSUME PassInv, Measure
    PROVE  PassInv'
<1>1. /\ UNCHANGED <<job, lengths, order, mini, micros>>
      /\ pc = "norm" /\ pc' = "zero" /\ pass' \in Components
  BY DEF Measure, Components
<1>2. RowsInv' /\ MiniBatches[mini]' = MiniBatches[mini]
  BY <1>1, RowsKept DEF PassInv
<1>3. ReadyInv'
  BY <1>1, <1>2 DEF ReadyInv, BySizeOnly, PassInv
<1>4. RunInv'
  BY <1>1 DEF RunInv
<1> QED
  BY <1>2, <1>3, <1>4 DEF PassInv

\* the optimizer's step,
LEMMA StepThenStep ==
    ASSUME PassInv, NEW kept, StepThen(kept)
    PROVE  PassInv'
<1>1. /\ UNCHANGED <<job, lengths, order, pass, micros>>
      /\ pc' \in {"end", "split"}
      /\ mini' = IF mini = Len(MiniBatches) THEN 1 ELSE mini + 1
  BY DEF StepThen, LastOfEpoch
<1>2. mini' \in 1 .. Len(MiniBatches)
  BY <1>1 DEF PassInv, RowsInv
<1>3. RowsInv'
  BY <1>1, <1>2 DEF PassInv, RowsInv, MiniBatches, Rows
<1>4. ReadyInv' /\ RunInv'
  BY <1>1 DEF ReadyInv, RunInv
<1> QED
  BY <1>3, <1>4 DEF PassInv

\* the cut of a mini-batch with passes of its own,
LEMMA SplitStep ==
    ASSUME PassInv, SplitMiniBatch
    PROVE  PassInv'
<1>1. /\ UNCHANGED <<job, lengths, order, mini>>
      /\ pc' = "zero" /\ pass' \in Components
      /\ micros' = ActorMicroBatches(MiniBatches[mini])
  BY DEF SplitMiniBatch, FirstPass, Components
<1>2. RowsInv' /\ MiniBatches[mini]' = MiniBatches[mini]
  BY <1>1, RowsKept DEF PassInv
<1>3. PICK rows : rows = MiniBatches[mini]
  OBVIOUS
<1>4. rows \in Seq(Rows) /\ rows # <<>>
  BY <1>3, CurrentRows DEF PassInv, RowsInv, MiniBatches
<1>5. PICK batches : batches = ActorMicroBatches(rows)
  OBVIOUS
<1>6. Cut(batches, Len(rows)) /\ BySizeOnly(batches, Len(rows))
  <2>1. batches = IF job.dynamic THEN Rearrange(rows) ELSE BySize(rows)
    BY <1>5 DEF ActorMicroBatches
  <2> QED
    BY <1>4, <2>1, CutAll DEF PassInv, Batches
<1>7. ReadyInv'
  BY <1>1, <1>2, <1>3, <1>5, <1>6 DEF ReadyInv, BySizeOnly
<1>8. RunInv'
  BY <1>1 DEF RunInv
<1> QED
  BY <1>2, <1>7, <1>8 DEF PassInv

\* and an assertion that fails.
LEMMA RaisedStep ==
    ASSUME PassInv, UNCHANGED <<job, lengths, mini, pass>>, pc' = "raised",
           NEW newOrder \in [Rows -> Rows], IsInjective(newOrder), order' = newOrder
    PROVE  PassInv'
<1>1. PICK rows : rows = Split(newOrder, job.mini)[mini]
  OBVIOUS
<1>2. mini \in 1 .. Len(Split(newOrder, job.mini))
  BY <1>1, CurrentRows DEF PassInv
<1>3. RowsInv'
  BY <1>2 DEF PassInv, RowsInv, MiniBatches, Rows
<1> QED
  BY <1>3 DEF PassInv, ReadyInv, RunInv

\* A batch's rows, before any mini-batch.
LEMMA CutWhole ==
    ASSUME PassInv, NEW batches, Batches(AllRows, batches),
           job.role = "critic" \/
               batches = IF job.dynamic THEN Rearrange(AllRows) ELSE BySize(AllRows)
    PROVE  Cut(batches, job.rows)
<1>1. PICK n \in Nat \ {0} : n = job.rows /\ Rows = 1 .. n
  BY DEF PassInv, RowsInv, JobType, Rows
<1>2. PICK rows : rows = AllRows
  OBVIOUS
<1>3. rows \in [1 .. n -> Rows]
  BY <1>1, <1>2 DEF AllRows
<1>4. rows \in Seq(Rows) /\ rows # <<>> /\ Len(rows) = n
  BY <1>3
<1> QED
  BY <1>1, <1>2, <1>4, CutAll DEF PassInv
-----------------------------------------------------------------------------
(* Every action.                                                             *)

\* The FSDP workers.
LEMMA NextPassInv == PassInv /\ job.engine = "fsdp" /\ Next => PassInv'
<1> SUFFICES ASSUME PassInv, job.engine = "fsdp", Next PROVE PassInv'
  OBVIOUS
<1>1. CASE ComputeLogProb \/ ComputeValues \/ ComputeScores
  <2>1. PICK batches :
          /\ InferIn(batches) /\ Batches(AllRows, batches)
          /\ \/ job.role = "critic"
             \/ batches = IF job.dynamic THEN Rearrange(AllRows) ELSE BySize(AllRows)
    BY <1>1 DEF ComputeLogProb, ComputeValues, ComputeScores, ActorMicroBatches,
                RewardMicroBatches, Batches
  <2>2. Cut(batches, job.rows)
    BY <2>1, CutWhole
  <2> QED
    BY <2>1, <2>2, InferStep
<1>2. CASE LogProbs \/ Values \/ Scores
  <2>1. PICK answers : InferMerge(answers)
    BY <1>2 DEF LogProbs, Values, Scores
  <2> QED
    BY <2>1, MergeStep
<1>3. CASE SplitMiniBatch
  BY <1>3, SplitStep
<1>4. CASE ValueMiniBatch
  <2>1. PICK rows, batches : rows = MiniBatches[mini] /\ batches = CriticMicroBatches(rows)
    OBVIOUS
  <2>2. job.role = "critic" /\ StartMiniBatch(batches) /\ order' = order
    BY <1>4, <2>1 DEF ValueMiniBatch
  <2>3. PICK newOrder : newOrder = order
    OBVIOUS
  <2>4. newOrder \in [Rows -> Rows] /\ IsInjective(newOrder)
    BY <2>3 DEF PassInv, RowsInv
  <2>5. rows = Split(newOrder, job.mini)[mini]
    BY <2>1, <2>3 DEF MiniBatches
  <2>6. rows \in Seq(Rows) /\ rows # <<>>
    BY <2>4, <2>5, CurrentRows DEF PassInv
  <2>7. Cut(batches, Len(rows)) /\ BySizeOnly(batches, Len(rows))
    BY <2>1, <2>2, <2>6, CutAll DEF PassInv, Batches
  <2> QED
    BY <2>2, <2>3, <2>4, <2>5, <2>7, StartStep
<1>5. CASE BeginDiagnostic
  BY <1>5, StartPassStep DEF BeginDiagnostic
<1>6. CASE BeginTraining
  BY <1>6, StartPassStep DEF BeginTraining
<1>7. CASE DiagnosticBackward \/ TrainingBackward \/ ValueBackward
  <2>1. PICK factor : factor = [r \in Ranks |-> LossFactor(micros[r][next])] /\ Accumulate(factor)
    BY <1>7 DEF DiagnosticBackward, TrainingBackward, ValueBackward
  <2>2. ASSUME Counted(job), NEW r \in Ranks PROVE factor[r] = FactorOf(r)
    BY <2>1, <2>2 DEF LossFactor, FactorOf, Counted
  <2> QED
    BY <2>1, <2>2, AccumulateStep
<1>8. CASE LastBackward
  BY <1>8, LastStepOfPass
<1>9. CASE Measure
  BY <1>9, MeasureStep
<1>10. ASSUME NEW finite \in BOOLEAN, Step(finite) \/ ValueStep(finite) PROVE PassInv'
  <2>1. PICK kept : kept = (finite /\ ~LastStep)
    OBVIOUS
  <2>2. StepThen(kept)
    BY <1>10, <2>1 DEF Step, ValueStep
  <2> QED
    BY <2>2, StepThenStep
<1> QED
  BY <1>1, <1>2, <1>3, <1>4, <1>5, <1>6, <1>7, <1>8, <1>9, <1>10 DEF Next

\* An order of an epoch has every row once.
LEMMA OrdersPermute ==
    ASSUME PassInv, NEW newOrder \in Orders
    PROVE  newOrder \in [Rows -> Rows] /\ IsInjective(newOrder)
<1>1. order \in [Rows -> Rows] /\ IsInjective(order)
  BY DEF PassInv, RowsInv
<1>2. AllRows \in [Rows -> Rows] /\ IsInjective(AllRows)
  BY DEF AllRows, IsInjective
<1> QED
  BY <1>1, <1>2 DEF Orders

\* The Megatron workers.
LEMMA MegatronPassInv == PassInv /\ job.engine = "megatron" /\ MegatronNext => PassInv'
<1> SUFFICES ASSUME PassInv, job.engine = "megatron", MegatronNext PROVE PassInv'
  OBVIOUS
<1>a. PICK sameOrder : sameOrder = order
  OBVIOUS
<1>b. sameOrder \in [Rows -> Rows] /\ IsInjective(sameOrder)
  BY <1>a DEF PassInv, RowsInv
<1>1. CASE MegatronLogProb \/ MegatronValues \/ MegatronScores
  <2>1. InferAll
    BY <1>1 DEF MegatronLogProb, MegatronValues, MegatronScores
  <2>2. CASE Feasible(AllRows)
    <3>1. PICK batches : batches = MegatronMicroBatches(AllRows)
      OBVIOUS
    <3>2. InferIn(batches)
      BY <2>1, <2>2, <3>1 DEF InferAll
    <3>3. Cut(batches, job.rows)
      BY <3>1, CutWhole DEF MegatronMicroBatches, Batches
    <3> QED
      BY <3>2, <3>3, InferStep
  <2>3. CASE ~Feasible(AllRows)
    <3>1. UNCHANGED <<job, lengths, mini, pass>> /\ pc' = "raised" /\ order' = sameOrder
      BY <1>a, <2>1, <2>3 DEF InferAll
    <3> QED
      BY <1>b, <3>1, RaisedStep
  <2> QED
    BY <2>2, <2>3
<1>2. CASE MegatronLogProbs \/ MegatronValuesInOrder \/ MegatronScoresInOrder
  <2>1. PICK answers : InferMerge(answers)
    BY <1>2 DEF MegatronLogProbs, MegatronValuesInOrder, MegatronScoresInOrder
  <2> QED
    BY <2>1, MergeStep
<1>3. ASSUME NEW newOrder \in Orders, MegatronMiniBatch(newOrder) PROVE PassInv'
  <2>1. newOrder \in [Rows -> Rows] /\ IsInjective(newOrder)
    BY OrdersPermute
  <2>2. PICK rows : rows = Split(newOrder, job.mini)[mini]
    OBVIOUS
  <2>3. rows \in Seq(Rows) /\ rows # <<>>
    BY <2>1, <2>2, CurrentRows DEF PassInv
  <2>4. order' = newOrder
    BY <1>3 DEF MegatronMiniBatch
  <2>5. CASE Feasible(rows)
    <3>1. PICK batches : batches = MegatronMicroBatches(rows)
      OBVIOUS
    <3>2. StartMiniBatch(batches)
      BY <1>3, <2>2, <2>5, <3>1 DEF MegatronMiniBatch
    <3>3. Cut(batches, Len(rows)) /\ BySizeOnly(batches, Len(rows))
      BY <2>3, <3>1, CutAll DEF PassInv, Batches, MegatronMicroBatches
    <3> QED
      BY <2>1, <2>2, <2>4, <3>2, <3>3, StartStep
  <2>6. CASE ~Feasible(rows)
    <3>1. UNCHANGED <<job, lengths, mini, pass>> /\ pc' = "raised"
      BY <1>3, <2>2, <2>6 DEF MegatronMiniBatch
    <3> QED
      BY <2>1, <2>4, <3>1, RaisedStep
  <2> QED
    BY <2>5, <2>6
<1>4. CASE MegatronPolicyBackward \/ MegatronValueBackward
  <2>1. PICK factor : factor = [r \in Ranks |-> 1] /\ Accumulate(factor)
    BY <1>4 DEF MegatronPolicyBackward, MegatronValueBackward, MegatronBackward
  <2>2. \A r \in Ranks : factor[r] = FactorOf(r)
    BY <2>1 DEF FactorOf
  <2> QED
    BY <2>1, <2>2, AccumulateStep
<1>5. CASE LastBackward
  BY <1>5, LastStepOfPass
<1>6. ASSUME NEW successful \in BOOLEAN,
             MegatronPolicyStep(successful) \/ MegatronValueStep(successful)
      PROVE  PassInv'
  <2>1. MegatronStep(successful)
    BY <1>6 DEF MegatronPolicyStep, MegatronValueStep
  <2>2. CASE successful
    BY <2>1, <2>2, StepThenStep DEF MegatronStep
  <2>3. CASE ~successful
    <3>1. UNCHANGED <<job, lengths, mini, pass>> /\ pc' = "raised" /\ order' = sameOrder
      BY <1>a, <2>1, <2>3 DEF MegatronStep
    <3> QED
      BY <1>b, <3>1, RaisedStep
  <2> QED
    BY <2>2, <2>3
<1> QED
  BY <1>1, <1>2, <1>3, <1>4, <1>5, <1>6 DEF MegatronNext

\* The trainer of supervised fine-tuning.
LEMMA SupervisedPassInv == PassInv /\ job.engine = "sft" /\ SupervisedNext => PassInv'
<1> SUFFICES ASSUME PassInv, job.engine = "sft", SupervisedNext PROVE PassInv'
  OBVIOUS
<1>1. CASE TrainingStepStart
  <2>1. PICK rows, batches : rows = MiniBatches[mini] /\ batches = BySize(rows)
    OBVIOUS
  <2>2. StartMiniBatch(batches) /\ order' = order
    BY <1>1, <2>1 DEF TrainingStepStart
  <2>3. PICK newOrder : newOrder = order
    OBVIOUS
  <2>4. newOrder \in [Rows -> Rows] /\ IsInjective(newOrder)
    BY <2>3 DEF PassInv, RowsInv
  <2>5. rows = Split(newOrder, job.mini)[mini]
    BY <2>1, <2>3 DEF MiniBatches
  <2>6. rows \in Seq(Rows) /\ rows # <<>>
    BY <2>4, <2>5, CurrentRows DEF PassInv
  <2>7. Cut(batches, Len(rows)) /\ BySizeOnly(batches, Len(rows))
    BY <2>1, <2>6, CutBySize DEF PassInv
  <2> QED
    BY <2>2, <2>3, <2>4, <2>5, <2>7, StartStep
<1>2. CASE ExampleBackward
  <2>1. PICK factor : factor = [r \in Ranks |-> LossUnit(r)] /\ Accumulate(factor)
    BY <1>2 DEF ExampleBackward
  <2>2. ASSUME Counted(job), NEW r \in Ranks PROVE factor[r] = FactorOf(r)
    <3>1. job.mini = job.micro /\ job.mini \in Nat \ {0} /\ ~job.dynamic
      BY <2>2 DEF Counted, PassInv, RowsInv, JobType
    <3>2. job.mini \div job.micro = 1
      BY <3>1
    <3> QED
      BY <2>1, <3>1, <3>2 DEF LossUnit, FactorOf
  <2> QED
    BY <2>1, <2>2, AccumulateStep
<1>3. CASE LastBackward
  BY <1>3, LastStepOfPass
<1>4. ASSUME NEW finite \in BOOLEAN, TrainingStepEnd(finite) PROVE PassInv'
  BY <1>4, StepThenStep DEF TrainingStepEnd
<1> QED
  BY <1>1, <1>2, <1>3, <1>4 DEF SupervisedNext

\* Every step of any worker keeps the invariant.
LEMMA StepPassInv == PassInv /\ [UpdatesNext]_vars => PassInv'
<1> SUFFICES ASSUME PassInv, [UpdatesNext]_vars PROVE PassInv'
  OBVIOUS
<1>1. CASE UpdatesNext
  BY <1>1, NextPassInv, MegatronPassInv, SupervisedPassInv DEF UpdatesNext
<1>2. CASE UNCHANGED vars
  BY <1>2 DEF vars, PassInv, RowsInv, ReadyInv, RunInv, MiniBatches, BySizeOnly, Weighed,
              Gathered, Rows
<1> QED
  BY <1>1, <1>2

\* So it holds always.
LEMMA PassCorrect == Spec => []PassInv
BY InitPassInv, StepPassInv, PTL DEF Spec

-----------------------------------------------------------------------------

\* No rank is left waiting in a collective operation of inference or of an update,
\* for any lengths of the rows of any number of ranks: rearrange_micro_batches'
\* all_reduce is enough.
THEOREM RanksKeepPace == Spec => []NoRankWaits
<1>1. PassInv => NoRankWaits
  BY DEF PassInv, ReadyInv, Cut, CutAlike, CutInto, NoRankWaits
<1> QED
  BY <1>1, PassCorrect, PTL

\* The gradient that is measured or applied is of the mini-batch's rows, each once,
\* whatever the sizes of batches, mini-batches and micro-batches.
THEOREM GradientsComplete == Spec => []GradientIsMiniBatch
<1>1. PassInv => GradientIsMiniBatch
  <2> SUFFICES ASSUME PassInv, pc = "norm", NEW c \in Components, NEW r \in Ranks, NEW i \in Rows
               PROVE  grad[c][r][i] = IF c = pass /\ i \in ToSet(MiniBatches[mini]) THEN 1 ELSE 0
    BY DEF GradientIsMiniBatch
  <2>1. PICK rows : rows = MiniBatches[mini]
    OBVIOUS
  <2>2. rows \in Seq(Rows)
    BY <2>1, CurrentRows DEF PassInv, RowsInv, MiniBatches
  <2>3. PICK n \in Nat : n = Len(rows) /\ DOMAIN rows = 1 .. n
    BY <2>2
  <2>4. PICK k : CutAlike(micros, n, k)
    BY <2>1, <2>3 DEF PassInv, ReadyInv, Cut
  <2>5. PICK seq : seq = micros[r]
    OBVIOUS
  <2>6. CutInto(seq, n, k)
    BY <2>4, <2>5 DEF CutAlike
  <2>7. next = k + 1 /\ k \in Nat
    BY <2>5, <2>6 DEF PassInv, RunInv, CutInto
  <2>8. next - 1 = k
    BY <2>7
  <2>9. grad = Gathered(pass, rows, micros, k)
    BY <2>1, <2>8 DEF PassInv, RunInv
  <2>10. Passed(seq, k) = DOMAIN rows
    BY <2>3, <2>6, PassedSteps
  <2>11. RowsAt(rows, Passed(seq, k)) = ToSet(rows)
    BY <2>10 DEF RowsAt, ToSet
  <2> QED
    BY <2>1, <2>5, <2>9, <2>11 DEF Gathered
<1> QED
  BY <1>1, PassCorrect, PTL

\* The factors of a whole mini-batch's losses add up to one on every rank, but for
\* the two kinds of configurations that are not Counted.
THEOREM LossesAveraged == Spec => [](Counted(job) => LossFactorsAddUp)
<1>1. PassInv => (Counted(job) => LossFactorsAddUp)
  <2> SUFFICES ASSUME PassInv, Counted(job), pc = "norm", Len(MiniBatches[mini]) = job.mini,
                      NEW r \in Ranks
               PROVE  weight[r] = LossUnit(r)
    BY DEF LossFactorsAddUp
  <2>1. PICK n \in Nat \ {0} : n = job.mini
    BY DEF PassInv, RowsInv, JobType
  <2>2. PICK k : CutAlike(micros, n, k)
    BY <2>1 DEF PassInv, ReadyInv, Cut
  <2>3. PICK seq : seq = micros[r]
    OBVIOUS
  <2>4. CutInto(seq, n, k)
    BY <2>2, <2>3 DEF CutAlike
  <2>5. next = k + 1 /\ k \in Nat /\ Len(seq) = k
    BY <2>3, <2>4 DEF PassInv, RunInv, CutInto
  <2>6. next - 1 = k
    BY <2>5
  <2>7. weight[r] = IF job.engine = "fsdp" /\ job.dynamic THEN Cardinality(Passed(seq, k)) ELSE k
    BY <2>3, <2>6 DEF PassInv, RunInv, Weighed
  <2>8. CASE job.engine = "megatron"
    BY <2>3, <2>5, <2>7, <2>8 DEF LossUnit
  <2>9. CASE job.engine # "megatron" /\ job.dynamic
    <3>1. job.engine = "fsdp"
      BY <2>9 DEF PassInv, RowsInv, JobType
    <3>2. Cardinality(Passed(seq, k)) = n
      <4>1. PICK N : N = 1 .. n /\ Cardinality(N) = n
        BY FS_Interval
      <4>2. Passed(seq, k) = N
        BY <2>4, <4>1, PassedSteps
      <4> QED
        BY <4>1, <4>2
    <3> QED
      BY <2>1, <2>7, <2>9, <3>1, <3>2 DEF LossUnit
  <2>10. CASE job.engine # "megatron" /\ ~job.dynamic
    <3>1. PICK size \in Nat \ {0} : size = job.micro /\ n % size = 0
      BY <2>1 DEF PassInv, RowsInv, JobType
    <3>2. k = CeilDiv(n, size)
      BY <2>1, <2>3, <2>5, <2>10, <3>1 DEF PassInv, ReadyInv, BySizeOnly
    <3>3. CeilDiv(n, size) = n \div size
      BY <3>1 DEF CeilDiv
    <3> QED
      BY <2>1, <2>7, <2>10, <3>1, <3>2, <3>3 DEF LossUnit
  <2> QED
    BY <2>8, <2>9, <2>10
<1> QED
  BY <1>1, PassCorrect, PTL

-----------------------------------------------------------------------------
(* A row among its padding.                                                  *)

LEMMA Widths ==
    /\ PromptLength \in Nat \ {0} /\ ResponseLength \in Nat \ {0} /\ Width \in Nat \ {0}
    /\ Width = PromptLength + ResponseLength
BY WidthAssumption DEF Width

\* max of Python.
LEMMA LargerOfTwo ==
    ASSUME NEW a \in Int, NEW b \in Int
    PROVE  Max({a, b}) = IF a <= b THEN b ELSE a
<1>1. PICK s : s = {a, b}
  OBVIOUS
<1>2. \E x \in s : \A y \in s : x >= y
  BY <1>1
<1>3. Max(s) \in s /\ \A y \in s : Max(s) >= y
  BY <1>2 DEF Max
<1> QED
  BY <1>1, <1>3

\* The places before the first token of a row.
Shift(length) == PromptLength - PromptOf(length)
Lengths == 2 .. Width
Seated(length) ==
    /\ Shift(length) \in Nat /\ Shift(length) + length <= Width
    /\ PromptOf(length) \in 1 .. PromptLength /\ PromptOf(length) < length
    /\ length - PromptOf(length) <= ResponseLength

LEMMA RowSeated ==
    ASSUME NEW length \in Lengths
    PROVE  Seated(length)
<1>1. PICK rest \in Int : rest = length - ResponseLength
  BY Widths DEF Lengths
<1>2. PromptOf(length) = IF 1 <= rest THEN rest ELSE 1
  BY <1>1, LargerOfTwo DEF PromptOf
<1> QED
  BY <1>1, <1>2, Widths DEF Lengths, Seated, Shift

LEMMA TokenPlaces ==
    ASSUME NEW length \in Lengths
    PROVE  /\ \A place \in Int : TokenAt(length, place) # 0 =>
                  /\ TokenAt(length, place) \in 1 .. length
                  /\ place = Shift(length) + TokenAt(length, place)
           /\ \A k \in 1 .. length : TokenAt(length, Shift(length) + k) = k
<1>1. Seated(length)
  BY RowSeated
<1>2. PICK s \in Nat : s = Shift(length) /\ s = PromptLength - PromptOf(length)
  BY <1>1 DEF Seated, Shift
<1>3. ASSUME NEW place \in Int
      PROVE  TokenAt(length, place) = IF place - s \in 1 .. length THEN place - s ELSE 0
  BY <1>2 DEF TokenAt
<1>4. ASSUME NEW k \in 1 .. length PROVE TokenAt(length, s + k) = k
  <2>1. s + k \in Int /\ (s + k) - s = k
    BY DEF Lengths
  <2> QED
    BY <1>3, <2>1
<1>5. ASSUME NEW place \in Int, TokenAt(length, place) # 0
      PROVE  TokenAt(length, place) \in 1 .. length /\ place = s + TokenAt(length, place)
  BY <1>3, <1>5 DEF Lengths
<1> QED
  BY <1>2, <1>4, <1>5

\* The flattened mask counts the places row by row.
LEMMA FlatPlace ==
    ASSUME NEW b \in Nat \ {0}, NEW q \in Places
    PROVE  RowAt(Flat(b, q)) = b /\ PlaceAt(Flat(b, q)) = q
<1>1. PICK w \in Nat \ {0} : w = Width /\ q \in 1 .. w
  BY Widths DEF Places
<1>2. PICK g \in Nat : g = b - 1
  OBVIOUS
<1>3. PICK c \in Nat : c = q - 1 /\ c < w
  BY <1>1
<1>4. PICK n : Composed(n, w, g, c)
  BY DEF Composed
<1>5. n \div w = g /\ n % w = c
  BY <1>3, <1>4, QuotientOf
<1>6. Flat(b, q) - 1 = n
  <2>1. PICK x \in Nat : x = g * w
    OBVIOUS
  <2>2. n = x + c /\ Flat(b, q) = x + q
    BY <1>1, <1>2, <1>4, <2>1 DEF Composed, Flat
  <2> QED
    BY <1>1, <1>3, <2>1, <2>2
<1> QED
  BY <1>1, <1>2, <1>3, <1>5, <1>6 DEF RowAt, PlaceAt

-----------------------------------------------------------------------------
(* The tokens of a micro-batch, without the padding.                         *)

\* N rows of lengths that fit.
Batched(batch, N) ==
    /\ N \in Nat /\ DOMAIN batch = 1 .. N /\ Len(batch) = N
    /\ \A b \in 1 .. N : batch[b].length \in Lengths

\* e has the k-th token of the b-th row at j.
TokenIs(batch, N, e, j, b, k) ==
    b \in 1 .. N /\ k \in 1 .. batch[b].length /\ e[j] = Flat(b, Shift(batch[b].length) + k)

\* e has the m tokens of all rows in order.
Laid(batch, N, e, m) ==
    /\ m \in Nat /\ e \in [1 .. m -> Nat]
    /\ \A i, j \in 1 .. m : i < j => e[i] < e[j]
    /\ \A j \in 1 .. m : \E b, k : TokenIs(batch, N, e, j, b, k)
    /\ \A b \in 1 .. N : \A k \in 1 .. batch[b].length : \E j \in 1 .. m : TokenIs(batch, N, e, j, b, k)

LEMMA TokenPlace ==
    ASSUME NEW length \in Lengths, NEW k \in 1 .. length
    PROVE  Shift(length) + k \in Places
<1>1. Seated(length)
  BY RowSeated
<1>2. PICK s \in Nat : s = Shift(length) /\ s + length <= Width
  BY <1>1 DEF Seated
<1> QED
  BY <1>2, Widths DEF Places, Lengths

LEMMA TokensLaid ==
    ASSUME NEW N, NEW batch, Batched(batch, N)
    PROVE  \E m : Laid(batch, N, Indices(batch), m)
<1>0. N \in Nat /\ DOMAIN batch = 1 .. N /\ Len(batch) = N /\ \A b \in 1 .. N : batch[b].length \in Lengths
  BY DEF Batched
<1>1. PICK w \in Nat \ {0} : w = Width /\ Places = 1 .. w
  BY Widths DEF Places
<1>2. PICK n : n = N * w
  OBVIOUS
<1>3. n \in Nat
  BY <1>0, <1>2
<1>4. PICK S : S = {x \in 1 .. n : TokenAt(batch[RowAt(x)].length, PlaceAt(x)) # 0}
  OBVIOUS
<1>5. PICK e : e = Indices(batch)
  OBVIOUS
<1>6. e = Appended(S, n)
  BY <1>0, <1>1, <1>2, <1>4, <1>5 DEF Indices, Nonzero, Appended, Appends
<1>7. PICK m \in 0 .. n : Enumerates(e, m, S, n)
  BY <1>3, <1>6, AppendedEnumerates
<1>8. /\ m \in Nat /\ e \in [1 .. m -> Nat]
      /\ \A a \in 1 .. m : e[a] \in S /\ e[a] \in 1 .. n
      /\ \A a, b \in 1 .. m : a < b => e[a] < e[b]
      /\ \A x \in 1 .. n : x \in S => \E a \in 1 .. m : e[a] = x
  BY <1>3, <1>7 DEF Enumerates
<1>9. ASSUME NEW j \in 1 .. m PROVE \E b, k : TokenIs(batch, N, e, j, b, k)
  <2>1. PICK x : x = e[j] /\ x \in S /\ x \in 1 .. n
    BY <1>8
  <2>2. PICK b \in 1 .. N, q \in 1 .. w : x = (b - 1) * w + q
    <3>1. x \in 1 .. N * w
      BY <1>2, <2>1
    <3> QED
      BY <1>0, <1>1, <3>1, RowNumber
  <2>3. x = Flat(b, q) /\ q \in Places /\ b \in Nat \ {0} /\ q \in Int
    BY <1>0, <1>1, <2>2 DEF Flat
  <2>4. RowAt(x) = b /\ PlaceAt(x) = q
    BY <2>3, FlatPlace
  <2>5. PICK length \in Lengths : length = batch[b].length
    BY <1>0, <2>2
  <2>6. TokenAt(length, q) # 0
    BY <1>4, <2>1, <2>4, <2>5
  <2>7. TokenAt(length, q) \in 1 .. length /\ q = Shift(length) + TokenAt(length, q)
    BY <2>3, <2>6, TokenPlaces
  <2>8. TokenIs(batch, N, e, j, b, TokenAt(length, q))
    BY <2>1, <2>2, <2>3, <2>5, <2>7 DEF TokenIs
  <2> QED
    BY <2>8
<1>10. ASSUME NEW b \in 1 .. N, NEW k \in 1 .. batch[b].length
       PROVE  \E j \in 1 .. m : TokenIs(batch, N, e, j, b, k)
  <2>1. PICK length \in Lengths : length = batch[b].length /\ k \in 1 .. length
    BY <1>0
  <2>2. PICK q \in Places : q = Shift(length) + k
    BY <2>1, TokenPlace
  <2>3. PICK x : x = Flat(b, q) /\ x = (b - 1) * w + q
    BY <1>1 DEF Flat
  <2>4. x \in 1 .. n
    <3>1. (b - 1) * w + q \in 1 .. N * w
      BY <1>0, <1>1, RowInRange
    <3> QED
      BY <1>2, <2>3, <3>1
  <2>5. RowAt(x) = b /\ PlaceAt(x) = q
    <3>1. b \in Nat \ {0} /\ x = Flat(b, q)
      BY <1>0, <2>3
    <3>2. RowAt(Flat(b, q)) = b /\ PlaceAt(Flat(b, q)) = q
      BY <3>1, FlatPlace
    <3> QED
      BY <3>1, <3>2
  <2>6. TokenAt(length, q) = k
    BY <2>1, <2>2, TokenPlaces
  <2>7. k # 0
    BY <2>1
  <2>8. x \in S
    BY <1>4, <2>1, <2>4, <2>5, <2>6, <2>7
  <2>9. PICK j \in 1 .. m : e[j] = x
    BY <1>8, <2>4, <2>8
  <2> QED
    BY <2>1, <2>2, <2>3, <2>9 DEF TokenIs
<1>11. Laid(batch, N, e, m)
  BY <1>8, <1>9, <1>10 DEF Laid
<1> QED
  BY <1>5, <1>11

\* Tokens in the flattened mask are ordered by their rows and numbers.
LEMMA FlatOrder ==
    ASSUME NEW N, NEW batch, Batched(batch, N), NEW e, NEW i, NEW j, NEW b, NEW k, NEW c, NEW l,
           TokenIs(batch, N, e, i, b, k), TokenIs(batch, N, e, j, c, l)
    PROVE  /\ e[i] < e[j] <=> b < c \/ (b = c /\ k < l)
           /\ e[i] = e[j] <=> (b = c /\ k = l)
           /\ b = c => e[j] - e[i] = l - k
<1>1. PICK w \in Nat \ {0} : w = Width /\ Places = 1 .. w
  BY Widths DEF Places
<1>2. PICK s, t : s = batch[b].length /\ t = batch[c].length
  OBVIOUS
<1>3. /\ b \in Nat \ {0} /\ c \in Nat \ {0} /\ k \in 1 .. s /\ l \in 1 .. t
      /\ s \in Lengths /\ t \in Lengths
      /\ e[i] = Flat(b, Shift(s) + k) /\ e[j] = Flat(c, Shift(t) + l)
  BY <1>2 DEF TokenIs, Batched
<1>4. PICK x, y \in 1 .. w : x = Shift(s) + k /\ y = Shift(t) + l
  BY <1>1, <1>3, TokenPlace
<1>5. PICK f, g : f = (b - 1) * w /\ g = (c - 1) * w
  OBVIOUS
<1>6. f \in Nat /\ g \in Nat
  BY <1>3, <1>5
<1>7. e[i] = f + x /\ e[j] = g + y
  BY <1>1, <1>3, <1>4, <1>5 DEF Flat
<1>8. b < c => f + w <= g
  <2> SUFFICES ASSUME b < c PROVE f + w <= g
    OBVIOUS
  <2>1. PICK d \in Nat : c - 1 = (b - 1) + 1 + d
    <3>1. c - b - 1 \in Nat /\ c - 1 = (b - 1) + 1 + (c - b - 1)
      BY <1>3
    <3> QED
      BY <3>1
  <2>2. (c - 1) * w = (b - 1) * w + w + d * w /\ d * w \in Nat
    BY <1>3, <2>1
  <2> QED
    BY <1>5, <1>6, <2>2
<1>9. c < b => g + w <= f
  <2> SUFFICES ASSUME c < b PROVE g + w <= f
    OBVIOUS
  <2>1. PICK d \in Nat : b - 1 = (c - 1) + 1 + d
    <3>1. b - c - 1 \in Nat /\ b - 1 = (c - 1) + 1 + (b - c - 1)
      BY <1>3
    <3> QED
      BY <3>1
  <2>2. (b - 1) * w = (c - 1) * w + w + d * w /\ d * w \in Nat
    BY <1>3, <2>1
  <2> QED
    BY <1>5, <1>6, <2>2
<1>10. b = c => f = g /\ s = t /\ y - x = l - k
  <2> SUFFICES ASSUME b = c PROVE f = g /\ s = t /\ y - x = l - k
    OBVIOUS
  <2>1. PICK h \in Nat : h = Shift(s)
    BY <1>3, RowSeated DEF Seated
  <2> QED
    BY <1>2, <1>3, <1>4, <1>5, <2>1 DEF Lengths
<1>11. CASE b < c
  BY <1>3, <1>4, <1>6, <1>7, <1>8, <1>11
<1>12. CASE c < b
  BY <1>3, <1>4, <1>6, <1>7, <1>9, <1>12
<1>13. CASE b = c
  <2>1. e[j] - e[i] = l - k /\ e[i] \in Nat /\ e[j] \in Nat /\ k \in Nat /\ l \in Nat
    BY <1>3, <1>4, <1>6, <1>7, <1>10, <1>13 DEF Lengths
  <2>2. ~(b < c)
    BY <1>3, <1>13
  <2>3. PICK p, q \in Nat : p = e[i] /\ q = e[j]
    BY <2>1
  <2>4. q - p = l - k
    BY <2>1, <2>3
  <2>5. (p < q <=> k < l) /\ (p = q <=> k = l)
    BY <2>1, <2>4
  <2> QED
    BY <1>13, <2>2, <2>3, <2>4, <2>5
<1>14. b < c \/ c < b \/ b = c
  BY <1>3
<1> QED
  BY <1>11, <1>12, <1>13, <1>14

\* Behind a token that is not its row's last is the next of the row,
LEMMA NextToken ==
    ASSUME NEW N, NEW batch, Batched(batch, N), NEW e, NEW m, Laid(batch, N, e, m),
           NEW j \in 1 .. m, NEW b, NEW k, TokenIs(batch, N, e, j, b, k), k < batch[b].length
    PROVE  j + 1 \in 1 .. m /\ TokenIs(batch, N, e, j + 1, b, k + 1)
<1>1. b \in 1 .. N /\ k \in 1 .. batch[b].length /\ batch[b].length \in Nat
  BY DEF TokenIs, Batched, Lengths
<1>2. k + 1 \in 1 .. batch[b].length
  BY <1>1
<1>3. PICK i \in 1 .. m : TokenIs(batch, N, e, i, b, k + 1)
  BY <1>1, <1>2 DEF Laid
<1>4. e[i] - e[j] = (k + 1) - k
  BY <1>3, FlatOrder
<1>5. \A x, y \in 1 .. m : x < y => e[x] < e[y]
  BY DEF Laid
<1>6. m \in Nat /\ \A x \in 1 .. m : e[x] \in Nat
  BY DEF Laid
<1>7. e[i] = e[j] + 1
  BY <1>1, <1>4, <1>6
<1>8. i > j
  BY <1>5, <1>6, <1>7
<1>9. ~(i > j + 1)
  <2> SUFFICES ASSUME i > j + 1 PROVE FALSE
    OBVIOUS
  <2>1. j + 1 \in 1 .. m /\ j < j + 1
    BY <1>6
  <2>2. e[j] < e[j + 1] /\ e[j + 1] < e[i] /\ e[j + 1] \in Nat
    BY <1>5, <1>6, <2>1
  <2> QED
    BY <1>6, <1>7, <2>2
<1>10. i = j + 1
  BY <1>6, <1>8, <1>9
<1> QED
  BY <1>3, <1>10

\* and the last first token up to a token is that of its row.
LEMMA FirstToken ==
    ASSUME NEW N, NEW batch, Batched(batch, N), NEW e, NEW m, Laid(batch, N, e, m),
           NEW j \in 1 .. m, NEW b, NEW k, TokenIs(batch, N, e, j, b, k)
    PROVE  \E i \in 1 .. j : /\ TokenIs(batch, N, e, i, b, 1)
                             /\ \A l \in i + 1 .. j : \A c : ~TokenIs(batch, N, e, l, c, 1)
<1>1. b \in 1 .. N /\ k \in 1 .. batch[b].length /\ batch[b].length \in Nat
  BY DEF TokenIs, Batched, Lengths
<1>2. 1 \in 1 .. batch[b].length
  BY <1>1
<1>3. PICK i \in 1 .. m : TokenIs(batch, N, e, i, b, 1)
  BY <1>1, <1>2 DEF Laid
<1>4. \A x, y \in 1 .. m : x < y => e[x] < e[y]
  BY DEF Laid
<1>5. m \in Nat /\ \A x \in 1 .. m : e[x] \in Nat
  BY DEF Laid
<1>6. ~(e[j] < e[i])
  <2>1. e[j] < e[i] <=> b < b \/ (b = b /\ k < 1)
    BY <1>3, FlatOrder
  <2> QED
    BY <1>1, <2>1
<1>7. i \in 1 .. j
  BY <1>4, <1>5, <1>6
<1>8. ASSUME NEW l \in i + 1 .. j, NEW c, TokenIs(batch, N, e, l, c, 1) PROVE FALSE
  <2>1. l \in 1 .. m /\ i < l /\ (l < j \/ l = j)
    BY <1>5
  <2>2. e[i] < e[l]
    BY <1>4, <2>1
  <2>3. b < c \/ (b = c /\ 1 < 1)
    BY <1>3, <1>8, <2>2, FlatOrder
  <2>4. ~(e[j] < e[l])
    BY <1>4, <1>5, <2>1
  <2>5. ~(b < c)
    BY <1>8, <2>4, FlatOrder
  <2> QED
    BY <2>3, <2>5
<1> QED
  BY <1>3, <1>7, <1>8

\* A place has one token.
LEMMA OneToken ==
    ASSUME NEW N, NEW batch, Batched(batch, N), NEW e, NEW j, NEW b, NEW k, NEW c, NEW l,
           TokenIs(batch, N, e, j, b, k), TokenIs(batch, N, e, j, c, l)
    PROVE  b = c /\ k = l
BY FlatOrder

\* What unpad_input gives.
LEMMA UnpaddedAt ==
    ASSUME NEW N, NEW batch, Batched(batch, N), NEW e, e = Indices(batch), NEW m, Laid(batch, N, e, m)
    PROVE  /\ DOMAIN Unpadded(batch) = 1 .. m
           /\ \A j \in 1 .. m : \A b, k : TokenIs(batch, N, e, j, b, k) =>
                  Unpadded(batch)[j] = <<batch[b].row, k>>
<1>1. DOMAIN e = 1 .. m
  BY DEF Laid
<1>2. Unpadded(batch) = [j \in 1 .. m |-> Token(batch[RowAt(e[j])], PlaceAt(e[j]))]
  BY <1>1 DEF Unpadded
<1>3. ASSUME NEW j \in 1 .. m, NEW b, NEW k, TokenIs(batch, N, e, j, b, k)
      PROVE  Token(batch[RowAt(e[j])], PlaceAt(e[j])) = <<batch[b].row, k>>
  <2>1. PICK length \in Lengths : length = batch[b].length /\ k \in 1 .. length /\ b \in 1 .. N /\ N \in Nat
    BY <1>3 DEF TokenIs, Batched
  <2>2. PICK q \in Places : q = Shift(length) + k
    BY <2>1, TokenPlace
  <2>3. e[j] = Flat(b, q) /\ b \in Nat \ {0}
    BY <1>3, <2>1, <2>2 DEF TokenIs
  <2>4. RowAt(e[j]) = b /\ PlaceAt(e[j]) = q
    BY <2>3, FlatPlace
  <2>5. TokenAt(length, q) = k /\ k # 0
    BY <2>1, <2>2, TokenPlaces
  <2> QED
    BY <2>1, <2>4, <2>5 DEF Token
<1> QED
  BY <1>2, <1>3

-----------------------------------------------------------------------------
(* A group of ranks that share the tokens.                                   *)

\* m entries, p of padding: L on each of sp ranks.
Shares(m, p, sp, L) ==
    /\ m \in Nat \ {0} /\ p \in Nat /\ sp \in Nat \ {0} /\ L \in Nat \ {0}
    /\ m + p = sp * L

LEMMA PaddedShares ==
    ASSUME NEW m \in Nat \ {0}, NEW sp \in Nat \ {0}
    PROVE  \E L : Shares(m, PadSize(m, sp), sp, L)
<1>1. PICK a, r \in Nat : a = m \div sp /\ r = m % sp /\ m = a * sp + r /\ r < sp
  BY Dividing
<1>2. r < sp
  BY <1>1
<1>3. CASE r = 0
  <2>1. PadSize(m, sp) = 0
    <3>1. sp % sp = 0
      <4>1. Composed(sp, sp, 1, 0) /\ 0 < sp
        BY DEF Composed
      <4> QED
        BY <4>1, QuotientOf
    <3> QED
      BY <1>1, <1>3, <3>1 DEF PadSize
  <2>2. a # 0 /\ m = sp * a
    BY <1>1, <1>3
  <2>3. Shares(m, 0, sp, a)
    BY <2>2 DEF Shares
  <2> QED
    BY <2>1, <2>3
<1>4. CASE r # 0
  <2>1. PICK c \in Nat : c = sp - r /\ c < sp
    BY <1>2, <1>4
  <2>2. PadSize(m, sp) = c
    <3>1. c % sp = c
      <4>1. Composed(c, sp, 0, c)
        BY DEF Composed
      <4> QED
        BY <2>1, <4>1, QuotientOf
    <3> QED
      BY <1>1, <2>1, <3>1 DEF PadSize
  <2>3. m + c = sp * (a + 1)
    BY <1>1, <2>1
  <2>4. Shares(m, c, sp, a + 1)
    BY <2>3 DEF Shares
  <2> QED
    BY <2>2, <2>4
<1> QED
  BY <1>3, <1>4

\* A list, whatever is in it.
Entries(x, n) == {x[i] : i \in 1 .. n}
Listed(x, n) == DOMAIN x = 1 .. n /\ x \in Seq(Entries(x, n)) /\ Len(x) = n

LEMMA ListedFunction ==
    ASSUME NEW n \in Nat, NEW x, x = [i \in 1 .. n |-> x[i]]
    PROVE  Listed(x, n)
<1>1. PICK S : S = Entries(x, n)
  OBVIOUS
<1>2. x \in [1 .. n -> S]
  BY <1>1 DEF Entries
<1>3. x \in Seq(S) /\ DOMAIN x = 1 .. n
  BY <1>2
<1> QED
  BY <1>1, <1>3, LenProperties DEF Listed

\* slice_input_tensor: the ranks' slices are a list's pieces,
LEMMA SlicesShare ==
    ASSUME NEW n, NEW sp, NEW L, Shares(n, 0, sp, L), NEW x, Listed(x, n)
    PROVE  /\ EqualPieces(Slices(x, sp), sp, L, Entries(x, n))
           /\ \A rank \in 1 .. sp, j \in 1 .. L : Slices(x, sp)[rank][j] = x[(rank - 1) * L + j]
<1>1. n \in Nat \ {0} /\ sp \in Nat \ {0} /\ L \in Nat \ {0} /\ n = sp * L
  BY DEF Shares
<1>2. PICK S : S = Entries(x, n)
  OBVIOUS
<1>3. x \in Seq(S) /\ Len(x) = n /\ DOMAIN x = 1 .. n
  BY <1>2 DEF Listed
<1>4. n \div sp = L
  <2>1. Composed(n, sp, L, 0) /\ 0 < sp
    <3>1. sp * L = L * sp + 0
      BY <1>1
    <3> QED
      BY <1>1, <3>1 DEF Composed
  <2> QED
    BY <1>1, <2>1, QuotientOf
<1>5. PICK s : s = Slices(x, sp)
  OBVIOUS
<1>6. s = [rank \in 1 .. sp |-> SubSeq(x, (rank - 1) * L + 1, rank * L)]
  BY <1>3, <1>4, <1>5 DEF Slices
<1>7. ASSUME NEW rank \in 1 .. sp
      PROVE  s[rank] \in Seq(S) /\ Len(s[rank]) = L /\ \A j \in 1 .. L : s[rank][j] = x[(rank - 1) * L + j]
  <2>1. PICK a \in Nat : a = (rank - 1) * L
    BY <1>1
  <2>2. rank * L = a + L
    BY <1>1, <2>1
  <2>3. a + L <= n
    <3>1. (rank - 1) * L + L \in 1 .. sp * L
      BY <1>1, RowInRange
    <3> QED
      BY <1>1, <2>1, <3>1
  <2>4. s[rank] = SubSeq(x, a + 1, a + L)
    BY <1>6, <2>1, <2>2
  <2>5. s[rank] = [j \in 1 .. L |-> x[a + j]]
    BY <1>1, <1>3, <2>3, <2>4
  <2>6. \A j \in 1 .. L : x[a + j] \in S
    <3>1. \A j \in 1 .. L : a + j \in 1 .. n
      BY <1>1, <2>3
    <3> QED
      BY <1>3, <3>1
  <2>7. s[rank] \in Seq(S) /\ Len(s[rank]) = L
    <3>1. s[rank] \in [1 .. L -> S]
      BY <2>5, <2>6
    <3> QED
      BY <1>1, <3>1
  <2> QED
    BY <2>1, <2>5, <2>7
<1>8. s \in Seq(Seq(S)) /\ Len(s) = sp
  <2>1. s \in [1 .. sp -> Seq(S)]
    BY <1>6, <1>7
  <2> QED
    BY <1>1, <2>1
<1>9. EqualPieces(s, sp, L, S)
  BY <1>7, <1>8 DEF EqualPieces
<1> QED
  BY <1>2, <1>5, <1>7, <1>9

\* A list on the ranks.
Shared(v, sp, L) ==
    /\ v = [rank \in 1 .. sp |-> v[rank]]
    /\ \A rank \in 1 .. sp : v[rank] = [j \in 1 .. L |-> v[rank][j]]

\* and put together in their order give the list.
LEMMA SharedFlat ==
    ASSUME NEW sp \in Nat \ {0}, NEW L \in Nat \ {0}, NEW v, Shared(v, sp, L)
    PROVE  \E S : FlatOf(FlattenSeq(v), v, sp, L, S)
<1>1. PICK S : S = UNION {{v[rank][j] : j \in 1 .. L} : rank \in 1 .. sp}
  OBVIOUS
<1>2. ASSUME NEW rank \in 1 .. sp PROVE v[rank] \in Seq(S) /\ Len(v[rank]) = L
  <2>1. \A j \in 1 .. L : v[rank][j] \in S
    BY <1>1
  <2>2. v[rank] \in [1 .. L -> S]
    BY <2>1 DEF Shared
  <2> QED
    BY <2>2
<1>3. v \in Seq(Seq(S)) /\ Len(v) = sp
  <2>1. v \in [1 .. sp -> Seq(S)]
    BY <1>2 DEF Shared
  <2> QED
    BY <2>1
<1>4. EqualPieces(v, sp, L, S)
  BY <1>2, <1>3 DEF EqualPieces
<1>5. FlatOf(FlattenSeq(v), v, sp, L, S)
  BY <1>4, FlattenPieces
<1> QED
  BY <1>5

LEMMA SlicesFlat ==
    ASSUME NEW n, NEW sp, NEW L, Shares(n, 0, sp, L), NEW x, Listed(x, n)
    PROVE  \A i \in 1 .. n : FlattenSeq(Slices(x, sp))[i] = x[i]
<1>1. n \in Nat \ {0} /\ sp \in Nat \ {0} /\ L \in Nat \ {0} /\ n = sp * L
  BY DEF Shares
<1>2. PICK S, s : S = Entries(x, n) /\ s = Slices(x, sp)
  OBVIOUS
<1>3. EqualPieces(s, sp, L, S) /\ \A rank \in 1 .. sp, j \in 1 .. L : s[rank][j] = x[(rank - 1) * L + j]
  BY <1>2, SlicesShare
<1>4. FlatOf(FlattenSeq(s), s, sp, L, S)
  BY <1>1, <1>3, FlattenPieces
<1>5. ASSUME NEW i \in 1 .. n PROVE FlattenSeq(s)[i] = x[i]
  <2>1. i \in 1 .. sp * L
    BY <1>1
  <2>2. PICK rank \in 1 .. sp, j \in 1 .. L : i = (rank - 1) * L + j
    BY <1>1, <2>1, RowNumber
  <2> QED
    BY <1>3, <1>4, <2>2 DEF FlatOf
<1> QED
  BY <1>2, <1>5

\* Padding goes behind a list.
Leads(x, a, n, m) == Listed(x, n) /\ \A i \in 1 .. m : x[i] = a[i]
LEMMA ListedJoin ==
    ASSUME NEW m \in Nat, NEW p \in Nat, NEW a, NEW b, Listed(a, m), Listed(b, p)
    PROVE  Leads(a \o b, a, m + p, m)
<1>1. PICK S : S = Entries(a, m) \cup Entries(b, p)
  OBVIOUS
<1>2. a \in Seq(S) /\ Len(a) = m /\ b \in Seq(S) /\ Len(b) = p
  <2>1. /\ DOMAIN a = 1 .. m /\ a \in [1 .. m -> Entries(a, m)]
        /\ DOMAIN b = 1 .. p /\ b \in [1 .. p -> Entries(b, p)]
    BY DEF Listed
  <2>2. a \in [1 .. m -> S] /\ b \in [1 .. p -> S]
    BY <1>1, <2>1
  <2> QED
    BY <2>2 DEF Listed
<1>3. PICK c : c = a \o b
  OBVIOUS
<1>4. c \in Seq(S) /\ Len(c) = m + p /\ \A i \in 1 .. m + p : c[i] = IF i <= m THEN a[i] ELSE b[i - m]
  BY <1>2, <1>3, ConcatProperties
<1>5. c = [i \in 1 .. m + p |-> c[i]]
  <2>1. DOMAIN c = 1 .. m + p
    BY <1>4, LenProperties
  <2> QED
    BY <1>4, <2>1
<1>6. Listed(c, m + p)
  BY <1>5, ListedFunction
<1>7. \A i \in 1 .. m : c[i] = a[i]
  BY <1>4
<1> QED
  BY <1>3, <1>6, <1>7 DEF Leads

\* The last position 0 up to a place.
LEMMA LatestZero ==
    ASSUME NEW J \in Nat, NEW i \in 1 .. J, NEW f, f[i] = 0, \A l \in i + 1 .. J : f[l] # 0
    PROVE  Max({l \in 1 .. J : f[l] = 0}) = i
<1>1. PICK s : s = {l \in 1 .. J : f[l] = 0}
  OBVIOUS
<1>2. i \in s /\ \A y \in s : i >= y
  BY <1>1
<1>3. Max(s) \in s /\ \A y \in s : Max(s) >= y
  BY <1>2 DEF Max
<1>4. s \subseteq Nat
  BY <1>1
<1>5. Max(s) = i
  <2>1. PICK x \in Nat : x = Max(s)
    BY <1>3, <1>4
  <2>2. i >= x /\ x >= i
    BY <1>2, <1>3, <2>1
  <2> QED
    BY <2>1, <2>2
<1> QED
  BY <1>1, <1>5

\* What the model says of a place.
LEMMA OutputAt ==
    ASSUME NEW n, NEW sp, NEW L, Shares(n, 0, sp, L), NEW x, Listed(x, n), NEW q, Listed(q, n),
           NEW v, v = ModelOutput(Slices(x, sp), Slices(q, sp))
    PROVE  /\ Shared(v, sp, L)
           /\ \A rank \in 1 .. sp, j \in 1 .. L, J \in 1 .. n : \A i \in 1 .. J :
                 /\ Composed(J, L, rank - 1, j)
                 /\ q[i] = 0 /\ \A l \in i + 1 .. J : q[l] # 0
                 => v[rank][j] = <<x[i], x[J]>>
<1>1. n \in Nat \ {0} /\ sp \in Nat \ {0} /\ L \in Nat \ {0}
  BY DEF Shares
<1>2. PICK a, c : a = Slices(x, sp) /\ c = Slices(q, sp)
  OBVIOUS
<1>3. DOMAIN a = 1 .. sp /\ \A rank \in 1 .. sp : DOMAIN a[rank] = 1 .. L /\ Len(a[rank]) = L
  <2>1. EqualPieces(a, sp, L, Entries(x, n))
    BY <1>2, SlicesShare
  <2>2. a \in Seq(Seq(Entries(x, n))) /\ Len(a) = sp /\ \A rank \in 1 .. sp : Len(a[rank]) = L
    BY <2>1 DEF EqualPieces
  <2>3. \A rank \in 1 .. sp : a[rank] \in Seq(Entries(x, n))
    BY <2>2
  <2> QED
    BY <2>2, <2>3
<1>4. PICK all, position : all = FlattenSeq(a) /\ position = FlattenSeq(c)
  OBVIOUS
<1>5. \A i \in 1 .. n : all[i] = x[i] /\ position[i] = q[i]
  BY <1>2, <1>4, SlicesFlat
<1> DEFINE out(J) == <<all[Max({i \in 1 .. J : position[i] = 0})], all[J]>>
<1>6. v = [rank \in 1 .. sp |-> [j \in 1 .. L |-> out((rank - 1) * L + j)]]
  BY <1>2, <1>3, <1>4 DEF ModelOutput
<1>7. Shared(v, sp, L)
  <2> HIDE DEF out
  <2> QED
    BY <1>6 DEF Shared
<1>8. ASSUME NEW rank \in 1 .. sp, NEW j \in 1 .. L, NEW J \in 1 .. n, NEW i \in 1 .. J,
             Composed(J, L, rank - 1, j), q[i] = 0, \A l \in i + 1 .. J : q[l] # 0
      PROVE  v[rank][j] = <<x[i], x[J]>>
  <2>1. v[rank][j] = out(J)
    <3> HIDE DEF out
    <3> QED
      BY <1>6, <1>8 DEF Composed
  <2>2. J \in Nat /\ i \in 1 .. n /\ \A l \in i + 1 .. J : l \in 1 .. n
    BY <1>1
  <2>3. position[i] = 0 /\ \A l \in i + 1 .. J : position[l] # 0
    BY <1>5, <1>8, <2>2
  <2>4. Max({l \in 1 .. J : position[l] = 0}) = i
    BY <2>2, <2>3, LatestZero
  <2>5. out(J) = <<all[i], all[J]>>
    BY <2>4
  <2> QED
    BY <1>5, <2>1, <2>2, <2>5
<1> QED
  BY <1>7, <1>8

\* gather_outpus_and_unpad
LEMMA GatheredAt ==
    ASSUME NEW m, NEW p, NEW sp, NEW L, Shares(m, p, sp, L), NEW v, Shared(v, sp, L),
           NEW rank \in 1 .. sp, NEW j \in 1 .. L, NEW J \in 1 .. m, Composed(J, L, rank - 1, j)
    PROVE  GatherAndUnpad(v, p)[J] = v[rank][j]
<1>1. m \in Nat \ {0} /\ p \in Nat /\ sp \in Nat \ {0} /\ L \in Nat \ {0} /\ m + p = sp * L
  BY DEF Shares
<1>2. PICK all : all = FlattenSeq(v)
  OBVIOUS
<1>3. PICK S : FlatOf(all, v, sp, L, S)
  BY <1>1, <1>2, SharedFlat
<1>4. /\ all \in Seq(S) /\ Len(all) = sp * L
      /\ \A s \in 1 .. sp, i \in 1 .. L : all[(s - 1) * L + i] = v[s][i]
  BY <1>3 DEF FlatOf
<1>5. PICK l \in Nat : l = Len(all)
  BY <1>4
<1>6. l = m + p /\ l - p = m
  BY <1>1, <1>4, <1>5
<1>7. GatherAndUnpad(v, p) = SubSeq(all, 1, m)
  BY <1>2, <1>5, <1>6 DEF GatherAndUnpad
<1>8. SubSeq(all, 1, m)[J] = all[J]
  <2>1. m <= Len(all) /\ m \in Nat
    BY <1>1, <1>5, <1>6
  <2>2. SubSeq(all, 1, m) = [i \in 1 .. m |-> all[i]]
    BY <1>4, <2>1
  <2> QED
    BY <2>2
<1>9. all[J] = v[rank][j]
  BY <1>4 DEF Composed
<1> QED
  BY <1>7, <1>8, <1>9

\* The tokens of a micro-batch on the ranks of a group.
Packing(batch, N, e, m, sp, L) ==
    /\ Batched(batch, N) /\ e = Indices(batch) /\ Laid(batch, N, e, m)
    /\ Shares(m, PadSize(m, sp), sp, L)

\* What a rank has of the k-th token of the b-th row, at its j-th place.
Seen(batch, N, e, m, L, rank, j, b, k) ==
    \E J \in 1 .. m : Composed(J, L, rank - 1, j) /\ TokenIs(batch, N, e, J, b, k)

LEMMA UnpaddedListed ==
    ASSUME NEW batch, NEW N, NEW e, NEW m, NEW sp, NEW L, Packing(batch, N, e, m, sp, L)
    PROVE  /\ Listed(Unpadded(batch), m) /\ Listed(e, m)
           /\ Len(Unpadded(batch)) = m /\ Len(e) = m /\ DOMAIN Unpadded(batch) = 1 .. m
<1>1. Laid(batch, N, e, m) /\ m \in Nat /\ e \in [1 .. m -> Nat] /\ DOMAIN e = 1 .. m
  BY DEF Packing, Laid
<1>2. Listed(e, m)
  <2>1. e = [j \in 1 .. m |-> e[j]]
    BY <1>1
  <2> QED
    BY <1>1, <2>1, ListedFunction
<1>3. PICK u : u = Unpadded(batch)
  OBVIOUS
<1>4. u = [j \in 1 .. m |-> u[j]]
  <2>1. e = Indices(batch)
    BY DEF Packing
  <2> QED
    BY <1>1, <1>3, <2>1 DEF Unpadded
<1>5. Listed(u, m)
  BY <1>1, <1>4, ListedFunction
<1> QED
  BY <1>2, <1>3, <1>5 DEF Listed

\* ulysses_pad puts it behind the tokens and their positions.
Padding(y, p) == y = [j \in 1 .. p |-> PadToken] \/ y = [j \in 1 .. p |-> j - 1]
PadsBehind(x, a, p) == x = PadIds(a, p) \/ x = PadPositions(a, p)
LEMMA PaddingListed == ASSUME NEW p \in Nat, NEW y, Padding(y, p) PROVE Listed(y, p)
<1>1. y = [j \in 1 .. p |-> y[j]]
  BY DEF Padding
<1> QED
  BY <1>1, ListedFunction

LEMMA PaddedBehind ==
    ASSUME NEW m \in Nat, NEW p \in Nat, NEW a, Listed(a, m), NEW x, PadsBehind(x, a, p)
    PROVE  Listed(x, m + p) /\ \A i \in 1 .. m : x[i] = a[i]
<1>1. \E y : Padding(y, p) /\ x = a \o y
  BY DEF PadsBehind, Padding, PadIds, PadPositions
<1>2. \A y : Padding(y, p) => Leads(a \o y, a, m + p, m)
  <2> TAKE y
  <2> HAVE Padding(y, p)
  <2>1. Listed(y, p)
    BY PaddingListed
  <2> QED
    BY <2>1, ListedJoin
<1> QED
  BY <1>1, <1>2 DEF Leads

LEMMA PackedOutputAt ==
    ASSUME NEW batch, NEW N, NEW e, NEW m, NEW sp, NEW L, Packing(batch, N, e, m, sp, L),
           NEW v, v = PackedOutput(batch, sp)
    PROVE  /\ Shared(v, sp, L)
           /\ \A rank \in 1 .. sp, j \in 1 .. L : \A b, k : Seen(batch, N, e, m, L, rank, j, b, k) =>
                  v[rank][j] = <<<<batch[b].row, 1>>, <<batch[b].row, k>>>>
<1>1. /\ Batched(batch, N) /\ e = Indices(batch) /\ Laid(batch, N, e, m)
      /\ Shares(m, PadSize(m, sp), sp, L)
  BY DEF Packing
<1>2. PICK p : p = PadSize(m, sp) /\ p \in Nat /\ m \in Nat \ {0}
  BY <1>1 DEF Shares
<1>3. PICK n : n = m + p
  OBVIOUS
<1>4. Shares(n, 0, sp, L)
  BY <1>1, <1>2, <1>3 DEF Shares
<1>5. PICK u : u = Unpadded(batch)
  OBVIOUS
<1>6. Listed(u, m) /\ Len(u) = m /\ DOMAIN u = 1 .. m
  BY <1>5, UnpaddedListed
<1>7. PICK t : t = [j \in 1 .. m |-> u[j][2] - 1]
  OBVIOUS
<1>8. Listed(t, m)
  BY <1>2, <1>7, ListedFunction
<1>9. PICK x, q : x = PadIds(u, p) /\ q = PadPositions(t, p)
  OBVIOUS
<1>10. Listed(x, n) /\ \A i \in 1 .. m : x[i] = u[i]
  BY <1>2, <1>3, <1>6, <1>9, PaddedBehind DEF PadsBehind
<1>11. Listed(q, n) /\ \A i \in 1 .. m : q[i] = t[i]
  BY <1>2, <1>3, <1>8, <1>9, PaddedBehind DEF PadsBehind
<1>12. v = ModelOutput(Slices(x, sp), Slices(q, sp))
  BY <1>2, <1>5, <1>6, <1>7, <1>9 DEF PackedOutput
<1>13. Shared(v, sp, L)
  BY <1>4, <1>10, <1>11, <1>12, OutputAt
<1>14. ASSUME NEW rank \in 1 .. sp, NEW j \in 1 .. L, NEW b, NEW k, NEW J \in 1 .. m,
              Composed(J, L, rank - 1, j), TokenIs(batch, N, e, J, b, k)
       PROVE  v[rank][j] = <<<<batch[b].row, 1>>, <<batch[b].row, k>>>>
  <2>1. PICK i \in 1 .. J : /\ TokenIs(batch, N, e, i, b, 1)
                            /\ \A l \in i + 1 .. J : \A c : ~TokenIs(batch, N, e, l, c, 1)
    BY <1>1, <1>14, FirstToken
  <2>2. \A l \in 1 .. m : \A c, d : TokenIs(batch, N, e, l, c, d) => u[l] = <<batch[c].row, d>>
    BY <1>1, <1>5, UnpaddedAt
  <2>3. i \in 1 .. m /\ J \in 1 .. n /\ \A l \in i + 1 .. J : l \in 1 .. m
    BY <1>2, <1>3
  <2>4. u[i] = <<batch[b].row, 1>> /\ u[J] = <<batch[b].row, k>>
    BY <1>14, <2>1, <2>2, <2>3
  <2>5. q[i] = 0
    <3>1. t[i] = u[i][2] - 1
      BY <1>7, <2>3
    <3> QED
      BY <1>11, <2>3, <2>4, <3>1
  <2>6. ASSUME NEW l \in i + 1 .. J PROVE q[l] # 0
    <3>1. l \in 1 .. m
      BY <2>3
    <3>2. PICK c, d : TokenIs(batch, N, e, l, c, d)
      BY <1>1, <3>1 DEF Laid
    <3>3. d # 1 /\ d \in Nat
      <4>1. d \in 1 .. batch[c].length /\ c \in 1 .. N /\ batch[c].length \in Lengths
        BY <1>1, <3>2 DEF TokenIs, Batched
      <4> QED
        BY <2>1, <3>2, <4>1
    <3>4. t[l] = d - 1
      BY <1>7, <2>2, <3>1, <3>2
    <3> QED
      BY <1>11, <3>1, <3>3, <3>4
  <2>7. v[rank][j] = <<x[i], x[J]>>
    BY <1>4, <1>10, <1>11, <1>12, <1>14, <2>3, <2>5, <2>6, OutputAt
  <2> QED
    BY <1>10, <2>3, <2>4, <2>7
<1> QED
  BY <1>13, <1>14 DEF Seen

\* A token's label is the next of its row.
LEMMA PackedLabelsAt ==
    ASSUME NEW batch, NEW N, NEW e, NEW m, NEW sp, NEW L, Packing(batch, N, e, m, sp, L),
           NEW v, v = PackedLabels(batch, sp)
    PROVE  /\ \A rank \in 1 .. sp : DOMAIN v[rank] = 1 .. L
           /\ \A rank \in 1 .. sp, j \in 1 .. L : \A b, k :
                  Seen(batch, N, e, m, L, rank, j, b, k) /\ k < batch[b].length =>
                      v[rank][j] = <<batch[b].row, k + 1>>
<1>1. /\ Batched(batch, N) /\ e = Indices(batch) /\ Laid(batch, N, e, m)
      /\ Shares(m, PadSize(m, sp), sp, L)
  BY DEF Packing
<1>2. PICK p : p = PadSize(m, sp) /\ p \in Nat /\ m \in Nat \ {0}
  BY <1>1 DEF Shares
<1>3. PICK n : n = m + p
  OBVIOUS
<1>4. Shares(n, 0, sp, L)
  BY <1>1, <1>2, <1>3 DEF Shares
<1>5. PICK u : u = Unpadded(batch)
  OBVIOUS
<1>6. Listed(u, m) /\ Len(u) = m /\ DOMAIN u = 1 .. m
  BY <1>5, UnpaddedListed
<1>7. PICK t : t = Rolled(u) /\ t = [j \in 1 .. m |-> u[1 + (j % m)]]
  BY <1>6 DEF Rolled
<1>8. Listed(t, m)
  <2>1. t = [j \in 1 .. m |-> t[j]]
    BY <1>7
  <2> QED
    BY <1>2, <2>1, ListedFunction
<1>9. PICK x : x = PadIds(t, p)
  OBVIOUS
<1>10. Listed(x, n) /\ \A i \in 1 .. m : x[i] = t[i]
  BY <1>2, <1>3, <1>8, <1>9, PaddedBehind DEF PadsBehind
<1>11. v = Slices(x, sp)
  BY <1>2, <1>5, <1>6, <1>7, <1>9 DEF PackedLabels
<1>12. /\ EqualPieces(v, sp, L, Entries(x, n))
       /\ \A rank \in 1 .. sp, j \in 1 .. L : v[rank][j] = x[(rank - 1) * L + j]
  BY <1>4, <1>10, <1>11, SlicesShare
<1>13. ASSUME NEW rank \in 1 .. sp PROVE DOMAIN v[rank] = 1 .. L
  <2>1. PICK S : S = Entries(x, n)
    OBVIOUS
  <2>2. v \in Seq(Seq(S)) /\ Len(v) = sp /\ Len(v[rank]) = L
    BY <1>12, <2>1 DEF EqualPieces
  <2>3. v[rank] \in Seq(S)
    BY <2>2
  <2> QED
    BY <2>2, <2>3
<1>14. ASSUME NEW rank \in 1 .. sp, NEW j \in 1 .. L, NEW b, NEW k, NEW J \in 1 .. m,
              Composed(J, L, rank - 1, j), TokenIs(batch, N, e, J, b, k), k < batch[b].length
       PROVE  v[rank][j] = <<batch[b].row, k + 1>>
  <2>1. J + 1 \in 1 .. m /\ TokenIs(batch, N, e, J + 1, b, k + 1)
    BY <1>1, <1>14, NextToken
  <2>2. u[J + 1] = <<batch[b].row, k + 1>>
    BY <1>1, <1>5, <2>1, UnpaddedAt
  <2>3. J % m = J
    <3>1. Composed(J, m, 0, J) /\ J < m
      BY <1>2, <2>1 DEF Composed
    <3> QED
      BY <1>2, <3>1, QuotientOf
  <2>4. t[J] = u[1 + J] /\ 1 + J = J + 1
    BY <1>7, <2>3
  <2>5. v[rank][j] = x[J]
    BY <1>12, <1>14 DEF Composed
  <2> QED
    BY <1>10, <2>2, <2>4, <2>5
<1> QED
  BY <1>13, <1>14 DEF Seen

\* Back at its place in its row.
LEMMA UnpackedAt ==
    ASSUME NEW batch, NEW N, NEW e, NEW m, NEW sp, NEW L, Packing(batch, N, e, m, sp, L),
           NEW v, Shared(v, sp, L), NEW rank \in 1 .. sp, NEW j \in 1 .. L, NEW b, NEW k,
           Seen(batch, N, e, m, L, rank, j, b, k)
    PROVE  Unpacked(v, batch, sp)[b][Shift(batch[b].length) + k] = v[rank][j]
<1>1. /\ Batched(batch, N) /\ e = Indices(batch) /\ Laid(batch, N, e, m)
      /\ Shares(m, PadSize(m, sp), sp, L)
  BY DEF Packing
<1>2. PICK J \in 1 .. m : Composed(J, L, rank - 1, j) /\ TokenIs(batch, N, e, J, b, k)
  BY DEF Seen
<1>3. PICK g : g = GatherAndUnpad(v, PadSize(m, sp))
  OBVIOUS
<1>4. g[J] = v[rank][j]
  BY <1>1, <1>2, <1>3, GatheredAt
<1>5. PICK length \in Lengths : length = batch[b].length /\ k \in 1 .. length /\ b \in 1 .. N
  BY <1>1, <1>2 DEF TokenIs, Batched
<1>6. PICK q \in Places : q = Shift(length) + k
  BY <1>5, TokenPlace
<1>7. e[J] = Flat(b, q)
  BY <1>2, <1>5, <1>6 DEF TokenIs
<1>8. Len(e) = m /\ DOMAIN e = 1 .. m /\ DOMAIN batch = 1 .. N
  BY <1>1, UnpaddedListed DEF Laid, Batched
<1>9. Flat(b, q) \in ToSet(e)
  BY <1>7, <1>8 DEF ToSet
<1>10. (CHOOSE i \in DOMAIN e : e[i] = Flat(b, q)) = J
  <2>1. \A i \in 1 .. m : e[i] = Flat(b, q) => i = J
    <3> TAKE i \in 1 .. m
    <3> HAVE e[i] = Flat(b, q)
    <3>1. m \in Nat /\ e[i] \in Nat /\ e[J] \in Nat /\ e[i] = e[J]
      BY <1>1, <1>7 DEF Laid
    <3>2. (i < J => e[i] < e[J]) /\ (J < i => e[J] < e[i])
      BY <1>1 DEF Laid
    <3> QED
      BY <3>1, <3>2
  <2> QED
    BY <1>7, <1>8, <2>1
<1>11. Unpacked(v, batch, sp) = PadInput(g, batch)
  BY <1>1, <1>3, <1>8 DEF Unpacked
<1>12. PadInput(g, batch)[b][q] = g[J]
  BY <1>1, <1>5, <1>6, <1>8, <1>9, <1>10 DEF PadInput
<1> QED
  BY <1>4, <1>5, <1>6, <1>11, <1>12

-----------------------------------------------------------------------------
(* What a forward says of a row.                                             *)

Said(row, k) == <<<<row, 1>>, <<row, k>>>>
LogProbOf(row, k) == <<<<row, 1>>, <<row, k - 1>>, <<row, k>>>>

\* A rank of the group has the token at one of its places.
LEMMA TokenSeen ==
    ASSUME NEW batch, NEW N, Batched(batch, N), NEW sp \in Nat \ {0},
           NEW b \in 1 .. N, NEW k \in 1 .. batch[b].length
    PROVE  \E e, m, L : /\ Packing(batch, N, e, m, sp, L)
                        /\ \E rank \in 1 .. sp, j \in 1 .. L : Seen(batch, N, e, m, L, rank, j, b, k)
<1>1. PICK e : e = Indices(batch)
  OBVIOUS
<1>2. PICK m : Laid(batch, N, e, m)
  BY <1>1, TokensLaid
<1>3. m \in Nat
  BY <1>2 DEF Laid
<1>4. PICK J \in 1 .. m : TokenIs(batch, N, e, J, b, k)
  BY <1>2 DEF Laid
<1>5. m \in Nat \ {0}
  BY <1>3, <1>4
<1>6. PICK L : Shares(m, PadSize(m, sp), sp, L)
  BY <1>5, PaddedShares
<1>7. Packing(batch, N, e, m, sp, L)
  BY <1>1, <1>2, <1>6 DEF Packing
<1>8. L \in Nat \ {0} /\ J \in 1 .. sp * L
  BY <1>4, <1>5, <1>6 DEF Shares
<1>9. PICK rank \in 1 .. sp, j \in 1 .. L : J = (rank - 1) * L + j
  BY <1>8, RowNumber
<1>10. Seen(batch, N, e, m, L, rank, j, b, k)
  BY <1>4, <1>9 DEF Seen, Composed
<1> QED
  BY <1>7, <1>10

\* Packed rows, unpacked.
LEMMA PackedSays ==
    ASSUME NEW batch, NEW N, Batched(batch, N), NEW sp \in Nat \ {0},
           NEW b \in 1 .. N, NEW k \in 1 .. batch[b].length
    PROVE  Unpacked(PackedOutput(batch, sp), batch, sp)[b][Shift(batch[b].length) + k]
               = Said(batch[b].row, k)
<1>1. PICK e, m, L : /\ Packing(batch, N, e, m, sp, L)
                     /\ \E rank \in 1 .. sp, j \in 1 .. L : Seen(batch, N, e, m, L, rank, j, b, k)
  BY TokenSeen
<1>2. PICK rank \in 1 .. sp, j \in 1 .. L : Seen(batch, N, e, m, L, rank, j, b, k)
  BY <1>1
<1>3. PICK v : v = PackedOutput(batch, sp)
  OBVIOUS
<1>4. Shared(v, sp, L) /\ v[rank][j] = Said(batch[b].row, k)
  BY <1>1, <1>2, <1>3, PackedOutputAt DEF Said
<1>5. Unpacked(v, batch, sp)[b][Shift(batch[b].length) + k] = v[rank][j]
  BY <1>1, <1>2, <1>4, UnpackedAt
<1> QED
  BY <1>3, <1>4, <1>5

\* with the labels of the places,
LEMMA AppendThird ==
    ASSUME NEW a, NEW b, NEW c
    PROVE  Append(<<a, b>>, c) = <<a, b, c>>
<1>1. PICK S : S = {a, b, c}
  OBVIOUS
<1>2. PICK s : s = <<a, b>>
  OBVIOUS
<1>3. s \in Seq(S) /\ Len(s) = 2 /\ s[1] = a /\ s[2] = b
  BY <1>1, <1>2
<1>4. PICK t, u : t = Append(s, c) /\ u = <<a, b, c>>
  OBVIOUS
<1>5. t \in Seq(S) /\ Len(t) = 3 /\ t[1] = a /\ t[2] = b /\ t[3] = c
  <2>1. c \in S
    BY <1>1
  <2>2. /\ Append(s, c) \in Seq(S) /\ Len(Append(s, c)) = Len(s) + 1
        /\ \A i \in 1 .. Len(s) : Append(s, c)[i] = s[i]
        /\ Append(s, c)[Len(s) + 1] = c
    <3>1. s \in Seq(S)
      BY <1>3
    <3> QED
      BY <2>1, <3>1, AppendProperties
  <2>3. PICK l : l = Len(s) /\ l = 2 /\ 1 \in 1 .. l /\ 2 \in 1 .. l /\ l + 1 = 3
    BY <1>3
  <2> QED
    BY <1>3, <1>4, <2>2, <2>3
<1>6. u \in Seq(S) /\ Len(u) = 3 /\ u[1] = a /\ u[2] = b /\ u[3] = c
  BY <1>1, <1>4
<1>7. \A i \in 1 .. 3 : i = 1 \/ i = 2 \/ i = 3
  OBVIOUS
<1>8. \A i \in 1 .. 3 : t[i] = u[i]
  BY <1>5, <1>6, <1>7
<1>9. t = u
  BY <1>5, <1>6, <1>8, SeqEqual
<1> QED
  BY <1>2, <1>4, <1>9

LabelledAll(v, logits, labels) ==
    v = [rank \in DOMAIN logits |-> Labelled(logits[rank], labels[rank])]
LabelledEach(v, logits, labels, sp, L) ==
    \A rank \in 1 .. sp, j \in 1 .. L : v[rank][j] = Append(logits[rank][j], labels[rank][j])
LEMMA LabelledShared ==
    ASSUME NEW sp, NEW L, NEW logits, Shared(logits, sp, L), NEW labels,
           NEW v, LabelledAll(v, logits, labels)
    PROVE  Shared(v, sp, L) /\ LabelledEach(v, logits, labels, sp, L)
<1>1. DOMAIN logits = 1 .. sp /\ \A s \in 1 .. sp : DOMAIN logits[s] = 1 .. L
  BY DEF Shared
<1>2. v = [s \in 1 .. sp |-> Labelled(logits[s], labels[s])]
  BY <1>1 DEF LabelledAll
<1>3. \A s \in 1 .. sp : v[s] = [i \in 1 .. L |-> Append(logits[s][i], labels[s][i])]
  BY <1>1, <1>2 DEF Labelled
<1>4. v = [s \in 1 .. sp |-> v[s]]
  BY <1>2
<1>5. \A s \in 1 .. sp, j \in 1 .. L : v[s][j] = Append(logits[s][j], labels[s][j])
  BY <1>3
<1>6. ASSUME NEW s \in 1 .. sp PROVE v[s] = [i \in 1 .. L |-> v[s][i]]
  <2>1. v[s] = [i \in 1 .. L |-> Append(logits[s][i], labels[s][i])]
    BY <1>3
  <2> QED
    BY <2>1
<1> QED
  BY <1>4, <1>5, <1>6 DEF Shared, LabelledEach

LEMMA PackedLabelled ==
    ASSUME NEW batch, NEW N, Batched(batch, N), NEW sp \in Nat \ {0},
           NEW b \in 1 .. N, NEW k \in 1 .. batch[b].length, k < batch[b].length,
           NEW logits, logits = PackedOutput(batch, sp), NEW labels, labels = PackedLabels(batch, sp),
           NEW v, LabelledAll(v, logits, labels)
    PROVE  Unpacked(v, batch, sp)[b][Shift(batch[b].length) + k] = LogProbOf(batch[b].row, k + 1)
<1>1. PICK e, m, L : /\ Packing(batch, N, e, m, sp, L)
                     /\ \E rank \in 1 .. sp, j \in 1 .. L : Seen(batch, N, e, m, L, rank, j, b, k)
  BY TokenSeen
<1>2. PICK rank \in 1 .. sp, j \in 1 .. L : Seen(batch, N, e, m, L, rank, j, b, k)
  BY <1>1
<1>3. PICK row : row = batch[b].row
  OBVIOUS
<1>4. Shared(logits, sp, L) /\ logits[rank][j] = <<<<row, 1>>, <<row, k>>>>
  BY <1>1, <1>2, <1>3, PackedOutputAt
<1>5. labels[rank][j] = <<row, k + 1>>
  BY <1>1, <1>2, <1>3, PackedLabelsAt
<1>6. Shared(v, sp, L) /\ LabelledEach(v, logits, labels, sp, L)
  BY <1>4, LabelledShared
<1>7. v[rank][j] = <<<<row, 1>>, <<row, k>>, <<row, k + 1>>>>
  <2>1. Append(<<<<row, 1>>, <<row, k>>>>, <<row, k + 1>>) = <<<<row, 1>>, <<row, k>>, <<row, k + 1>>>>
    BY AppendThird
  <2>2. v[rank][j] = Append(logits[rank][j], labels[rank][j])
    BY <1>6 DEF LabelledEach
  <2> QED
    BY <1>4, <1>5, <2>1, <2>2
<1>8. Unpacked(v, batch, sp)[b][Shift(batch[b].length) + k] = v[rank][j]
  BY <1>1, <1>2, <1>6, UnpackedAt
<1>9. k + 1 - 1 = k
  <2>1. k \in Int
    BY DEF Batched, Lengths
  <2> QED
    BY <2>1
<1> QED
  BY <1>3, <1>7, <1>8, <1>9 DEF LogProbOf

\* and rows with their padding.
LEMMA PaddedSays ==
    ASSUME NEW batch, NEW N, Batched(batch, N), NEW b \in 1 .. N, NEW k \in 1 .. batch[b].length
    PROVE  PaddedOutput(batch)[b][Shift(batch[b].length) + k] = Said(batch[b].row, k)
<1>1. PICK length \in Lengths : length = batch[b].length /\ k \in 1 .. length
  BY DEF Batched
<1>2. PICK q \in Places : q = Shift(length) + k
  BY <1>1, TokenPlace
<1>3. TokenAt(length, q) = k /\ k # 0
  BY <1>1, <1>2, TokenPlaces
<1>4. DOMAIN batch = 1 .. N
  BY DEF Batched
<1>5. Token(batch[b], q) = <<batch[b].row, k>>
  BY <1>1, <1>3 DEF Token
<1> QED
  BY <1>1, <1>2, <1>3, <1>4, <1>5 DEF PaddedOutput, Said

-----------------------------------------------------------------------------
(* The part of the response.                                                 *)

\* The t-th token of a response is in a row where its prompt ends.
Responding(length, t) ==
    /\ t \in 1 .. ResponseLength
    /\ PromptOf(length) + t \in 2 .. length
    /\ PromptLength + t = Shift(length) + (PromptOf(length) + t)
    /\ PromptLength + t - 1 = Shift(length) + (PromptOf(length) + t - 1)
    /\ TokenAt(length, PromptLength + t) = PromptOf(length) + t
LEMMA ResponseToken ==
    ASSUME NEW length \in Lengths, NEW t \in 1 .. length - PromptOf(length)
    PROVE  Responding(length, t)
<1>1. Seated(length)
  BY RowSeated
<1>2. PICK p \in Nat : p = PromptOf(length) /\ p \in 1 .. PromptLength /\ p < length /\ length - p <= ResponseLength
  BY <1>1 DEF Seated
<1>3. length \in Nat /\ PromptLength \in Nat /\ ResponseLength \in Nat
  BY Widths DEF Lengths
<1>4. PICK s \in Nat : s = Shift(length) /\ s = PromptLength - p
  BY <1>1, <1>2 DEF Seated, Shift
<1>5. PICK k : k = p + t
  OBVIOUS
<1>6. k \in 2 .. length /\ k \in 1 .. length /\ t \in 1 .. ResponseLength
  BY <1>2, <1>3, <1>5
<1>7. PromptLength + t = s + k /\ PromptLength + t - 1 = s + (k - 1)
  BY <1>2, <1>3, <1>4, <1>5
<1>8. TokenAt(length, s + k) = k
  BY <1>4, <1>6, TokenPlaces
<1> QED
  BY <1>2, <1>4, <1>5, <1>6, <1>7, <1>8 DEF Responding

Wide(x) == x = [q \in Places |-> x[q]]
Response(y, x) ==
    /\ DOMAIN y = 1 .. ResponseLength
    /\ \A t \in 1 .. ResponseLength : y[t] = x[PromptLength + t - 1]
LEMMA ResponseAt ==
    ASSUME NEW full, NEW b \in DOMAIN full, Wide(full[b])
    PROVE  Response(ResponsePart(full)[b], full[b])
<1>1. PICK x : x = full[b]
  OBVIOUS
<1>2. PICK w, p, l \in Nat \ {0} : w = Width /\ p = PromptLength /\ l = ResponseLength /\ w = p + l
  BY Widths
<1>3. x = [q \in 1 .. w |-> x[q]]
  BY <1>1, <1>2 DEF Wide, Places
<1>4. PICK S : S = Entries(x, w)
  OBVIOUS
<1>5. x \in Seq(S) /\ Len(x) = w
  BY <1>2, <1>3, <1>4, ListedFunction DEF Listed
<1>6. ResponsePart(full)[b] = SubSeq(x, p, w - 1)
  BY <1>1, <1>2 DEF ResponsePart
<1>7. SubSeq(x, p, w - 1) = [t \in 1 .. l |-> x[p + t - 1]]
  BY <1>2, <1>5
<1> QED
  BY <1>1, <1>2, <1>6, <1>7 DEF Response

\* The last token has the largest position.
LEMMA LastPlace ==
    ASSUME NEW length \in Lengths
    PROVE  LastValid(length) = Shift(length) + length
<1> DEFINE position(q) == Max({0, TokenAt(length, q) - 1})
<1>1. PICK z \in Places : z = Shift(length) + length
  <2>1. length \in 1 .. length
    BY DEF Lengths
  <2> QED
    BY <2>1, TokenPlace
<1>2. Places \subseteq Int
  BY DEF Places
<1>3. length \in Int /\ length >= 2
  BY DEF Lengths
<1>4. ASSUME NEW q \in Places
      PROVE  position(q) \in Int /\ position(q) <= length - 1 /\ (position(q) = length - 1 <=> q = z)
  <2>1. PICK k : k = TokenAt(length, q)
    OBVIOUS
  <2>2. k = 0 \/ (k \in 1 .. length /\ q = Shift(length) + k)
    BY <1>2, <2>1, TokenPlaces
  <2>3. q = z => k = length
    <3>1. length \in 1 .. length
      BY <1>3
    <3> QED
      BY <1>1, <2>1, <3>1, TokenPlaces
  <2>4. k - 1 \in Int
    BY <1>3, <2>2
  <2>5. position(q) = IF 0 <= k - 1 THEN k - 1 ELSE 0
    BY <2>1, <2>4, LargerOfTwo
  <2>6. k = length => q = z
    BY <1>1, <1>3, <2>2
  <2> QED
    BY <1>3, <2>2, <2>3, <2>5, <2>6
<1>5. PICK T : T = {q \in Places : \A other \in Places : position(other) <= position(q)}
  OBVIOUS
<1> HIDE DEF position
<1>6. T = {z}
  <2>1. ASSUME NEW q \in Places PROVE position(q) <= position(z)
    BY <1>1, <1>3, <1>4
  <2>2. z \in T
    BY <1>1, <1>5, <2>1
  <2>3. ASSUME NEW q \in T PROVE q = z
    <3>1. q \in Places /\ position(z) <= position(q)
      BY <1>1, <1>5, <2>3
    <3> QED
      BY <1>1, <1>3, <1>4, <3>1
  <2> QED
    BY <2>2, <2>3
<1>7. Min(T) = z
  BY <1>1, <1>2, <1>6 DEF Min
<1> USE DEF position
<1>8. LastValid(length) = Min(T)
  BY <1>5 DEF LastValid
<1> QED
  BY <1>1, <1>7, <1>8

\* What is right of a row's answers.
LogProbsOf(x, row, length) ==
    \A t \in 1 .. length - PromptOf(length) : x[t] = LogProbOf(row, PromptOf(length) + t)
ValuesOf(x, row, length) ==
    \A t \in 1 .. length - PromptOf(length) : x[t] = Said(row, PromptOf(length) + t - 1)

\* One for each row.
Each(x, N) == x = [b \in 1 .. N |-> x[b]]

LEMMA UnpackedWide ==
    ASSUME NEW batch, NEW N, Batched(batch, N), NEW v, NEW sp
    PROVE  Each(Unpacked(v, batch, sp), N) /\ \A b \in 1 .. N : Wide(Unpacked(v, batch, sp)[b])
<1>1. DOMAIN batch = 1 .. N
  BY DEF Batched
<1>2. PICK g : g = GatherAndUnpad(v, PadSize(Len(Indices(batch)), sp))
  OBVIOUS
<1>3. PICK full : full = Unpacked(v, batch, sp) /\ full = PadInput(g, batch)
  BY <1>2 DEF Unpacked
<1>4. full = [b \in 1 .. N |-> full[b]]
  BY <1>1, <1>3 DEF PadInput
<1>5. ASSUME NEW b \in 1 .. N PROVE full[b] = [q \in Places |-> full[b][q]]
  BY <1>1, <1>3 DEF PadInput
<1> QED
  BY <1>3, <1>4, <1>5 DEF Each, Wide

LEMMA PaddedWide ==
    ASSUME NEW batch, NEW N, Batched(batch, N)
    PROVE  Each(PaddedOutput(batch), N) /\ \A b \in 1 .. N : Wide(PaddedOutput(batch)[b])
<1>1. DOMAIN batch = 1 .. N
  BY DEF Batched
<1>2. PICK full : full = PaddedOutput(batch)
  OBVIOUS
<1>3. full = [b \in 1 .. N |-> full[b]]
  BY <1>1, <1>2 DEF PaddedOutput
<1>4. ASSUME NEW b \in 1 .. N PROVE full[b] = [q \in Places |-> full[b][q]]
  BY <1>1, <1>2 DEF PaddedOutput
<1> QED
  BY <1>2, <1>3, <1>4 DEF Each, Wide

LEMMA ResponseEach ==
    ASSUME NEW full, NEW N, Each(full, N), NEW b \in 1 .. N, Wide(full[b])
    PROVE  Each(ResponsePart(full), N) /\ Response(ResponsePart(full)[b], full[b])
<1>1. DOMAIN full = 1 .. N
  BY DEF Each
<1>2. PICK part : part = ResponsePart(full)
  OBVIOUS
<1>3. part = [c \in 1 .. N |-> part[c]]
  BY <1>1, <1>2 DEF ResponsePart
<1>4. Response(ResponsePart(full)[b], full[b])
  BY <1>1, ResponseAt
<1> QED
  BY <1>2, <1>3, <1>4 DEF Each

\* The critic's values of a row's response,
LEMMA ResponseValues ==
    ASSUME NEW full, NEW row, NEW length \in Lengths,
           \A k \in 1 .. length : full[Shift(length) + k] = Said(row, k),
           NEW x, Response(x, full)
    PROVE  ValuesOf(x, row, length)
<1>1. ASSUME NEW t \in 1 .. length - PromptOf(length)
      PROVE  x[t] = Said(row, PromptOf(length) + t - 1)
  <2>1. Responding(length, t)
    BY ResponseToken
  <2>2. PICK k : k = PromptOf(length) + t - 1
    OBVIOUS
  <2>3. t \in 1 .. ResponseLength /\ PromptLength + t - 1 = Shift(length) + k
    BY <2>1, <2>2 DEF Responding
  <2>4. k \in 1 .. length
    <3>1. PromptOf(length) + t \in 2 .. length
      BY <2>1 DEF Responding
    <3>2. PromptOf(length) \in Nat /\ t \in Int /\ length \in Nat
      BY RowSeated DEF Seated, Lengths
    <3> QED
      BY <2>2, <3>1, <3>2
  <2>5. x[t] = full[PromptLength + t - 1]
    BY <2>3 DEF Response
  <2>6. full[Shift(length) + k] = Said(row, k)
    BY <2>4
  <2> QED
    BY <2>2, <2>3, <2>5, <2>6
<1> QED
  BY <1>1 DEF ValuesOf

LEMMA ValuesAnswered ==
    ASSUME NEW batch, NEW N, Batched(batch, N), NEW sp \in Nat \ {0}, NEW b \in 1 .. N,
           NEW x, x = PackedValues(batch, sp) \/ x = PaddedValues(batch)
    PROVE  ValuesOf(x[b], batch[b].row, batch[b].length)
<1>1. PICK full : /\ full = Unpacked(PackedOutput(batch, sp), batch, sp) \/ full = PaddedOutput(batch)
                  /\ x = ResponsePart(full)
  BY DEF PackedValues, PaddedValues
<1>2. Each(full, N) /\ Wide(full[b])
  BY <1>1, UnpackedWide, PaddedWide
<1>3. Each(x, N) /\ Response(x[b], full[b])
  BY <1>1, <1>2, ResponseEach
<1>4. PICK length \in Lengths : length = batch[b].length
  BY DEF Batched
<1>5. PICK row : row = batch[b].row
  OBVIOUS
<1>6. \A k \in 1 .. length : full[b][Shift(length) + k] = Said(row, k)
  BY <1>5, <1>1, <1>4, PackedSays, PaddedSays
<1>7. ValuesOf(x[b], row, length)
  <2>1. PICK y, f : y = x[b] /\ f = full[b]
    OBVIOUS
  <2>2. Response(y, f) /\ \A k \in 1 .. length : f[Shift(length) + k] = Said(row, k)
    BY <1>3, <1>6, <2>1
  <2>3. ValuesOf(y, row, length)
    BY <2>2, ResponseValues
  <2> QED
    BY <2>1, <2>3
<1> QED
  BY <1>5, <1>3, <1>4, <1>7

\* the actor's log-probs,
Predicts(full, row, length) ==
    \A k \in PromptOf(length) .. length - 1 : full[Shift(length) + k] = LogProbOf(row, k + 1)
LEMMA ResponseLogProbs ==
    ASSUME NEW full, NEW row, NEW length \in Lengths, Predicts(full, row, length),
           NEW x, Response(x, full)
    PROVE  LogProbsOf(x, row, length)
<1>1. ASSUME NEW t \in 1 .. length - PromptOf(length)
      PROVE  x[t] = LogProbOf(row, PromptOf(length) + t)
  <2>1. Responding(length, t)
    BY ResponseToken
  <2>2. PICK k : k = PromptOf(length) + t - 1
    OBVIOUS
  <2>3. t \in 1 .. ResponseLength /\ PromptLength + t - 1 = Shift(length) + k
    BY <2>1, <2>2 DEF Responding
  <2>4. k \in PromptOf(length) .. length - 1 /\ k + 1 = PromptOf(length) + t
    <3>1. PromptOf(length) \in Nat /\ length \in Nat
      BY RowSeated DEF Seated, Lengths
    <3> QED
      BY <2>2, <3>1
  <2>5. x[t] = full[PromptLength + t - 1]
    BY <2>3 DEF Response
  <2>6. full[Shift(length) + k] = LogProbOf(row, k + 1)
    BY <2>4 DEF Predicts
  <2> QED
    BY <2>3, <2>4, <2>5, <2>6
<1> QED
  BY <1>1 DEF LogProbsOf

LEMMA PromptSeated ==
    ASSUME NEW length \in Lengths, NEW k \in PromptOf(length) .. length - 1
    PROVE  k \in 1 .. length /\ k + 1 \in 1 .. length /\ k < length /\ k \in PromptOf(length) .. length
<1>1. PICK p \in Nat : p = PromptOf(length) /\ p >= 1
  BY RowSeated DEF Seated
<1>2. length \in Nat
  BY DEF Lengths
<1> QED
  BY <1>1, <1>2

\* of packed rows,
LEMMA PackedAnswered ==
    ASSUME NEW batch, NEW N, Batched(batch, N), NEW sp \in Nat \ {0}, NEW b \in 1 .. N,
           NEW x, x = PackedLogProbs(batch, sp)
    PROVE  LogProbsOf(x[b], batch[b].row, batch[b].length)
<1>1. PICK logits, labels : logits = PackedOutput(batch, sp) /\ labels = PackedLabels(batch, sp)
  OBVIOUS
<1>2. PICK v : LabelledAll(v, logits, labels)
  BY DEF LabelledAll
<1>3. PICK full : full = Unpacked(v, batch, sp)
  OBVIOUS
<1>4. x = ResponsePart(full)
  BY <1>1, <1>2, <1>3 DEF LabelledAll, PackedLogProbs
<1>5. Each(full, N) /\ Wide(full[b])
  BY <1>3, UnpackedWide
<1>6. Each(x, N) /\ Response(x[b], full[b])
  BY <1>4, <1>5, ResponseEach
<1>7. PICK length \in Lengths : length = batch[b].length
  BY DEF Batched
<1>8. PICK row : row = batch[b].row
  OBVIOUS
<1>9. Predicts(full[b], row, length)
  <2>1. ASSUME NEW k \in PromptOf(length) .. length - 1
        PROVE  full[b][Shift(length) + k] = LogProbOf(row, k + 1)
    <3>1. k \in 1 .. length /\ k < length
      BY PromptSeated
    <3>2. k \in 1 .. batch[b].length /\ k < batch[b].length
      BY <1>7, <3>1
    <3>3. Unpacked(v, batch, sp)[b][Shift(batch[b].length) + k] = LogProbOf(batch[b].row, k + 1)
      BY <1>1, <1>2, <3>2, PackedLabelled
    <3> QED
      BY <1>3, <1>7, <1>8, <3>3
  <2> QED
    BY <2>1 DEF Predicts
<1>10. LogProbsOf(x[b], row, length)
  <2>1. PICK y, f : y = x[b] /\ f = full[b]
    OBVIOUS
  <2>2. Response(y, f) /\ Predicts(f, row, length)
    BY <1>6, <1>9, <2>1
  <2>3. LogProbsOf(y, row, length)
    BY <2>2, ResponseLogProbs
  <2> QED
    BY <2>1, <2>3
<1> QED
  BY <1>6, <1>7, <1>8, <1>10

\* of Megatron's, which labels the places whose next may be of the response,
LEMMA MegatronAnswered ==
    ASSUME NEW batch, NEW N, Batched(batch, N), NEW b \in 1 .. N,
           NEW x, x = ResponsePart(MegatronLabelled(batch))
    PROVE  LogProbsOf(x[b], batch[b].row, batch[b].length)
<1>1. DOMAIN batch = 1 .. N
  BY DEF Batched
<1>2. PICK full : full = MegatronLabelled(batch)
  OBVIOUS
<1>3. PICK length \in Lengths : length = batch[b].length
  BY DEF Batched
<1>4. PICK row : row = batch[b].row
  OBVIOUS
<1>5. Each(full, N) /\ Wide(full[b])
  <2>1. full = [c \in 1 .. N |-> full[c]]
    BY <1>1, <1>2 DEF MegatronLabelled
  <2>2. full[b] = [q \in Places |-> full[b][q]]
    BY <1>1, <1>2 DEF MegatronLabelled
  <2> QED
    BY <2>1, <2>2 DEF Each, Wide
<1>6. Each(x, N) /\ Response(x[b], full[b])
  BY <1>2, <1>5, ResponseEach
<1>7. ASSUME NEW k \in PromptOf(length) .. length - 1
      PROVE  full[b][Shift(length) + k] = LogProbOf(row, k + 1)
  <2>1. k \in 1 .. length /\ k + 1 \in 1 .. length
    BY PromptSeated
  <2>2. PICK q \in Places : q = Shift(length) + k
    BY <2>1, TokenPlace
  <2>3. TokenAt(length, q) = k /\ k # 0
    BY <2>1, <2>2, TokenPlaces
  <2>4. PICK p \in Nat : p = PromptOf(length) /\ k >= p /\ k <= length - 1 /\ length \in Nat
    BY RowSeated DEF Seated, Lengths
  <2>5. PICK s \in Nat : s = Shift(length) /\ s = PromptLength - p /\ s + length <= Width
    BY <2>4, RowSeated DEF Seated, Shift
  <2>6. q \in Width - ResponseLength .. Width - 1
    BY <2>2, <2>4, <2>5, Widths
  <2>7. full[b][q] = Append(PaddedOutput(batch)[b][q], Token(batch[b], q + 1))
    BY <1>1, <1>2, <1>3, <2>3, <2>6 DEF MegatronLabelled
  <2>8. PaddedOutput(batch)[b][q] = Said(row, k)
    <3>1. k \in 1 .. batch[b].length
      BY <1>3, <2>1
    <3>2. PaddedOutput(batch)[b][Shift(batch[b].length) + k] = Said(batch[b].row, k)
      BY <3>1, PaddedSays
    <3> QED
      BY <1>3, <1>4, <2>2, <3>2
  <2>9. Token(batch[b], q + 1) = <<row, k + 1>>
    <3>1. q + 1 = Shift(length) + (k + 1)
      BY <2>2, <2>4, <2>5
    <3>2. TokenAt(length, q + 1) = k + 1 /\ k + 1 # 0
      BY <2>1, <2>4, <3>1, TokenPlaces
    <3> QED
      BY <1>3, <1>4, <3>2 DEF Token
  <2>10. LogProbOf(row, k + 1) = <<<<row, 1>>, <<row, k>>, <<row, k + 1>>>>
    BY <2>4 DEF LogProbOf
  <2>11. Append(<<<<row, 1>>, <<row, k>>>>, <<row, k + 1>>) = <<<<row, 1>>, <<row, k>>, <<row, k + 1>>>>
    BY AppendThird
  <2> QED
    BY <2>2, <2>7, <2>8, <2>9, <2>10, <2>11 DEF Said
<1>8. LogProbsOf(x[b], row, length)
  <2>1. PICK y, f : y = x[b] /\ f = full[b]
    OBVIOUS
  <2>2. Response(y, f) /\ Predicts(f, row, length)
    BY <1>6, <1>7, <2>1 DEF Predicts
  <2>3. LogProbsOf(y, row, length)
    BY <2>2, ResponseLogProbs
  <2> QED
    BY <2>1, <2>3
<1> QED
  BY <1>3, <1>4, <1>6, <1>8

\* and of rows with their padding.
LEMMA PaddedAnswered ==
    ASSUME NEW batch, NEW N, Batched(batch, N), NEW b \in 1 .. N,
           NEW x, x = PaddedLogProbs(batch)
    PROVE  LogProbsOf(x[b], batch[b].row, batch[b].length)
<1>1. DOMAIN batch = 1 .. N
  BY DEF Batched
<1>2. PICK full, logits : full = PaddedOutput(batch) /\ logits = ResponsePart(full)
  OBVIOUS
<1>3. PICK length \in Lengths : length = batch[b].length
  BY DEF Batched
<1>4. PICK row : row = batch[b].row
  OBVIOUS
<1>5. Each(full, N) /\ Wide(full[b])
  BY <1>2, PaddedWide
<1>6. Response(logits[b], full[b])
  BY <1>2, <1>5, ResponseEach
<1>7. x[b] = Labelled(logits[b], [t \in 1 .. ResponseLength |-> Token(batch[b], PromptLength + t)])
  BY <1>1, <1>2 DEF PaddedLogProbs
<1>8. DOMAIN logits[b] = 1 .. ResponseLength
  BY <1>6 DEF Response
<1>9. ASSUME NEW t \in 1 .. length - PromptOf(length)
       PROVE  x[b][t] = LogProbOf(row, PromptOf(length) + t)
  <2>1. /\ t \in 1 .. ResponseLength
        /\ PromptOf(length) + t \in 2 .. length
        /\ PromptLength + t - 1 = Shift(length) + (PromptOf(length) + t - 1)
        /\ TokenAt(length, PromptLength + t) = PromptOf(length) + t
    BY ResponseToken DEF Responding
  <2>2. PICK k : k = PromptOf(length) + t - 1
    OBVIOUS
  <2>3. PromptOf(length) \in Nat /\ length \in Nat
    BY RowSeated DEF Seated, Lengths
  <2>4. k \in PromptOf(length) .. length - 1 /\ k + 1 = PromptOf(length) + t /\ k \in Nat /\ k + 1 - 1 = k
    BY <2>2, <2>3
  <2>5. x[b][t] = Append(logits[b][t], Token(batch[b], PromptLength + t))
    BY <1>7, <1>8, <2>1 DEF Labelled
  <2>6. Token(batch[b], PromptLength + t) = <<row, k + 1>>
    <3>1. TokenAt(length, PromptLength + t) = k + 1 /\ k + 1 # 0
      BY <2>1, <2>4
    <3> QED
      BY <1>3, <1>4, <3>1 DEF Token
  <2>7. logits[b][t] = full[b][PromptLength + t - 1]
    BY <1>6, <2>1 DEF Response
  <2>8. full[b][Shift(length) + k] = Said(row, k)
    <3>1. k \in 1 .. batch[b].length
      BY <1>3, <2>4, PromptSeated
    <3>2. PaddedOutput(batch)[b][Shift(batch[b].length) + k] = Said(batch[b].row, k)
      BY <3>1, PaddedSays
    <3> QED
      BY <1>2, <1>3, <1>4, <3>2
  <2>9. Append(<<<<row, 1>>, <<row, k>>>>, <<row, k + 1>>) = <<<<row, 1>>, <<row, k>>, <<row, k + 1>>>>
    BY AppendThird
  <2>10. LogProbOf(row, k + 1) = <<<<row, 1>>, <<row, k>>, <<row, k + 1>>>>
    BY <2>4 DEF LogProbOf
  <2>11. PromptLength + t - 1 = Shift(length) + k
    BY <2>1, <2>2
  <2> QED
    BY <2>4, <2>5, <2>6, <2>7, <2>8, <2>9, <2>10, <2>11 DEF Said
<1> QED
  BY <1>3, <1>4, <1>9 DEF LogProbsOf

\* The reward model's score of a row is of all of it,
LEMMA ScoresAnswered ==
    ASSUME NEW batch, NEW N, Batched(batch, N), NEW sp \in Nat \ {0}, NEW b \in 1 .. N,
           NEW x, x = PackedScores(batch, sp) \/ x = PaddedScores(batch)
    PROVE  x[b] = Said(batch[b].row, batch[b].length)
<1>1. DOMAIN batch = 1 .. N
  BY DEF Batched
<1>2. PICK full : /\ full = Unpacked(PackedOutput(batch, sp), batch, sp) \/ full = PaddedOutput(batch)
                  /\ x = [c \in 1 .. N |-> ScoreOf(batch[c], full[c])]
  BY <1>1 DEF PackedScores, PaddedScores
<1>3. PICK length \in Lengths : length = batch[b].length
  BY DEF Batched
<1>4. length \in 1 .. batch[b].length
  BY <1>3 DEF Lengths
<1>5. full[b][Shift(batch[b].length) + length] = Said(batch[b].row, length)
  BY <1>2, <1>4, PackedSays, PaddedSays
<1>6. LastValid(length) = Shift(length) + length
  BY LastPlace
<1>7. x[b] = full[b][LastValid(length)]
  BY <1>2, <1>3 DEF ScoreOf
<1> QED
  BY <1>2, <1>3, <1>5, <1>6, <1>7 DEF Each

\* and stands at its last token.
LEMMA ScorePlaced ==
    ASSUME NEW length \in Lengths, NEW t \in 1 .. length - PromptOf(length), NEW score
    PROVE  TokenLevel(length, score)[t] = IF PromptOf(length) + t = length THEN score ELSE Zero
<1>1. /\ t \in 1 .. ResponseLength
      /\ PromptLength + t = Shift(length) + (PromptOf(length) + t)
  BY ResponseToken DEF Responding
<1>2. LastValid(length) = Shift(length) + length
  BY LastPlace
<1>3. Shift(length) \in Nat /\ PromptOf(length) \in Nat /\ length \in Nat
  BY RowSeated DEF Seated, Lengths
<1>4. PromptLength + t = LastValid(length) <=> PromptOf(length) + t = length
  BY <1>1, <1>2, <1>3
<1> QED
  BY <1>1, <1>4 DEF TokenLevel

\* Masked values are those of the row's response.
LEMMA ValueMasked ==
    ASSUME NEW length \in Lengths, NEW t \in 1 .. length - PromptOf(length), NEW x
    PROVE  Masked(length, x)[t] = x[t]
<1>1. /\ t \in 1 .. ResponseLength
      /\ PromptOf(length) + t \in 2 .. length
      /\ TokenAt(length, PromptLength + t) = PromptOf(length) + t
  BY ResponseToken DEF Responding
<1>2. TokenAt(length, PromptLength + t) # 0
  BY <1>1 DEF Lengths
<1> QED
  BY <1>1, <1>2 DEF Masked

-----------------------------------------------------------------------------
(* The answers of all micro-batches.                                         *)

\* Two sequences of k pieces, which are of the same lengths, and what they are
\* when they are flattened up to the m-th: what is at a place of one and of the
\* other is of the same place in the pieces.
Alongside(s, t, k, S, T) ==
    /\ k \in Nat \ {0} /\ s \in Seq(Seq(S)) /\ t \in Seq(Seq(T)) /\ Len(s) = k /\ Len(t) = k
    /\ \A m \in 1 .. k : Len(s[m]) = Len(t[m])
At(x, y, s, t, m, p) ==
    \E a \in 1 .. m : \E j \in 1 .. Len(s[a]) : x[p] = s[a][j] /\ y[p] = t[a][j]
Holds(x, v) == \E p \in 1 .. Len(x) : x[p] = v
Together(x, y, s, t, m, S, T) ==
    /\ x \in Seq(S) /\ y \in Seq(T) /\ Len(x) = Len(y)
    /\ \A p \in 1 .. Len(x) : At(x, y, s, t, m, p)
    /\ \A a \in 1 .. m : \A j \in 1 .. Len(s[a]) : Holds(x, s[a][j])
Extended(X, x, a) == X = x \o a

LEMMA JoinTogether ==
    ASSUME NEW s, NEW t, NEW k, NEW S, NEW T, Alongside(s, t, k, S, T), NEW m \in 2 .. k,
           NEW x, NEW y, Together(x, y, s, t, m - 1, S, T),
           NEW X, NEW Y, Extended(X, x, s[m]), Extended(Y, y, t[m])
    PROVE  Together(X, Y, s, t, m, S, T)
<1>1. k \in Nat /\ m \in Nat /\ m - 1 \in Nat
  BY DEF Alongside
<1>2. PICK a, b : a = s[m] /\ b = t[m]
  OBVIOUS
<1>3. PICK n, l \in Nat :
         /\ x \in Seq(S) /\ y \in Seq(T) /\ Len(x) = n /\ Len(y) = n
         /\ a \in Seq(S) /\ b \in Seq(T) /\ Len(a) = l /\ Len(b) = l
  <2>1. m \in 1 .. k
    BY <1>1
  <2>2. a \in Seq(S) /\ b \in Seq(T) /\ Len(a) = Len(b)
    BY <1>2, <2>1 DEF Alongside
  <2>3. x \in Seq(S) /\ y \in Seq(T) /\ Len(x) = Len(y)
    BY DEF Together
  <2> QED
    BY <2>2, <2>3
<1>4. X = x \o a /\ Y = y \o b
  BY <1>2 DEF Extended
<1>5. /\ X \in Seq(S) /\ Len(X) = n + l
      /\ \A p \in 1 .. n + l : X[p] = IF p <= n THEN x[p] ELSE a[p - n]
  <2>1. x \in Seq(S) /\ a \in Seq(S) /\ Len(x) = n /\ Len(a) = l /\ X = x \o a
    BY <1>4, <1>3
  <2> QED
    BY <2>1, ConcatProperties
<1>6. /\ Y \in Seq(T) /\ Len(Y) = n + l
      /\ \A p \in 1 .. n + l : Y[p] = IF p <= n THEN y[p] ELSE b[p - n]
  <2>1. y \in Seq(T) /\ b \in Seq(T) /\ Len(y) = n /\ Len(b) = l /\ Y = y \o b
    BY <1>4, <1>3
  <2> QED
    BY <2>1, ConcatProperties
<1>7. ASSUME NEW p \in 1 .. n + l PROVE At(X, Y, s, t, m, p)
  <2>1. CASE p <= n
    <3>1. p \in 1 .. n /\ X[p] = x[p] /\ Y[p] = y[p]
      BY <1>5, <1>6, <2>1
    <3>2. At(x, y, s, t, m - 1, p)
      BY <1>3, <3>1 DEF Together
    <3>3. PICK c \in 1 .. m - 1 : \E j \in 1 .. Len(s[c]) : x[p] = s[c][j] /\ y[p] = t[c][j]
      BY <3>2 DEF At
    <3>4. PICK j \in 1 .. Len(s[c]) : x[p] = s[c][j] /\ y[p] = t[c][j]
      BY <3>3
    <3>5. c \in 1 .. m
      BY <1>1
    <3> QED
      BY <3>1, <3>4, <3>5 DEF At
  <2>2. CASE p > n
    <3>1. PICK j \in 1 .. l : j = p - n
      BY <1>3, <2>2
    <3>2. X[p] = a[j] /\ Y[p] = b[j]
      BY <1>3, <1>5, <1>6, <2>2, <3>1
    <3>3. m \in 1 .. m /\ j \in 1 .. Len(s[m])
      BY <1>1, <1>2, <1>3
    <3> QED
      BY <1>2, <3>2, <3>3 DEF At
  <2> QED
    BY <1>3, <2>1, <2>2
<1>8. ASSUME NEW c \in 1 .. m, NEW j \in 1 .. Len(s[c]) PROVE Holds(X, s[c][j])
  <2>1. CASE c \in 1 .. m - 1
    <3>1. Holds(x, s[c][j])
      BY <2>1 DEF Together
    <3>2. PICK p \in 1 .. n : x[p] = s[c][j]
      BY <1>3, <3>1 DEF Holds
    <3>3. p \in 1 .. n + l /\ X[p] = x[p]
      BY <1>3, <1>5
    <3> QED
      BY <1>5, <3>2, <3>3 DEF Holds
  <2>2. CASE c = m
    <3>1. j \in 1 .. l
      BY <1>2, <1>3, <2>2
    <3>2. PICK p \in 1 .. n + l : p = n + j
      BY <1>3, <3>1
    <3>3. X[p] = a[j]
      <4>1. ~(p <= n) /\ p - n = j
        BY <1>3, <3>1, <3>2
      <4> QED
        BY <1>5, <4>1
    <3> QED
      BY <1>2, <1>5, <2>2, <3>2, <3>3 DEF Holds
  <2> QED
    BY <1>1, <2>1, <2>2
<1> QED
  BY <1>5, <1>6, <1>7, <1>8 DEF Together

LEMMA FirstTogether ==
    ASSUME NEW s, NEW t, NEW k, NEW S, NEW T, Alongside(s, t, k, S, T)
    PROVE  Together(s[1], t[1], s, t, 1, S, T)
<1>1. 1 \in 1 .. k
  BY DEF Alongside
<1>2. s[1] \in Seq(S) /\ t[1] \in Seq(T) /\ Len(s[1]) = Len(t[1])
  BY <1>1 DEF Alongside
<1>3. ASSUME NEW p \in 1 .. Len(s[1]) PROVE At(s[1], t[1], s, t, 1, p)
  <2>1. 1 \in 1 .. 1
    OBVIOUS
  <2> QED
    BY <2>1 DEF At
<1>4. ASSUME NEW a \in 1 .. 1, NEW j \in 1 .. Len(s[a]) PROVE Holds(s[1], s[a][j])
  <2>1. a = 1
    OBVIOUS
  <2> QED
    BY <2>1 DEF Holds
<1> QED
  BY <1>2, <1>3, <1>4 DEF Together

LEMMA FlattenTogether ==
    ASSUME NEW s, NEW t, NEW k, NEW S, NEW T, Alongside(s, t, k, S, T)
    PROVE  Together(FlattenSeq(s), FlattenSeq(t), s, t, k, S, T)
<1>1. /\ k \in Nat \ {0} /\ s \in Seq(Seq(S)) /\ t \in Seq(Seq(T)) /\ Len(s) = k /\ Len(t) = k
      /\ s # <<>> /\ t # <<>>
  BY DEF Alongside
<1>2. PICK f : FlattenSeq(s) = f[k] /\ \A i \in 1 .. k : f[i] = IF i = 1 THEN s[i] ELSE f[i - 1] \o s[i]
  <2>1. s \in Seq(Seq(S)) /\ Len(s) = k /\ s # <<>>
    BY <1>1
  <2> QED
    BY <2>1, FlattenIsLast
<1>3. PICK g : FlattenSeq(t) = g[k] /\ \A i \in 1 .. k : g[i] = IF i = 1 THEN t[i] ELSE g[i - 1] \o t[i]
  <2>1. t \in Seq(Seq(T)) /\ Len(t) = k /\ t # <<>>
    BY <1>1
  <2> QED
    BY <2>1, FlattenIsLast
<1> DEFINE A == {m \in Nat : m \in 1 .. k /\ ~Together(f[m], g[m], s, t, m, S, T)}
<1>4. ASSUME A # {} PROVE FALSE
  <2>1. PICK m \in A : \A n \in A : m <= n
    <3>1. A \in SUBSET Nat
      OBVIOUS
    <3> HIDE DEF A
    <3> QED
      BY <1>4, <3>1, LeastNumber
  <2>2. m \in Nat /\ m \in 1 .. k /\ ~Together(f[m], g[m], s, t, m, S, T)
    BY <2>1
  <2>3. CASE m = 1
    <3>1. f[1] = s[1] /\ g[1] = t[1]
      BY <1>2, <1>3, <2>2, <2>3
    <3> QED
      BY <2>2, <2>3, <3>1, FirstTogether
  <2>4. CASE m # 1
    <3>1. m - 1 \in Nat /\ m - 1 \in 1 .. k /\ m - 1 < m /\ m \in 2 .. k
      BY <1>1, <2>2, <2>4
    <3>2. m - 1 \notin A
      <4> HIDE DEF A
      <4> QED
        BY <2>1, <2>2, <3>1
    <3>3. Together(f[m - 1], g[m - 1], s, t, m - 1, S, T)
      BY <3>1, <3>2
    <3>4. Extended(f[m], f[m - 1], s[m]) /\ Extended(g[m], g[m - 1], t[m])
      BY <1>2, <1>3, <2>2, <2>4 DEF Extended
    <3> QED
      BY <2>2, <3>1, <3>3, <3>4, JoinTogether
  <2> QED
    BY <2>3, <2>4
<1>5. k \in Nat /\ k \in 1 .. k
  BY <1>1
<1>6. Together(f[k], g[k], s, t, k, S, T)
  BY <1>4, <1>5
<1> QED
  BY <1>2, <1>3, <1>6

\* Micro-batches of a number of rows have them in their order.
Counts(x, a, S) == a \in Nat /\ x \in Seq(S) /\ Len(x) = a /\ \A p \in 1 .. a : x[p] = p
CountsOn(part, a, l, S) ==
    a \in Nat /\ l \in Nat /\ part \in Seq(S) /\ Len(part) = l /\ \A i \in 1 .. l : part[i] = a + i
LEMMA JoinCounts ==
    ASSUME NEW S, NEW a, NEW l, NEW x, NEW part, Counts(x, a, S), CountsOn(part, a, l, S),
           NEW X, Extended(X, x, part)
    PROVE  Counts(X, a + l, S)
<1>1. /\ a \in Nat /\ l \in Nat /\ x \in Seq(S) /\ part \in Seq(S) /\ Len(x) = a /\ Len(part) = l
      /\ X = x \o part
  BY DEF Counts, CountsOn, Extended
<1>2. X \in Seq(S) /\ Len(X) = a + l /\ \A p \in 1 .. a + l : X[p] = IF p <= a THEN x[p] ELSE part[p - a]
  BY <1>1, ConcatProperties
<1>3. ASSUME NEW p \in 1 .. a + l PROVE X[p] = p
  <2>1. CASE p <= a
    <3>1. p \in 1 .. a
      BY <1>1, <2>1
    <3> QED
      BY <1>2, <2>1, <3>1 DEF Counts
  <2>2. CASE ~(p <= a)
    <3>1. PICK i \in 1 .. l : i = p - a
      BY <1>1, <2>2
    <3>2. part[i] = a + i
      BY DEF CountsOn
    <3> QED
      BY <1>1, <1>2, <2>2, <3>1, <3>2
  <2> QED
    BY <2>1, <2>2
<1> QED
  BY <1>1, <1>2, <1>3 DEF Counts

\* The first m of q pieces of so many of n.
Filled(x, m, q, size, n) ==
    /\ Counts(x, Len(x), 1 .. n)
    /\ m < q => Len(x) = m * size
    /\ m = q => Len(x) = n
Fills(part, m, q, size, n) ==
    /\ CountsOn(part, (m - 1) * size, Len(part), 1 .. n)
    /\ m < q => (m - 1) * size + Len(part) = m * size
    /\ m = q => (m - 1) * size + Len(part) = n

LEMMA FillOn ==
    ASSUME NEW n \in Nat \ {0}, NEW q \in Nat \ {0}, NEW size \in Nat \ {0}, NEW m \in 2 .. q,
           NEW x, NEW part, NEW X, Filled(x, m - 1, q, size, n), Fills(part, m, q, size, n),
           Extended(X, x, part)
    PROVE  Filled(X, m, q, size, n)
<1>1. PICK S, a, l : S = 1 .. n /\ a = (m - 1) * size /\ l = Len(part)
  OBVIOUS
<1>2. m - 1 < q
  OBVIOUS
<1>3. Len(x) = a
  BY <1>1, <1>2 DEF Filled
<1>4. Counts(x, a, S) /\ CountsOn(part, a, l, S)
  BY <1>1, <1>3 DEF Filled, Fills
<1>5. Counts(X, a + l, S)
  BY <1>4, JoinCounts
<1>6. Len(X) = a + l
  BY <1>5 DEF Counts
<1> QED
  BY <1>1, <1>5, <1>6 DEF Filled, Fills

LEMMA FillFirst ==
    ASSUME NEW n \in Nat \ {0}, NEW q \in Nat \ {0}, NEW size \in Nat \ {0},
           NEW part, Fills(part, 1, q, size, n)
    PROVE  Filled(part, 1, q, size, n)
<1>1. (1 - 1) * size = 0 /\ 1 * size = size
  OBVIOUS
<1>2. PICK l : l = Len(part)
  OBVIOUS
<1>3. CountsOn(part, 0, l, 1 .. n) /\ (1 < q => 0 + l = size) /\ (1 = q => 0 + l = n)
  BY <1>1, <1>2 DEF Fills
<1>4. l \in Nat /\ part \in Seq(1 .. n) /\ \A i \in 1 .. l : part[i] = 0 + i
  BY <1>2, <1>3 DEF CountsOn
<1>5. Counts(part, l, 1 .. n)
  BY <1>2, <1>4 DEF Counts
<1> QED
  BY <1>1, <1>2, <1>3, <1>4, <1>5 DEF Filled

AllFill(parts, q, size, n) == \A b \in 1 .. q : Fills(parts[b], b, q, size, n)
LEMMA FilledFlat ==
    ASSUME NEW n \in Nat \ {0}, NEW q \in Nat \ {0}, NEW size \in Nat \ {0},
           NEW parts \in Seq(Seq(1 .. n)), Len(parts) = q, AllFill(parts, q, size, n)
    PROVE  Counts(FlattenSeq(parts), n, 1 .. n)
<1>1. parts # <<>>
  OBVIOUS
<1>2. PICK f : FlattenSeq(parts) = f[q] /\ \A i \in 1 .. q : f[i] = IF i = 1 THEN parts[i] ELSE f[i - 1] \o parts[i]
  BY <1>1, FlattenIsLast
<1> DEFINE A == {m \in Nat : m \in 1 .. q /\ ~Filled(f[m], m, q, size, n)}
<1>3. ASSUME A # {} PROVE FALSE
  <2>1. PICK m \in A : \A i \in A : m <= i
    <3>1. A \in SUBSET Nat
      OBVIOUS
    <3> HIDE DEF A
    <3> QED
      BY <1>3, <3>1, LeastNumber
  <2>2. m \in Nat /\ m \in 1 .. q /\ ~Filled(f[m], m, q, size, n)
    BY <2>1
  <2>3. Fills(parts[m], m, q, size, n)
    BY <2>2 DEF AllFill
  <2>4. CASE m = 1
    <3>1. f[1] = parts[1]
      BY <1>2, <2>2, <2>4
    <3> QED
      BY <2>2, <2>3, <2>4, <3>1, FillFirst
  <2>5. CASE m # 1
    <3>1. m - 1 \in Nat /\ m - 1 \in 1 .. q /\ m - 1 < m /\ m \in 2 .. q
      BY <2>2, <2>5
    <3>2. m - 1 \notin A
      <4> HIDE DEF A
      <4> QED
        BY <2>1, <2>2, <3>1
    <3>3. Filled(f[m - 1], m - 1, q, size, n)
      BY <3>1, <3>2
    <3>4. Extended(f[m], f[m - 1], parts[m])
      BY <1>2, <2>2, <2>5 DEF Extended
    <3> QED
      BY <2>2, <2>3, <3>1, <3>3, <3>4, FillOn
  <2> QED
    BY <2>4, <2>5
<1>4. q \in 1 .. q
  OBVIOUS
<1>5. Filled(f[q], q, q, size, n)
  BY <1>3, <1>4
<1> QED
  BY <1>2, <1>5 DEF Filled

LEMMA SplitFlat ==
    ASSUME NEW n \in Nat \ {0}, NEW size \in Nat \ {0},
           NEW parts, parts = Split([i \in 1 .. n |-> i], size)
    PROVE  Counts(FlattenSeq(parts), n, 1 .. n)
<1>1. PICK rows : rows = [i \in 1 .. n |-> i]
  OBVIOUS
<1>2. rows \in Seq(1 .. n) /\ Len(rows) = n /\ rows # <<>> /\ \A i \in 1 .. n : rows[i] = i
  BY <1>1
<1>3. PICK q \in Nat \ {0} : q = CeilDiv(n, size) /\ parts \in Seq(Seq(1 .. n)) /\ Len(parts) = q
  BY SplitPartition
<1>4. ASSUME NEW b \in 1 .. q PROVE Fills(parts[b], b, q, size, n)
  <2>1. PICK S : S = 1 .. n
    OBVIOUS
  <2>2. PICK part : part = parts[b]
    OBVIOUS
  <2>3. rows \in Seq(S) /\ q = CeilDiv(Len(rows), size) /\ part = Split(rows, size)[b]
    BY <1>1, <1>2, <1>3, <2>1, <2>2
  <2>4. part \in Seq(S) /\ PieceOf(part, rows, size, b, q)
    BY <1>2, <2>3, SplitPiece
  <2>5. PICK a \in Nat : a = (b - 1) * size /\ a + size = b * size
    BY <1>3
  <2>6. PICK l \in Nat \ {0} : /\ l = Len(part) /\ a + l <= n
                               /\ \A i \in 1 .. l : part[i] = rows[a + i]
    BY <1>2, <2>4, <2>5 DEF PieceOf, PieceAfter
  <2>7. \A i \in 1 .. l : part[i] = a + i
    <3>1. \A i \in 1 .. l : a + i \in 1 .. n
      BY <2>6
    <3> QED
      BY <1>2, <2>6, <3>1
  <2>8. CountsOn(part, a, l, S)
    BY <2>4, <2>6, <2>7 DEF CountsOn
  <2>9. (b < q => a + l = b * size) /\ (b = q => a + l = n)
    BY <1>2, <2>4, <2>5, <2>6 DEF PieceOf
  <2> QED
    BY <2>1, <2>2, <2>5, <2>6, <2>8, <2>9 DEF Fills
<1> QED
  BY <1>3, <1>4, FilledFlat DEF AllFill

\* Every one of n rows is somewhere in a list of them.
Covers(x, n) == \A i \in 1 .. n : Holds(x, i)
LEMMA CoversLength ==
    ASSUME NEW n \in Nat, NEW x \in Seq(1 .. n), Covers(x, n)
    PROVE  Len(x) \in Nat /\ DOMAIN x = 1 .. Len(x) /\ n <= Len(x)
<1>1. PICK l \in Nat : l = Len(x) /\ DOMAIN x = 1 .. l /\ x \in [1 .. l -> 1 .. n]
  OBVIOUS
<1>2. PICK D, B : D = 1 .. l /\ B = 1 .. n
  OBVIOUS
<1>3. x \in Surjection(D, B)
  BY <1>1, <1>2 DEF Covers, Holds, Surjection
<1>4. IsFiniteSet(D) /\ Cardinality(D) = l /\ Cardinality(B) = n
  <2>1. IsFiniteSet(1 .. l) /\ Cardinality(1 .. l) = IF 1 > l THEN 0 ELSE l - 1 + 1
    BY FS_Interval
  <2>2. Cardinality(1 .. n) = IF 1 > n THEN 0 ELSE n - 1 + 1
    BY FS_Interval
  <2> QED
    BY <1>2, <2>1, <2>2
<1>5. Cardinality(B) <= Cardinality(D)
  BY <1>3, <1>4, FS_Surjection
<1> QED
  BY <1>1, <1>4, <1>5

\* A merge gives a row the answer at the place that it has in the micro-batches.
RowOf(s, t, k, answer, i) ==
    \E m \in 1 .. k : \E j \in 1 .. Len(s[m]) : s[m][j] = i /\ answer = t[m][j]

\* With dynamic micro-batches, by the reverse index;
LEMMA ReversedRow ==
    ASSUME NEW s, NEW t, NEW k, NEW n \in Nat, NEW T, Alongside(s, t, k, 1 .. n, T),
           CutInto(s, n, k), NEW i \in 1 .. n
    PROVE  RowOf(s, t, k, FlattenSeq(t)[ReverseIndex(FlattenSeq(s))[i]], i)
<1>1. PICK x, y, S : x = FlattenSeq(s) /\ y = FlattenSeq(t) /\ S = 1 .. n
  OBVIOUS
<1>2. Together(x, y, s, t, k, S, T)
  BY <1>1, FlattenTogether
<1>3. x \in Seq(1 .. n)
  BY <1>1, <1>2 DEF Together
<1>4. ASSUME NEW v \in 1 .. n PROVE Holds(x, v)
  <2>1. DOMAIN s = 1 .. k /\ Partition(s, n)
    BY DEF Alongside, CutInto
  <2>2. PICK a \in 1 .. k : \E j \in DOMAIN s[a] : s[a][j] = v
    BY <2>1 DEF Partition
  <2>3. PICK j \in DOMAIN s[a] : s[a][j] = v
    BY <2>2
  <2>4. s[a] \in Seq(1 .. n)
    BY DEF Alongside
  <2>5. DOMAIN s[a] = 1 .. Len(s[a])
    BY <2>4
  <2>6. Holds(x, s[a][j])
    BY <1>2, <2>5 DEF Together
  <2> QED
    BY <2>3, <2>6
<1>5. PICK l \in Nat : l = Len(x) /\ DOMAIN x = 1 .. l /\ n <= l
  <2>1. Covers(x, n)
    BY <1>4 DEF Covers
  <2> QED
    BY <1>3, <2>1, CoversLength
<1>6. i \in 1 .. l
  BY <1>5
<1>7. PICK p : p = ReverseIndex(x)[i]
  OBVIOUS
<1>8. p = CHOOSE c \in 1 .. l : x[c] = i
  BY <1>5, <1>6, <1>7 DEF ReverseIndex
<1>9. \E c \in 1 .. l : x[c] = i
  BY <1>4, <1>5 DEF Holds
<1>10. p \in 1 .. l /\ x[p] = i
  BY <1>8, <1>9
<1>11. At(x, y, s, t, k, p)
  BY <1>2, <1>5, <1>10 DEF Together
<1> QED
  BY <1>1, <1>7, <1>10, <1>11 DEF At, RowOf

\* without, as they come.
LEMMA CountedRow ==
    ASSUME NEW s, NEW t, NEW k, NEW n \in Nat \ {0}, NEW T, Alongside(s, t, k, 1 .. n, T),
           Counts(FlattenSeq(s), n, 1 .. n)
    PROVE  /\ DOMAIN FlattenSeq(t) = 1 .. n
           /\ \A i \in 1 .. n : RowOf(s, t, k, FlattenSeq(t)[i], i)
<1>1. PICK x, y, S : x = FlattenSeq(s) /\ y = FlattenSeq(t) /\ S = 1 .. n
  OBVIOUS
<1>2. Together(x, y, s, t, k, S, T)
  BY <1>1, FlattenTogether
<1>3. Len(x) = n /\ \A p \in 1 .. n : x[p] = p
  BY <1>1 DEF Counts
<1>4. y \in Seq(T) /\ Len(y) = n
  BY <1>2, <1>3 DEF Together
<1>5. ASSUME NEW i \in 1 .. n PROVE RowOf(s, t, k, y[i], i)
  <2>1. At(x, y, s, t, k, i)
    BY <1>2, <1>3 DEF Together
  <2> QED
    BY <1>3, <2>1 DEF At, RowOf
<1> QED
  BY <1>1, <1>4, <1>5

\* What is right of the answer for a row: of the actor, the critic, the reward
\* model, and of a model whose answers are cut later.
Right(kind, x, row, length) ==
    CASE kind = "log-probs" -> LogProbsOf(x, row, length)
      [] kind = "values" -> ValuesOf(x, row, length)
      [] kind = "score" -> x = Said(row, length)
      [] kind = "whole" -> Wide(x) /\ \A k \in 1 .. length : x[Shift(length) + k] = Said(row, k)

\* The answers t of a rank's k micro-batches are right, row by row.
Answered(kind, r, t, k) ==
    /\ t = [m \in 1 .. k |-> t[m]]
    /\ \A m \in 1 .. k :
          /\ Each(t[m], Len(micros[r][m]))
          /\ \A b \in 1 .. Len(micros[r][m]) :
                Right(kind, t[m][b], micros[r][m][b], lengths[r][micros[r][m][b]])

\* The micro-batches to infer.
InferCut(r, k) ==
    /\ k \in Nat \ {0}
    /\ CutInto(micros[r], job.rows, k)
    /\ ~job.dynamic => micros[r] = Split([i \in 1 .. job.rows |-> i], job.micro)

LEMMA AnsweredAlongside ==
    ASSUME RowsInv, NEW kind, NEW r \in Ranks, NEW k, InferCut(r, k), NEW t, Answered(kind, r, t, k)
    PROVE  \E T : Alongside(micros[r], t, k, 1 .. job.rows, T)
<1>1. PICK s : s = micros[r]
  OBVIOUS
<1>2. k \in Nat \ {0} /\ s \in Seq(Seq(1 .. job.rows)) /\ Len(s) = k
  BY <1>1 DEF InferCut, CutInto
<1>3. PICK T : T = UNION {Entries(t[m], Len(s[m])) : m \in 1 .. k}
  OBVIOUS
<1>4. ASSUME NEW m \in 1 .. k PROVE t[m] \in Seq(T) /\ Len(t[m]) = Len(s[m])
  <2>1. s[m] \in Seq(1 .. job.rows)
    BY <1>2
  <2>2. PICK N \in Nat : N = Len(s[m])
    BY <2>1
  <2>3. PICK y : y = t[m]
    OBVIOUS
  <2>4. y = [b \in 1 .. N |-> y[b]]
    BY <1>1, <2>2, <2>3 DEF Answered, Each
  <2>5. Listed(y, N)
    BY <2>4, ListedFunction
  <2>6. Entries(y, N) \subseteq T
    BY <1>3, <2>2, <2>3
  <2>7. y \in Seq(Entries(y, N)) /\ Len(y) = N
    BY <2>5 DEF Listed
  <2>8. y \in Seq(T)
    BY <2>6, <2>7
  <2> QED
    BY <2>2, <2>3, <2>7, <2>8
<1>5. t \in Seq(Seq(T)) /\ Len(t) = k
  <2>1. t \in [1 .. k -> Seq(T)]
    BY <1>4 DEF Answered
  <2> QED
    BY <1>2, <2>1
<1>6. Alongside(s, t, k, 1 .. job.rows, T)
  BY <1>2, <1>4, <1>5 DEF Alongside
<1> QED
  BY <1>1, <1>6

\* Whatever the micro-batches, the merge gives each row its own.
LEMMA OrderedRows ==
    ASSUME RowsInv, NEW kind, NEW r \in Ranks, NEW k, InferCut(r, k), NEW t, Answered(kind, r, t, k),
           NEW x, x = InOrder(r, t)
    PROVE  DOMAIN x = Rows /\ \A i \in Rows : Right(kind, x[i], i, lengths[r][i])
<1>1. PICK n \in Nat \ {0} : n = job.rows /\ Rows = 1 .. n
  BY DEF RowsInv, JobType, Rows
<1>2. PICK s : s = micros[r]
  OBVIOUS
<1>3. PICK T : Alongside(s, t, k, 1 .. n, T)
  BY <1>1, <1>2, AnsweredAlongside
<1>4. DOMAIN x = Rows /\ \A i \in 1 .. n : RowOf(s, t, k, x[i], i)
  <2>1. CASE job.dynamic
    <3>1. x = [i \in 1 .. n |-> FlattenSeq(t)[ReverseIndex(FlattenSeq(s))[i]]]
      BY <1>1, <1>2, <2>1 DEF InOrder
    <3>2. ASSUME NEW i \in 1 .. n PROVE RowOf(s, t, k, x[i], i)
      <4>1. CutInto(s, n, k)
        BY <1>1, <1>2 DEF InferCut
      <4>2. RowOf(s, t, k, FlattenSeq(t)[ReverseIndex(FlattenSeq(s))[i]], i)
        BY <1>3, <4>1, ReversedRow
      <4> QED
        BY <3>1, <4>2
    <3> QED
      BY <1>1, <3>1, <3>2
  <2>2. CASE ~job.dynamic
    <3>1. x = FlattenSeq(t)
      BY <2>2 DEF InOrder
    <3>2. PICK size \in Nat \ {0} : size = job.micro
      BY DEF RowsInv, JobType
    <3>3. s = Split([i \in 1 .. n |-> i], size)
      BY <1>1, <1>2, <2>2, <3>2 DEF InferCut
    <3>4. Counts(FlattenSeq(s), n, 1 .. n)
      BY <3>3, SplitFlat
    <3>5. DOMAIN FlattenSeq(t) = 1 .. n /\ \A i \in 1 .. n : RowOf(s, t, k, FlattenSeq(t)[i], i)
      BY <1>3, <3>4, CountedRow
    <3> QED
      BY <1>1, <3>1, <3>5
  <2> QED
    BY <2>1, <2>2
<1>5. ASSUME NEW i \in Rows PROVE Right(kind, x[i], i, lengths[r][i])
  <2>1. RowOf(s, t, k, x[i], i)
    BY <1>1, <1>4
  <2>2. PICK m \in 1 .. k : \E j \in 1 .. Len(s[m]) : s[m][j] = i /\ x[i] = t[m][j]
    BY <2>1 DEF RowOf
  <2>3. PICK j \in 1 .. Len(s[m]) : s[m][j] = i /\ x[i] = t[m][j]
    BY <2>2
  <2>4. Right(kind, t[m][j], s[m][j], lengths[r][s[m][j]])
    BY <1>2 DEF Answered
  <2> QED
    BY <2>3, <2>4
<1> QED
  BY <1>4, <1>5

\* A micro-batch is of the rank's rows.
BatchOf(batch, r, rows, N) ==
    /\ Batched(batch, N) /\ N = Len(rows)
    /\ \A b \in 1 .. N : batch[b].row = rows[b] /\ batch[b].length = lengths[r][rows[b]]
LEMMA RowsBatched ==
    ASSUME RowsInv, NEW r \in Ranks, NEW k, InferCut(r, k), NEW m \in 1 .. k,
           NEW rows, rows = micros[r][m]
    PROVE  \E N : BatchOf(Batch(r, rows), r, rows, N)
<1>1. PICK n \in Nat \ {0} : n = job.rows /\ Rows = 1 .. n
  BY DEF RowsInv, JobType, Rows
<1>2. rows \in Seq(1 .. n)
  BY <1>1 DEF InferCut, CutInto
<1>3. PICK N \in Nat : N = Len(rows) /\ DOMAIN rows = 1 .. N
  BY <1>2
<1>4. PICK batch : batch = Batch(r, rows)
  OBVIOUS
<1>5. batch = [b \in 1 .. N |-> [row |-> rows[b], length |-> lengths[r][rows[b]]]]
  BY <1>3, <1>4 DEF Batch
<1>6. \A b \in 1 .. N : batch[b].row = rows[b] /\ batch[b].length = lengths[r][rows[b]]
  BY <1>5
<1>7. \A b \in 1 .. N : batch[b].length \in Lengths
  <2> TAKE b \in 1 .. N
  <2>1. rows[b] \in Rows
    BY <1>1, <1>2, <1>3
  <2>2. lengths[r][rows[b]] \in LengthSet
    BY <2>1 DEF RowsInv
  <2> QED
    BY <1>6, <2>2, LengthAssumption DEF Lengths
<1>8. DOMAIN batch = 1 .. N /\ Len(batch) = N
  <2>1. batch = [b \in 1 .. N |-> batch[b]]
    BY <1>5
  <2> QED
    BY <2>1, ListedFunction DEF Listed
<1>9. Batched(batch, N)
  BY <1>7, <1>8 DEF Batched
<1> QED
  BY <1>3, <1>4, <1>6, <1>9 DEF BatchOf

-----------------------------------------------------------------------------
(* What the workers infer.                                                   *)

\* A forward answers for each row.
LEMMA ForwardEach ==
    ASSUME NEW batch, NEW N, Batched(batch, N), NEW sp, NEW x,
           \/ x = PackedLogProbs(batch, sp) \/ x = PaddedLogProbs(batch)
           \/ x = PackedValues(batch, sp) \/ x = PaddedValues(batch)
           \/ x = PackedScores(batch, sp) \/ x = PaddedScores(batch)
           \/ x = ResponsePart(MegatronLabelled(batch)) \/ x = PaddedOutput(batch)
    PROVE  Each(x, N)
<1>1. DOMAIN batch = 1 .. N
  BY DEF Batched
<1>2. ASSUME NEW full, Each(full, N), x = ResponsePart(full) PROVE Each(x, N)
  <2>1. DOMAIN full = 1 .. N
    BY <1>2 DEF Each
  <2> QED
    BY <1>2, <2>1 DEF ResponsePart, Each
<1>3. \A v : Each(Unpacked(v, batch, sp), N)
  BY UnpackedWide
<1>4. Each(PaddedOutput(batch), N)
  BY PaddedWide
<1>5. ASSUME x = PackedLogProbs(batch, sp) \/ x = PackedValues(batch, sp) PROVE Each(x, N)
  <2>1. PICK v : x = ResponsePart(Unpacked(v, batch, sp))
    BY <1>5 DEF PackedLogProbs, PackedValues
  <2> QED
    BY <1>2, <1>3, <2>1
<1>6. ASSUME x = PaddedValues(batch) PROVE Each(x, N)
  BY <1>2, <1>4, <1>6 DEF PaddedValues
<1>7. ASSUME x = ResponsePart(MegatronLabelled(batch)) PROVE Each(x, N)
  <2>1. Each(MegatronLabelled(batch), N)
    BY <1>1 DEF MegatronLabelled, Each
  <2> QED
    BY <1>2, <1>7, <2>1
<1>8. ASSUME x = PaddedLogProbs(batch) PROVE Each(x, N)
  BY <1>1, <1>8 DEF PaddedLogProbs, Each
<1>9. ASSUME x = PackedScores(batch, sp) \/ x = PaddedScores(batch) PROVE Each(x, N)
  BY <1>1, <1>9 DEF PackedScores, PaddedScores, Each
<1> QED
  BY <1>4, <1>5, <1>6, <1>7, <1>8, <1>9

\* The forwards of one kind of answer, of a worker's micro-batch.
ForwardOf(kind, x, batch, sp) ==
    CASE kind = "log-probs" -> \/ x = PackedLogProbs(batch, sp) \/ x = PaddedLogProbs(batch)
                               \/ x = ResponsePart(MegatronLabelled(batch))
      [] kind = "values" -> x = PackedValues(batch, sp) \/ x = PaddedValues(batch)
      [] kind = "score" -> x = PackedScores(batch, sp) \/ x = PaddedScores(batch)
      [] kind = "whole" -> x = PaddedOutput(batch)
Kinds == {"log-probs", "values", "score", "whole"}

LEMMA ForwardRight ==
    ASSUME NEW kind \in Kinds, NEW batch, NEW N, Batched(batch, N), NEW sp \in Nat \ {0},
           NEW x, ForwardOf(kind, x, batch, sp)
    PROVE  Each(x, N) /\ \A b \in 1 .. N : Right(kind, x[b], batch[b].row, batch[b].length)
<1>1. Each(x, N)
  BY ForwardEach DEF ForwardOf, Kinds
<1>2. ASSUME NEW b \in 1 .. N PROVE Right(kind, x[b], batch[b].row, batch[b].length)
  <2>1. CASE kind = "log-probs"
    <3>1. LogProbsOf(x[b], batch[b].row, batch[b].length)
      BY <2>1, PackedAnswered, PaddedAnswered, MegatronAnswered DEF ForwardOf
    <3> QED
      BY <2>1, <3>1 DEF Right
  <2>2. CASE kind = "values"
    <3>1. ValuesOf(x[b], batch[b].row, batch[b].length)
      BY <2>2, ValuesAnswered DEF ForwardOf
    <3> QED
      BY <2>2, <3>1 DEF Right
  <2>3. CASE kind = "score"
    <3>1. x[b] = Said(batch[b].row, batch[b].length)
      BY <2>3, ScoresAnswered DEF ForwardOf
    <3> QED
      BY <2>3, <3>1 DEF Right
  <2>4. CASE kind = "whole"
    <3>1. x = PaddedOutput(batch)
      BY <2>4 DEF ForwardOf
    <3>2. Wide(x[b])
      BY <3>1, PaddedWide
    <3>3. ASSUME NEW k \in 1 .. batch[b].length
          PROVE  x[b][Shift(batch[b].length) + k] = Said(batch[b].row, k)
      BY <3>1, PaddedSays
    <3> QED
      BY <2>4, <3>2, <3>3 DEF Right
  <2> QED
    BY <2>1, <2>2, <2>3, <2>4 DEF Kinds
<1> QED
  BY <1>1, <1>2

\* All micro-batches are forwarded.
Forwarded(kind, r, t) ==
    /\ t = [m \in DOMAIN micros[r] |-> t[m]]
    /\ \A m \in DOMAIN micros[r] : ForwardOf(kind, t[m], Batch(r, micros[r][m]), job.sp)

LEMMA ForwardedAnswered ==
    ASSUME RowsInv, NEW kind \in Kinds, NEW r \in Ranks, NEW k, InferCut(r, k),
           NEW t, Forwarded(kind, r, t)
    PROVE  Answered(kind, r, t, k)
<1>1. DOMAIN micros[r] = 1 .. k
  BY DEF InferCut, CutInto
<1>2. PICK sp \in Nat \ {0} : sp = job.sp
  BY DEF RowsInv, JobType
<1>3. ASSUME NEW m \in 1 .. k
      PROVE  /\ Each(t[m], Len(micros[r][m]))
             /\ \A b \in 1 .. Len(micros[r][m]) :
                   Right(kind, t[m][b], micros[r][m][b], lengths[r][micros[r][m][b]])
  <2>1. PICK rows, batch : rows = micros[r][m] /\ batch = Batch(r, rows)
    OBVIOUS
  <2>2. PICK N : BatchOf(batch, r, rows, N)
    BY <2>1, RowsBatched
  <2>3. PICK x : x = t[m]
    OBVIOUS
  <2>4. ForwardOf(kind, x, batch, sp)
    BY <1>1, <1>2, <2>1, <2>3 DEF Forwarded
  <2>5. Batched(batch, N)
    BY <2>2 DEF BatchOf
  <2>6. Each(x, N) /\ \A b \in 1 .. N : Right(kind, x[b], batch[b].row, batch[b].length)
    BY <2>4, <2>5, ForwardRight
  <2> QED
    BY <2>1, <2>2, <2>3, <2>6 DEF BatchOf
<1> QED
  BY <1>1, <1>3 DEF Answered, Forwarded

\* So the merge of them is right.
LEMMA MergeRight ==
    ASSUME RowsInv, NEW kind \in Kinds, NEW r \in Ranks, NEW k, InferCut(r, k),
           NEW t, Forwarded(kind, r, t), NEW x, x = InOrder(r, t)
    PROVE  DOMAIN x = Rows /\ \A i \in Rows : Right(kind, x[i], i, lengths[r][i])
<1>1. Answered(kind, r, t, k)
  BY ForwardedAnswered
<1> QED
  BY <1>1, OrderedRows

AnswersRight(answers) ==
    \A r \in Ranks : \A i \in Rows : \A t \in 1 .. lengths[r][i] - PromptOf(lengths[r][i]) :
        answers[r][i][t] = AnswerOf(r, i, t)
AllCut == \A r \in Ranks : \E k : InferCut(r, k)

LEMMA RowLength ==
    ASSUME RowsInv, NEW r \in Ranks, NEW i \in Rows
    PROVE  lengths[r][i] \in Lengths
<1>1. lengths[r][i] \in LengthSet
  BY DEF RowsInv
<1> QED
  BY <1>1, LengthAssumption DEF Lengths

\* The log-probs of an actor,
LEMMA LogProbsRight ==
    ASSUME RowsInv, AllCut, job.role = "actor", NEW answers, answers = inferred',
           LogProbs \/ MegatronLogProbs
    PROVE  AnswersRight(answers)
<1>1. ASSUME NEW r \in Ranks
      PROVE  \E t : Forwarded("log-probs", r, t) /\ answers[r] = InOrder(r, t)
  <2>1. CASE LogProbs
    <3>1. PICK t : t = [m \in DOMAIN micros[r] |-> ActorForward(Batch(r, micros[r][m]))]
      OBVIOUS
    <3>2. answers[r] = InOrder(r, t)
      BY <2>1, <3>1 DEF LogProbs, InferMerge
    <3>3. ASSUME NEW m \in DOMAIN micros[r]
          PROVE  ForwardOf("log-probs", t[m], Batch(r, micros[r][m]), job.sp)
      BY <3>1 DEF ForwardOf, ActorForward
    <3>4. t = [m \in DOMAIN micros[r] |-> t[m]]
      BY <3>1
    <3> QED
      BY <3>2, <3>3, <3>4 DEF Forwarded
  <2>2. CASE MegatronLogProbs
    <3>1. PICK t : t = [m \in DOMAIN micros[r] |-> ResponsePart(MegatronLabelled(Batch(r, micros[r][m])))]
      OBVIOUS
    <3>2. answers[r] = InOrder(r, t)
      BY <2>2, <3>1 DEF MegatronLogProbs, InferMerge
    <3>3. ASSUME NEW m \in DOMAIN micros[r]
          PROVE  ForwardOf("log-probs", t[m], Batch(r, micros[r][m]), job.sp)
      BY <3>1 DEF ForwardOf
    <3>4. t = [m \in DOMAIN micros[r] |-> t[m]]
      BY <3>1
    <3> QED
      BY <3>2, <3>3, <3>4 DEF Forwarded
  <2> QED
    BY <2>1, <2>2
<1>2. ASSUME NEW r \in Ranks, NEW i \in Rows,
             NEW t \in 1 .. lengths[r][i] - PromptOf(lengths[r][i])
      PROVE  answers[r][i][t] = AnswerOf(r, i, t)
  <2>1. PICK k : InferCut(r, k)
    BY DEF AllCut
  <2>2. PICK u : Forwarded("log-probs", r, u) /\ answers[r] = InOrder(r, u)
    BY <1>1
  <2>3. PICK x : x = answers[r]
    OBVIOUS
  <2>4. "log-probs" \in Kinds
    BY DEF Kinds
  <2>5. \A j \in Rows : Right("log-probs", x[j], j, lengths[r][j])
    BY <2>1, <2>2, <2>3, <2>4, MergeRight
  <2>6. LogProbsOf(x[i], i, lengths[r][i])
    BY <2>5 DEF Right
  <2> QED
    BY <2>3, <2>6 DEF LogProbsOf, LogProbOf, AnswerOf
<1> QED
  BY <1>2 DEF AnswersRight

\* the values of a critic,
LEMMA ValueAnswer ==
    ASSUME job.role = "critic", NEW r, NEW i, NEW t, NEW k, k = PromptOf(lengths[r][i]) + t
    PROVE  AnswerOf(r, i, t) = <<<<i, 1>>, <<i, k - 1>>>>
BY DEF AnswerOf

LEMMA ValuesRight ==
    ASSUME RowsInv, AllCut, job.role = "critic", NEW answers, answers = inferred',
           Values \/ MegatronValuesInOrder
    PROVE  AnswersRight(answers)
<1>1. ASSUME NEW r \in Ranks
      PROVE  \E x : /\ \A i \in Rows : ValuesOf(x[i], i, lengths[r][i])
                    /\ answers[r] = [i \in Rows |-> Masked(lengths[r][i], x[i])]
  <2>0. PICK k : InferCut(r, k)
    BY DEF AllCut
  <2>1. CASE Values
    <3>1. PICK t : t = [m \in DOMAIN micros[r] |-> CriticForward(Batch(r, micros[r][m]))]
      OBVIOUS
    <3>2. ASSUME NEW m \in DOMAIN micros[r]
          PROVE  ForwardOf("values", t[m], Batch(r, micros[r][m]), job.sp)
      BY <3>1 DEF ForwardOf, CriticForward
    <3>3. t = [m \in DOMAIN micros[r] |-> t[m]]
      BY <3>1
    <3>4. Forwarded("values", r, t) /\ "values" \in Kinds
      BY <3>2, <3>3 DEF Forwarded, Kinds
    <3>5. PICK x : x = InOrder(r, t)
      OBVIOUS
    <3>6. \A i \in Rows : Right("values", x[i], i, lengths[r][i])
      BY <2>0, <3>4, <3>5, MergeRight
    <3>7. answers[r] = [i \in Rows |-> Masked(lengths[r][i], x[i])]
      BY <2>1, <3>1, <3>5 DEF Values, InferMerge
    <3> QED
      BY <3>6, <3>7 DEF Right
  <2>2. CASE MegatronValuesInOrder
    <3>1. PICK t : t = [m \in DOMAIN micros[r] |-> PaddedOutput(Batch(r, micros[r][m]))]
      OBVIOUS
    <3>2. ASSUME NEW m \in DOMAIN micros[r]
          PROVE  ForwardOf("whole", t[m], Batch(r, micros[r][m]), job.sp)
      BY <3>1 DEF ForwardOf
    <3>3. t = [m \in DOMAIN micros[r] |-> t[m]]
      BY <3>1
    <3>4. Forwarded("whole", r, t) /\ "whole" \in Kinds
      BY <3>2, <3>3 DEF Forwarded, Kinds
    <3>5. PICK full : full = WholeRows(r) /\ full = InOrder(r, t)
      BY <3>1 DEF WholeRows
    <3>6. DOMAIN full = Rows /\ \A i \in Rows : Right("whole", full[i], i, lengths[r][i])
      BY <2>0, <3>4, <3>5, MergeRight
    <3>7. PICK x : x = ResponsePart(full)
      OBVIOUS
    <3>8. ASSUME NEW i \in Rows PROVE ValuesOf(x[i], i, lengths[r][i])
      <4>1. PICK length \in Lengths : length = lengths[r][i]
        BY RowLength
      <4>2. PICK f, y : f = full[i] /\ y = x[i]
        OBVIOUS
      <4>3. Right("whole", f, i, length)
        BY <3>6, <4>1, <4>2
      <4>4. Wide(f) /\ \A j \in 1 .. length : f[Shift(length) + j] = Said(i, j)
        BY <4>3 DEF Right
      <4>5. Response(y, f)
        <5>1. i \in DOMAIN full /\ Wide(full[i])
          BY <3>6, <4>2, <4>4
        <5>2. Response(ResponsePart(full)[i], full[i])
          BY <5>1, ResponseAt
        <5> QED
          BY <3>7, <4>2, <5>2
      <4>6. ValuesOf(y, i, length)
        BY <4>4, <4>5, ResponseValues
      <4> QED
        BY <4>1, <4>2, <4>6
    <3>9. answers[r] = [i \in Rows |-> Masked(lengths[r][i], x[i])]
      BY <2>2, <3>5, <3>7 DEF MegatronValuesInOrder, InferMerge
    <3> QED
      BY <3>8, <3>9
  <2> QED
    BY <2>1, <2>2
<1>2. ASSUME NEW r \in Ranks, NEW i \in Rows,
             NEW t \in 1 .. lengths[r][i] - PromptOf(lengths[r][i])
      PROVE  answers[r][i][t] = AnswerOf(r, i, t)
  <2>1. PICK x : /\ \A j \in Rows : ValuesOf(x[j], j, lengths[r][j])
                 /\ answers[r] = [j \in Rows |-> Masked(lengths[r][j], x[j])]
    BY <1>1
  <2>2. PICK length \in Lengths : length = lengths[r][i]
    BY RowLength
  <2>3. answers[r][i][t] = Masked(length, x[i])[t]
    BY <2>1, <2>2
  <2>4. Masked(length, x[i])[t] = x[i][t]
    BY <2>2, ValueMasked
  <2>5. x[i][t] = Said(i, PromptOf(length) + t - 1)
    BY <2>1, <2>2 DEF ValuesOf
  <2>6. PICK k : k = PromptOf(lengths[r][i]) + t
    OBVIOUS
  <2>7. AnswerOf(r, i, t) = <<<<i, 1>>, <<i, k - 1>>>>
    BY <2>6, ValueAnswer
  <2>8. x[i][t] = Said(i, k - 1)
    <3>1. PromptOf(length) \in Nat /\ length \in Nat
      BY RowSeated DEF Seated, Lengths
    <3>2. k - 1 = PromptOf(length) + t - 1
      BY <2>2, <2>6, <3>1
    <3> QED
      BY <2>5, <3>2
  <2> QED
    BY <2>3, <2>4, <2>7, <2>8 DEF Said
<1> QED
  BY <1>2 DEF AnswersRight

\* the scores of a reward model.
LEMMA ScoresRight ==
    ASSUME RowsInv, AllCut, job.role = "reward", NEW answers, answers = inferred',
           Scores \/ MegatronScoresInOrder
    PROVE  AnswersRight(answers)
<1>1. ASSUME NEW r \in Ranks
      PROVE  \E x : /\ \A i \in Rows : x[i] = Said(i, lengths[r][i])
                    /\ answers[r] = [i \in Rows |-> TokenLevel(lengths[r][i], x[i])]
  <2>0. PICK k : InferCut(r, k)
    BY DEF AllCut
  <2>1. CASE Scores
    <3>1. PICK t : t = [m \in DOMAIN micros[r] |-> RewardForward(Batch(r, micros[r][m]))]
      OBVIOUS
    <3>2. ASSUME NEW m \in DOMAIN micros[r]
          PROVE  ForwardOf("score", t[m], Batch(r, micros[r][m]), job.sp)
      BY <3>1 DEF ForwardOf, RewardForward
    <3>3. t = [m \in DOMAIN micros[r] |-> t[m]]
      BY <3>1
    <3>4. Forwarded("score", r, t) /\ "score" \in Kinds
      BY <3>2, <3>3 DEF Forwarded, Kinds
    <3>5. PICK x : x = InOrder(r, t)
      OBVIOUS
    <3>6. \A i \in Rows : Right("score", x[i], i, lengths[r][i])
      BY <2>0, <3>4, <3>5, MergeRight
    <3>7. answers[r] = [i \in Rows |-> TokenLevel(lengths[r][i], x[i])]
      BY <2>1, <3>1, <3>5 DEF Scores, InferMerge
    <3> QED
      BY <3>6, <3>7 DEF Right
  <2>2. CASE MegatronScoresInOrder
    <3>1. PICK t : t = [m \in DOMAIN micros[r] |-> PaddedOutput(Batch(r, micros[r][m]))]
      OBVIOUS
    <3>2. ASSUME NEW m \in DOMAIN micros[r]
          PROVE  ForwardOf("whole", t[m], Batch(r, micros[r][m]), job.sp)
      BY <3>1 DEF ForwardOf
    <3>3. t = [m \in DOMAIN micros[r] |-> t[m]]
      BY <3>1
    <3>4. Forwarded("whole", r, t) /\ "whole" \in Kinds
      BY <3>2, <3>3 DEF Forwarded, Kinds
    <3>5. PICK full : full = WholeRows(r) /\ full = InOrder(r, t)
      BY <3>1 DEF WholeRows
    <3>6. \A i \in Rows : Right("whole", full[i], i, lengths[r][i])
      BY <2>0, <3>4, <3>5, MergeRight
    <3>7. PICK x : x = [i \in Rows |-> full[i][LastValid(lengths[r][i])]]
      OBVIOUS
    <3>8. ASSUME NEW i \in Rows PROVE x[i] = Said(i, lengths[r][i])
      <4>1. PICK length \in Lengths : length = lengths[r][i]
        BY RowLength
      <4>2. Right("whole", full[i], i, length)
        BY <3>6, <4>1
      <4>3. \A j \in 1 .. length : full[i][Shift(length) + j] = Said(i, j)
        BY <4>2 DEF Right
      <4>4. LastValid(length) = Shift(length) + length
        BY LastPlace
      <4>5. length \in 1 .. length
        BY DEF Lengths
      <4> QED
        BY <3>7, <4>1, <4>3, <4>4, <4>5
    <3>9. answers[r] = [i \in Rows |-> TokenLevel(lengths[r][i], x[i])]
      BY <2>2, <3>5, <3>7 DEF MegatronScoresInOrder, InferMerge, ScoreOf
    <3> QED
      BY <3>8, <3>9
  <2> QED
    BY <2>1, <2>2
<1>2. ASSUME NEW r \in Ranks, NEW i \in Rows,
             NEW t \in 1 .. lengths[r][i] - PromptOf(lengths[r][i])
      PROVE  answers[r][i][t] = AnswerOf(r, i, t)
  <2>1. PICK x : /\ \A j \in Rows : x[j] = Said(j, lengths[r][j])
                 /\ answers[r] = [j \in Rows |-> TokenLevel(lengths[r][j], x[j])]
    BY <1>1
  <2>2. PICK length \in Lengths : length = lengths[r][i]
    BY RowLength
  <2>3. answers[r][i][t] = TokenLevel(length, x[i])[t]
    BY <2>1, <2>2
  <2>4. PICK score : score = x[i] /\ score = Said(i, length)
    BY <2>1, <2>2
  <2>5. TokenLevel(length, score)[t] = IF PromptOf(length) + t = length THEN score ELSE Zero
    BY <2>2, ScorePlaced
  <2>6. AnswerOf(r, i, t) = IF PromptOf(length) + t = length THEN <<<<i, 1>>, <<i, PromptOf(length) + t>>>> ELSE Zero
    BY <2>2 DEF AnswerOf
  <2> QED
    BY <2>3, <2>4, <2>5, <2>6 DEF Said
<1> QED
  BY <1>2 DEF AnswersRight

-----------------------------------------------------------------------------
(* The answers stay as they were merged.                                     *)

Sized == pc = "merge" /\ ~job.dynamic => micros = BySize(AllRows)
InferInv == PassInv /\ Sized /\ InferredInOrder

\* The kinds of steps: one that starts to infer, one that merges the answers, and
\* one that leaves them alone.
Starts == \E batches : InferIn(batches) /\ (~job.dynamic => batches = BySize(AllRows))
Merges ==
    \/ LogProbs \/ Values \/ Scores
    \/ MegatronLogProbs \/ MegatronValuesInOrder \/ MegatronScoresInOrder
Quiet ==
    /\ UNCHANGED <<job, lengths, inferred>>
    /\ pc' # "merge"
    /\ pc \notin {"infer", "merge", "raised"} \/ pc' = "raised"

LEMMA QuietPass ==
    ASSUME \/ \E batches : StartMiniBatch(batches)
           \/ SplitMiniBatch \/ BeginDiagnostic \/ BeginTraining
           \/ \E factor : Accumulate(factor)
           \/ LastBackward \/ Measure
           \/ \E kept : StepThen(kept)
    PROVE  Quiet
BY DEF StartMiniBatch, SplitMiniBatch, BeginDiagnostic, BeginTraining, StartPass, Accumulate,
       LastBackward, Measure, StepThen, Quiet

LEMMA NextKinds == Next => Starts \/ Merges \/ Quiet
<1> SUFFICES ASSUME Next PROVE Starts \/ Merges \/ Quiet
  OBVIOUS
<1>1. CASE ComputeLogProb
  BY <1>1 DEF ComputeLogProb, ActorMicroBatches, Starts
<1>2. CASE ComputeValues
  BY <1>2 DEF ComputeValues, CriticMicroBatches, Starts
<1>3. CASE ComputeScores
  BY <1>3 DEF ComputeScores, RewardMicroBatches, Starts
<1>4. CASE LogProbs \/ Values \/ Scores
  BY <1>4 DEF Merges
<1>5. CASE SplitMiniBatch \/ BeginDiagnostic \/ BeginTraining \/ LastBackward \/ Measure
  BY <1>5, QuietPass
<1>6. CASE ValueMiniBatch
  BY <1>6, QuietPass DEF ValueMiniBatch
<1>7. CASE DiagnosticBackward \/ TrainingBackward \/ ValueBackward
  BY <1>7, QuietPass DEF DiagnosticBackward, TrainingBackward, ValueBackward
<1>8. ASSUME NEW finite \in BOOLEAN, Step(finite) \/ ValueStep(finite) PROVE Quiet
  <2>1. PICK kept : StepThen(kept)
    BY <1>8 DEF Step, ValueStep
  <2> QED
    BY <2>1, QuietPass
<1> QED
  BY <1>1, <1>2, <1>3, <1>4, <1>5, <1>6, <1>7, <1>8 DEF Next

LEMMA MegatronKinds == MegatronNext => Starts \/ Merges \/ Quiet
<1> SUFFICES ASSUME MegatronNext PROVE Starts \/ Merges \/ Quiet
  OBVIOUS
<1>1. CASE MegatronLogProb \/ MegatronValues \/ MegatronScores
  <2>1. InferAll
    BY <1>1 DEF MegatronLogProb, MegatronValues, MegatronScores
  <2>2. CASE Feasible(AllRows)
    BY <2>1, <2>2 DEF InferAll, MegatronMicroBatches, Starts
  <2>3. CASE ~Feasible(AllRows)
    BY <2>1, <2>3 DEF InferAll, Quiet
  <2> QED
    BY <2>2, <2>3
<1>2. CASE MegatronLogProbs \/ MegatronValuesInOrder \/ MegatronScoresInOrder
  BY <1>2 DEF Merges
<1>3. ASSUME NEW newOrder \in Orders, MegatronMiniBatch(newOrder) PROVE Quiet
  <2> DEFINE rows == Split(newOrder, job.mini)[mini]
  <2>1. CASE Feasible(rows)
    <3>1. StartMiniBatch(MegatronMicroBatches(rows))
      BY <1>3, <2>1 DEF MegatronMiniBatch
    <3> QED
      BY <3>1, QuietPass
  <2>2. CASE ~Feasible(rows)
    BY <1>3, <2>2 DEF MegatronMiniBatch, Quiet
  <2> QED
    BY <2>1, <2>2
<1>4. CASE MegatronPolicyBackward \/ MegatronValueBackward
  <2>1. PICK factor : Accumulate(factor)
    BY <1>4 DEF MegatronPolicyBackward, MegatronValueBackward, MegatronBackward
  <2> QED
    BY <2>1, QuietPass
<1>5. CASE LastBackward
  BY <1>5, QuietPass
<1>6. ASSUME NEW successful \in BOOLEAN,
             MegatronPolicyStep(successful) \/ MegatronValueStep(successful)
      PROVE  Quiet
  <2>1. MegatronStep(successful)
    BY <1>6 DEF MegatronPolicyStep, MegatronValueStep
  <2>2. CASE successful
    <3>1. StepThen(TRUE)
      BY <2>1, <2>2 DEF MegatronStep
    <3> QED
      BY <3>1, QuietPass
  <2>3. CASE ~successful
    BY <2>1, <2>3 DEF MegatronStep, Quiet
  <2> QED
    BY <2>2, <2>3
<1> QED
  BY <1>1, <1>2, <1>3, <1>4, <1>5, <1>6 DEF MegatronNext

LEMMA SupervisedKinds == SupervisedNext => Quiet
<1> SUFFICES ASSUME SupervisedNext PROVE Quiet
  OBVIOUS
<1>1. CASE TrainingStepStart
  BY <1>1, QuietPass DEF TrainingStepStart
<1>2. CASE ExampleBackward
  BY <1>2, QuietPass DEF ExampleBackward
<1>3. CASE LastBackward
  BY <1>3, QuietPass
<1>4. ASSUME NEW finite \in BOOLEAN, TrainingStepEnd(finite) PROVE Quiet
  BY <1>4, QuietPass DEF TrainingStepEnd
<1> QED
  BY <1>1, <1>2, <1>3, <1>4 DEF SupervisedNext

LEMMA AnswersStay ==
    ASSUME job' = job, lengths' = lengths, NEW answers, answers = inferred', AnswersRight(answers)
    PROVE  InferredInOrder'
<1>1. ASSUME NEW r, NEW i, NEW t PROVE AnswerOf(r, i, t)' = AnswerOf(r, i, t)
  BY DEF AnswerOf
<1>2. Rows' = Rows
  BY DEF Rows
<1>3. ASSUME NEW r \in Ranks, NEW i \in Rows,
             NEW t \in 1 .. lengths'[r][i] - PromptOf(lengths'[r][i])
      PROVE  inferred'[r][i][t] = AnswerOf(r, i, t)'
  <2>1. t \in 1 .. lengths[r][i] - PromptOf(lengths[r][i])
    OBVIOUS
  <2>2. answers[r][i][t] = AnswerOf(r, i, t)
    BY <2>1 DEF AnswersRight
  <2> QED
    BY <1>1, <2>2
<1> QED
  BY <1>2, <1>3 DEF InferredInOrder

LEMMA AnswersLeft ==
    ASSUME InferInv, UNCHANGED <<job, lengths, inferred>>,
           job.engine = "sft" \/ pc \notin {"infer", "merge", "raised"}
    PROVE  InferredInOrder'
<1>1. CASE job.engine = "sft"
  BY <1>1 DEF InferredInOrder
<1>2. CASE job.engine # "sft"
  <2>1. PICK answers : answers = inferred /\ answers = inferred'
    OBVIOUS
  <2>2. AnswersRight(answers)
    BY <1>2, <2>1 DEF InferInv, InferredInOrder, AnswersRight
  <2> QED
    BY <2>1, <2>2, AnswersStay
<1> QED
  BY <1>1, <1>2

LEMMA NextInferInv == InferInv /\ [UpdatesNext]_vars => InferInv'
<1> SUFFICES ASSUME InferInv, [UpdatesNext]_vars PROVE InferInv'
  OBVIOUS
<1>1. PassInv'
  BY StepPassInv DEF InferInv
<1>2. CASE UNCHANGED vars
  <2>1. Sized'
    BY <1>2 DEF vars, InferInv, Sized, BySize, AllRows, Rows
  <2>2. InferredInOrder'
    <3>1. CASE job.engine = "sft" \/ pc \notin {"infer", "merge", "raised"}
      BY <1>2, <3>1, AnswersLeft DEF vars
    <3>2. CASE ~(job.engine = "sft" \/ pc \notin {"infer", "merge", "raised"})
      BY <1>2, <3>2 DEF vars, InferredInOrder
    <3> QED
      BY <3>1, <3>2
  <2> QED
    BY <1>1, <2>1, <2>2 DEF InferInv
<1>3. CASE Quiet
  <2>1. Sized'
    BY <1>3 DEF Quiet, Sized
  <2>2. InferredInOrder'
    <3>1. CASE pc \notin {"infer", "merge", "raised"}
      BY <1>3, <3>1, AnswersLeft DEF Quiet
    <3>2. CASE pc' = "raised"
      BY <3>2 DEF InferredInOrder
    <3> QED
      BY <1>3, <3>1, <3>2 DEF Quiet
  <2> QED
    BY <1>1, <2>1, <2>2 DEF InferInv
<1>4. CASE Starts
  <2>1. PICK batches : InferIn(batches) /\ (~job.dynamic => batches = BySize(AllRows))
    BY <1>4 DEF Starts
  <2>2. Sized'
    BY <2>1 DEF InferIn, Sized, BySize, AllRows, Rows
  <2>3. InferredInOrder'
    BY <2>1 DEF InferIn, InferredInOrder
  <2> QED
    BY <1>1, <2>2, <2>3 DEF InferInv
<1>5. CASE Merges
  <2>1. PICK answers : answers = inferred' /\ InferMerge(answers)
    BY <1>5 DEF Merges, LogProbs, Values, Scores, MegatronLogProbs, MegatronValuesInOrder,
                MegatronScoresInOrder, InferMerge
  <2>2. pc = "merge" /\ pc' # "merge" /\ job' = job /\ lengths' = lengths
    BY <2>1 DEF InferMerge
  <2>3. RowsInv
    BY DEF InferInv, PassInv
  <2>4. AllCut
    <3>1. PICK k \in Nat \ {0} : \A r \in Ranks : CutInto(micros[r], job.rows, k)
      BY <2>2 DEF InferInv, PassInv, ReadyInv, Cut, CutAlike
    <3>2. ASSUME NEW r \in Ranks, ~job.dynamic
          PROVE  micros[r] = Split([i \in 1 .. job.rows |-> i], job.micro)
      BY <2>2, <3>2 DEF InferInv, Sized, BySize, AllRows, Rows
    <3> QED
      BY <3>1, <3>2 DEF AllCut, InferCut
  <2>5. AnswersRight(answers)
    <3>1. CASE LogProbs \/ MegatronLogProbs
      <4>1. job.role = "actor"
        BY <3>1 DEF LogProbs, MegatronLogProbs
      <4> QED
        BY <2>1, <2>3, <2>4, <3>1, <4>1, LogProbsRight
    <3>2. CASE Values \/ MegatronValuesInOrder
      <4>1. job.role = "critic"
        BY <3>2 DEF Values, MegatronValuesInOrder
      <4> QED
        BY <2>1, <2>3, <2>4, <3>2, <4>1, ValuesRight
    <3>3. CASE Scores \/ MegatronScoresInOrder
      <4>1. job.role = "reward"
        BY <3>3 DEF Scores, MegatronScoresInOrder
      <4> QED
        BY <2>1, <2>3, <2>4, <3>3, <4>1, ScoresRight
    <3> QED
      BY <1>5, <3>1, <3>2, <3>3 DEF Merges
  <2>6. InferredInOrder'
    BY <2>1, <2>2, <2>5, AnswersStay
  <2>7. Sized'
    BY <2>2 DEF Sized
  <2> QED
    BY <1>1, <2>6, <2>7 DEF InferInv
<1> QED
  BY <1>2, <1>3, <1>4, <1>5, NextKinds, MegatronKinds, SupervisedKinds DEF UpdatesNext

LEMMA InitInferInv == Init => InferInv
<1> SUFFICES ASSUME Init PROVE InferInv
  OBVIOUS
<1>1. PassInv
  BY InitPassInv
<1>2. Sized /\ InferredInOrder
  BY DEF Init, Sized, InferredInOrder
<1> QED
  BY <1>1, <1>2 DEF InferInv

\* What is inferred is of its row and token: for every configuration, number of
\* ranks and length of rows, whatever micro-batches, packed sequences and slices
\* of a group it went through, and whatever is done with it later.
THEOREM AnswersInOrder == Spec => []InferredInOrder
<1>1. InferInv => InferredInOrder
  BY DEF InferInv
<1> QED
  BY <1>1, InitInferInv, NextInferInv, PTL DEF Spec
=============================================================================
