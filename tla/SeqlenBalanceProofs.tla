------------------------ MODULE SeqlenBalanceProofs ------------------------
(***************************************************************************)
(* What get_seqlen_balanced_partitions and rearrange_micro_batches promise *)
(* of any lengths: partitions of all items, balanced to within the longest *)
(* item, and as many micro-batches as the ranks agreed on.                 *)
(*                                                                         *)
(* The argument follows the heap of karmarkar_karp.  Its states share no   *)
(* item and have all of them together, and a merge makes one of two.  The  *)
(* sets of one state differ by no more than the longest item: of a merged  *)
(* state too, as the largest set of one goes with the smallest of the      *)
(* other.  The state that is left has all items.                           *)
(*                                                                         *)
(* Sums over sets, the sort and the pools are functions of the code's own  *)
(* recursion; what holds of every set or number is shown of the least one  *)
(* for which it would not.                                                 *)
(*                                                                         *)
(* The last two parts serve whoever counts rows: pieces of one size laid   *)
(* end to end, and the indices that a loop appends.                        *)
(***************************************************************************)
EXTENDS SeqlenBalance, FiniteSetTheorems, SequenceTheorems, WellFoundedInduction, TLAPS

-----------------------------------------------------------------------------
(* What holds for all finite sets, or all numbers, is proved from the least  *)
(* counterexample.                                                           *)

\* A family of subsets of a finite set has a smallest member.
LEMMA MinimalSet ==
    ASSUME NEW S, IsFiniteSet(S), NEW B, B \subseteq SUBSET S, B # {}
    PROVE  \E s \in B : \A t \in SUBSET s : t # s => t \notin B
<1> DEFINE R == StrictSubsetOrdering(S)
<1>1. B \subseteq FiniteSubsetsOf(S)
  BY FS_Subset DEF FiniteSubsetsOf
<1>2. IsWellFoundedOn(R, FiniteSubsetsOf(S))
  BY FS_StrictSubsetOrderingWellFounded
<1> HIDE DEF R
<1>3. PICK s \in B : \A t \in B : ~(<<t, s>> \in R)
  BY <1>1, <1>2, WFMin
<1>4. \A t \in SUBSET s : t # s => t \notin B
  BY <1>3 DEF R, StrictSubsetOrdering
<1> QED
  BY <1>3, <1>4

\* A set of naturals has a least one.
LEMMA LeastNumber ==
    ASSUME NEW T \in SUBSET Nat, T # {}
    PROVE  \E m \in T : \A n \in T : m <= n
<1>1. PICK b \in T : TRUE
  OBVIOUS
<1> DEFINE B == {1 .. n : n \in {n \in T : n <= b}}
<1>2. PICK U : U = 1 .. b /\ IsFiniteSet(U) /\ b \in Nat
  BY FS_Interval
<1>a. B \in SUBSET (SUBSET U)
  BY <1>2
<1>b. B # {}
  BY <1>2
<1>3. PICK C : C = B
  OBVIOUS
<1>4. PICK s \in B : \A t \in SUBSET s : t # s => t \notin B
  <2> HIDE DEF B
  <2>1. C \subseteq SUBSET U /\ C # {}
    BY <1>a, <1>b, <1>3
  <2>2. \E s \in C : \A t \in SUBSET s : t # s => t \notin C
    BY <1>2, <2>1, MinimalSet, Zenon
  <2> QED
    BY <1>3, <2>2
<1> HIDE DEF B
<1>5. PICK m \in T : m <= b /\ s = 1 .. m
  BY <1>4 DEF B
<1>6. \A n \in T : m <= n
  <2> SUFFICES ASSUME NEW n \in T, n < m PROVE FALSE
    BY <1>5
  <2>1. 1 .. n \in B
    BY <1>5, <1>2 DEF B
  <2>2. 1 .. n \subseteq s /\ m \in s /\ m \notin 1 .. n
    BY <1>5
  <2> QED
    BY <1>4, <2>1, <2>2
<1> QED
  BY <1>5, <1>6

-----------------------------------------------------------------------------
(* Sums: MapThenSumSet is a function on all subsets, defined by removing one *)
(* element; it does not matter which.                                        *)

Sums(f, L, S) ==
    f = [s \in SUBSET S |-> IF s = {} THEN 0
                            ELSE L[CHOOSE x \in s : TRUE] + f[s \ {CHOOSE x \in s : TRUE}]]
Weight(L, S) == (CHOOSE f : Sums(f, L, S))[S]

\* The total of a list is the weight of its items.
LEMMA TotalIsWeight ==
    ASSUME NEW L, NEW items
    PROVE  TotalLength(L, items) = Weight(L, ToSet(items))
BY DEF TotalLength, MapThenSumSet, MapThenFoldSet, Weight, Sums

\* The recursion, at one subset.
LEMMA SumsOne ==
    ASSUME NEW f, NEW L, NEW S, Sums(f, L, S), NEW s \in SUBSET S
    PROVE  f[s] = IF s = {} THEN 0
                  ELSE L[CHOOSE x \in s : TRUE] + f[s \ {CHOOSE x \in s : TRUE}]
BY DEF Sums

\* The function on the subsets of at most n elements.
SumsUpTo(f, L, S, n) ==
    f = [s \in {t \in SUBSET S : Cardinality(t) <= n} |->
            IF s = {} THEN 0
            ELSE L[CHOOSE x \in s : TRUE] + f[s \ {CHOOSE x \in s : TRUE}]]

\* The function that the recursion defines exists on all finite subsets.
LEMMA SumsExist ==
    ASSUME NEW L, NEW S, IsFiniteSet(S)
    PROVE  Sums(CHOOSE f : Sums(f, L, S), L, S)
<1>0. \A s \in SUBSET S : /\ IsFiniteSet(s) /\ Cardinality(s) \in Nat
                          /\ Cardinality(s) <= Cardinality(S)
                          /\ (Cardinality(s) = 0 <=> s = {})
                          /\ \A x \in s : Cardinality(s \ {x}) = Cardinality(s) - 1
  BY FS_Subset, FS_CardinalityType, FS_EmptySet, FS_RemoveElement
<1> DEFINE T == {n \in Nat : ~ \E f : SumsUpTo(f, L, S, n)}
<1>1. T = {}
  <2> SUFFICES ASSUME T # {} PROVE FALSE
    OBVIOUS
  <2>1. PICK m \in T : \A n \in T : m <= n
    BY LeastNumber
  <2>2. m \in Nat /\ ~ \E f : SumsUpTo(f, L, S, m)
    BY <2>1
  <2>3. CASE m = 0
    <3> DEFINE f == [s \in {t \in SUBSET S : Cardinality(t) <= m} |-> 0]
    <3>1. f = [s \in {t \in SUBSET S : Cardinality(t) <= m} |->
                IF s = {} THEN 0
                ELSE L[CHOOSE x \in s : TRUE] + f[s \ {CHOOSE x \in s : TRUE}]]
      <4>1. \A s \in {t \in SUBSET S : Cardinality(t) <= m} : s = {}
        BY <1>0, <2>3
      <4> QED
        BY <4>1
    <3> QED
      BY <2>2, <3>1 DEF SumsUpTo
  <2>4. CASE m # 0
    <3>1. m - 1 \in Nat /\ m - 1 < m
      BY <2>2, <2>4
    <3>2. m - 1 \notin T
      <4> HIDE DEF T
      <4> QED
        BY <2>1, <2>2, <3>1
    <3>3. PICK f : SumsUpTo(f, L, S, m - 1)
      BY <3>1, <3>2
    <3>g. PICK g : g = [s \in {t \in SUBSET S : Cardinality(t) <= m} |->
                        IF s = {} THEN 0
                        ELSE L[CHOOSE x \in s : TRUE] + f[s \ {CHOOSE x \in s : TRUE}]]
      OBVIOUS
    <3>4. \A s \in {t \in SUBSET S : Cardinality(t) <= m - 1} : g[s] = f[s]
      <4> TAKE s \in {t \in SUBSET S : Cardinality(t) <= m - 1}
      <4>1. s \in {t \in SUBSET S : Cardinality(t) <= m}
        BY <1>0, <3>1
      <4> QED
        BY <3>3, <3>g, <4>1 DEF SumsUpTo
    <3>5. \A s \in {t \in SUBSET S : Cardinality(t) <= m} : s # {} =>
            g[s \ {CHOOSE x \in s : TRUE}] = f[s \ {CHOOSE x \in s : TRUE}]
      <4> TAKE s \in {t \in SUBSET S : Cardinality(t) <= m}
      <4> HAVE s # {}
      <4>1. PICK x \in s : x = CHOOSE y \in s : TRUE
        OBVIOUS
      <4>2. s \ {x} \in {t \in SUBSET S : Cardinality(t) <= m - 1}
        BY <1>0, <3>1
      <4> QED
        BY <3>4, <4>1, <4>2
    <3>6. g = [s \in {t \in SUBSET S : Cardinality(t) <= m} |->
                IF s = {} THEN 0
                ELSE L[CHOOSE x \in s : TRUE] + g[s \ {CHOOSE x \in s : TRUE}]]
      <4>1. \A s \in {t \in SUBSET S : Cardinality(t) <= m} :
                (IF s = {} THEN 0
                 ELSE L[CHOOSE x \in s : TRUE] + f[s \ {CHOOSE x \in s : TRUE}])
              = (IF s = {} THEN 0
                 ELSE L[CHOOSE x \in s : TRUE] + g[s \ {CHOOSE x \in s : TRUE}])
        <5> TAKE s \in {t \in SUBSET S : Cardinality(t) <= m}
        <5>1. CASE s = {}
          BY <5>1
        <5>2. CASE s # {}
          <6>1. g[s \ {CHOOSE x \in s : TRUE}] = f[s \ {CHOOSE x \in s : TRUE}]
            BY <3>5, <5>2
          <6> QED
            BY <5>2, <6>1
        <5> QED
          BY <5>1, <5>2
      <4> QED
        BY <3>g, <4>1
    <3> QED
      BY <2>2, <3>6 DEF SumsUpTo
  <2> QED
    BY <2>3, <2>4
<1>2. Cardinality(S) \in Nat
  BY FS_CardinalityType
<1>3. PICK f : SumsUpTo(f, L, S, Cardinality(S))
  BY <1>1, <1>2
<1>4. {t \in SUBSET S : Cardinality(t) <= Cardinality(S)} = SUBSET S
  BY <1>0
<1>5. Sums(f, L, S)
  BY <1>3, <1>4 DEF Sums, SumsUpTo
<1> QED
  BY <1>5

\* Two such functions agree where both are defined, and on natural lengths their
\* values are natural.
LEMMA SumsUnique ==
    ASSUME NEW S, IsFiniteSet(S), NEW L \in [S -> Nat], NEW f, Sums(f, L, S),
           NEW T \in SUBSET S, NEW g, Sums(g, L, T)
    PROVE  \A s \in SUBSET T : f[s] = g[s] /\ f[s] \in Nat
<1> DEFINE B == {s \in SUBSET T : ~(f[s] = g[s] /\ f[s] \in Nat)}
<1>1. CASE B = {}
  BY <1>1
<1>2. CASE B # {}
  <2>1. B \subseteq SUBSET S
    OBVIOUS
  <2>2. PICK s \in B : \A t \in SUBSET s : t # s => t \notin B
    <3> HIDE DEF B
    <3> QED
      BY <1>2, <2>1, MinimalSet
  <2>3. s \in SUBSET T /\ s \in SUBSET S /\ ~(f[s] = g[s] /\ f[s] \in Nat)
    BY <2>2
  <2>4. CASE s = {}
    BY <2>3, <2>4, SumsOne
  <2>5. CASE s # {}
    <3>1. PICK x \in s : x = CHOOSE y \in s : TRUE
      BY <2>5
    <3>2. f[s] = L[x] + f[s \ {x}] /\ g[s] = L[x] + g[s \ {x}]
      BY <2>3, <2>5, <3>1, SumsOne
    <3>3. s \ {x} \in SUBSET s /\ s \ {x} # s /\ s \ {x} \in SUBSET T
      BY <2>3, <3>1
    <3>4. f[s \ {x}] = g[s \ {x}] /\ f[s \ {x}] \in Nat
      BY <2>2, <3>3
    <3>5. L[x] \in Nat
      BY <2>3
    <3> QED
      BY <2>3, <3>2, <3>4, <3>5
  <2> QED
    BY <2>4, <2>5
<1> QED
  BY <1>1, <1>2

\* One function serves all subsets.
LEMMA WeightOfSubset ==
    ASSUME NEW S, IsFiniteSet(S), NEW L \in [S -> Nat]
    PROVE  \E f : /\ Sums(f, L, S)
                  /\ \A s \in SUBSET S : Weight(L, s) = f[s] /\ f[s] \in Nat
<1>1. PICK f : Sums(f, L, S)
  BY SumsExist
<1>2. ASSUME NEW s \in SUBSET S PROVE Weight(L, s) = f[s] /\ f[s] \in Nat
  <2>1. PICK g : g = CHOOSE h : Sums(h, L, s)
    OBVIOUS
  <2>2. IsFiniteSet(s)
    BY FS_Subset
  <2>3. Sums(g, L, s)
    BY <2>1, <2>2, SumsExist
  <2>4. f[s] = g[s] /\ f[s] \in Nat
    BY <1>1, <2>3, SumsUnique
  <2> QED
    BY <2>1, <2>4 DEF Weight
<1> QED
  BY <1>1, <1>2

\* Weights of natural lengths are natural.
LEMMA WeightType ==
    ASSUME NEW S, IsFiniteSet(S), NEW L \in [S -> Nat], NEW s \in SUBSET S
    PROVE  Weight(L, s) \in Nat /\ Weight(L, {}) = 0
<1>1. PICK f : Sums(f, L, S) /\ \A t \in SUBSET S : Weight(L, t) = f[t] /\ f[t] \in Nat
  BY WeightOfSubset
<1>2. f[{}] = 0
  BY <1>1, SumsOne
<1> QED
  BY <1>1, <1>2

\* Any element may be taken out first.
LEMMA WeightRemove ==
    ASSUME NEW S, IsFiniteSet(S), NEW L \in [S -> Nat], NEW s \in SUBSET S, NEW x \in s
    PROVE  Weight(L, s) = L[x] + Weight(L, s \ {x})
<1>1. PICK f : Sums(f, L, S) /\ \A t \in SUBSET S : Weight(L, t) = f[t] /\ f[t] \in Nat
  BY WeightOfSubset
<1> DEFINE B == {t \in SUBSET S : \E y \in t : f[t] # L[y] + f[t \ {y}]}
<1>2. ASSUME B # {} PROVE FALSE
  <2>1. B \subseteq SUBSET S
    OBVIOUS
  <2>2. PICK t \in B : \A u \in SUBSET t : u # t => u \notin B
    <3> HIDE DEF B
    <3> QED
      BY <1>2, <2>1, MinimalSet
  <2>3. PICK y \in t : f[t] # L[y] + f[t \ {y}]
    BY <2>2
  <2>4. t \in SUBSET S /\ t # {}
    BY <2>2, <2>3
  <2>5. PICK c \in t : c = CHOOSE z \in t : TRUE
    BY <2>4
  <2>6. f[t] = L[c] + f[t \ {c}]
    BY <1>1, <2>4, <2>5, SumsOne
  <2>7. c # y
    BY <2>3, <2>6
  <2>8. /\ t \ {c} \in SUBSET t /\ t \ {c} # t /\ y \in t \ {c}
        /\ t \ {y} \in SUBSET t /\ t \ {y} # t /\ c \in t \ {y}
        /\ t \ {c} \in SUBSET S /\ t \ {y} \in SUBSET S
    BY <2>3, <2>4, <2>5, <2>7
  <2>9. f[t \ {c}] = L[y] + f[(t \ {c}) \ {y}] /\ f[t \ {y}] = L[c] + f[(t \ {y}) \ {c}]
    BY <2>2, <2>8
  <2>10. (t \ {c}) \ {y} = (t \ {y}) \ {c} /\ (t \ {y}) \ {c} \in SUBSET S
    BY <2>8
  <2>11. L[c] \in Nat /\ L[y] \in Nat /\ f[(t \ {y}) \ {c}] \in Nat
    BY <1>1, <2>4, <2>10
  <2>12. PICK a, b, d \in Nat : a = L[c] /\ b = L[y] /\ d = f[(t \ {y}) \ {c}]
    BY <2>11
  <2>13. f[t] = a + (b + d) /\ L[y] + f[t \ {y}] = b + (a + d)
    BY <2>6, <2>9, <2>10, <2>12
  <2> QED
    BY <2>3, <2>12, <2>13
<1>3. f[s] = L[x] + f[s \ {x}]
  BY <1>2
<1>4. s \ {x} \in SUBSET S
  OBVIOUS
<1> QED
  BY <1>1, <1>3, <1>4

\* The weights of what shares nothing add up.
LEMMA WeightUnion ==
    ASSUME NEW S, IsFiniteSet(S), NEW L \in [S -> Nat],
           NEW s \in SUBSET S, NEW t \in SUBSET S, s \cap t = {}
    PROVE  Weight(L, s \cup t) = Weight(L, s) + Weight(L, t)
<1> DEFINE B == {u \in SUBSET t : Weight(L, s \cup u) # Weight(L, s) + Weight(L, u)}
<1>1. CASE B = {}
  BY <1>1
<1>2. CASE B # {}
  <2>1. B \subseteq SUBSET S
    OBVIOUS
  <2>2. PICK u \in B : \A v \in SUBSET u : v # u => v \notin B
    <3> HIDE DEF B
    <3> QED
      BY <1>2, <2>1, MinimalSet
  <2>3. u \in SUBSET t /\ Weight(L, s \cup u) # Weight(L, s) + Weight(L, u)
    BY <2>2
  <2>4. Weight(L, s) \in Nat /\ Weight(L, {}) = 0
    BY WeightType
  <2>5. u # {}
    <3> SUFFICES ASSUME u = {} PROVE FALSE
      OBVIOUS
    <3>1. s \cup u = s
      OBVIOUS
    <3> QED
      BY <2>3, <2>4, <3>1
  <2>6. PICK x \in u : TRUE
    BY <2>5
  <2>7. PICK v : v = u \ {x}
    OBVIOUS
  <2>8. v \in SUBSET u /\ v # u /\ v \in SUBSET t /\ v \in SUBSET S
    BY <2>7, <2>3, <2>6
  <2>9. Weight(L, s \cup v) = Weight(L, s) + Weight(L, v)
    BY <2>2, <2>8
  <2>w. PICK w : w = s \cup u
    OBVIOUS
  <2>10. w \in SUBSET S /\ x \in w /\ w \ {x} = s \cup v /\ u \in SUBSET S
    BY <2>7, <2>w, <2>3, <2>6
  <2>11. Weight(L, w) = L[x] + Weight(L, s \cup v) /\ Weight(L, u) = L[x] + Weight(L, v)
    BY <2>7, <2>6, <2>10, WeightRemove
  <2>12. L[x] \in Nat /\ Weight(L, v) \in Nat
    BY <2>6, <2>8, <2>10, WeightType
  <2> QED
    BY <2>w, <2>3, <2>4, <2>9, <2>11, <2>12
<1> QED
  BY <1>1, <1>2

-----------------------------------------------------------------------------
(* Sets of items, as sequences of their indices, and their order.            *)

Positions(L) == 1 .. Len(L)

\* What a list of indices is, and its total.
LEMMA TotalType ==
    ASSUME NEW L \in Seq(Nat), NEW a \in Seq(Positions(L))
    PROVE  /\ IsFiniteSet(Positions(L)) /\ L \in [Positions(L) -> Nat]
           /\ ToSet(a) \in SUBSET Positions(L)
           /\ TotalLength(L, a) \in Nat
           /\ TotalLength(L, a) = Weight(L, ToSet(a))
<1>1. Len(L) \in Nat /\ L \in [1 .. Len(L) -> Nat]
  OBVIOUS
<1>2. IsFiniteSet(Positions(L)) /\ L \in [Positions(L) -> Nat]
  BY <1>1, FS_Interval DEF Positions
<1>3. \A i \in DOMAIN a : a[i] \in Positions(L)
  OBVIOUS
<1>4. ToSet(a) \in SUBSET Positions(L)
  BY <1>3 DEF ToSet
<1> QED
  BY <1>2, <1>4, TotalIsWeight, WeightType

\* Larger is a strict order, total between sets that share no item unless both
\* are empty.
LEMMA LargerOrder ==
    ASSUME NEW L \in Seq(Nat), NEW a \in Seq(Positions(L)), NEW b \in Seq(Positions(L)),
           NEW c \in Seq(Positions(L))
    PROVE  /\ ~Larger(L, a, a)
           /\ Larger(L, a, b) => ~Larger(L, b, a) /\ TotalLength(L, a) >= TotalLength(L, b)
           /\ Larger(L, a, b) /\ Larger(L, b, c) => Larger(L, a, c)
           /\ Larger(L, a, b) => a # <<>>
           /\ Larger(L, a, b) \/ Larger(L, b, a) \/ a = b \/ (a # <<>> /\ b # <<>> /\ a[1] = b[1])
<1>1. PICK ta, tb, tc \in Nat :
        ta = TotalLength(L, a) /\ tb = TotalLength(L, b) /\ tc = TotalLength(L, c)
  BY TotalType
<1>2. PICK la, lb, lc \in Nat : la = Len(a) /\ lb = Len(b) /\ lc = Len(c)
  BY LenProperties
<1>3. \A s \in Seq(Positions(L)) : s # <<>> => s[1] \in Int /\ Len(s) > 0
  BY DEF Positions
<1>4. (a # <<>> <=> la > 0) /\ (b # <<>> <=> lb > 0) /\ (c # <<>> <=> lc > 0)
  BY <1>2, EmptySeq
<1>5. /\ Larger(L, a, b) <=> \/ ta > tb
                             \/ ta = tb /\ la > lb
                             \/ ta = tb /\ la = lb /\ la > 0 /\ a[1] > b[1]
      /\ Larger(L, b, a) <=> \/ tb > ta
                             \/ tb = ta /\ lb > la
                             \/ tb = ta /\ lb = la /\ lb > 0 /\ b[1] > a[1]
      /\ Larger(L, b, c) <=> \/ tb > tc
                             \/ tb = tc /\ lb > lc
                             \/ tb = tc /\ lb = lc /\ lb > 0 /\ b[1] > c[1]
      /\ Larger(L, a, c) <=> \/ ta > tc
                             \/ ta = tc /\ la > lc
                             \/ ta = tc /\ la = lc /\ la > 0 /\ a[1] > c[1]
      /\ Larger(L, a, a) <=> \/ ta > ta
                             \/ la > la
                             \/ la > 0 /\ a[1] > a[1]
  BY <1>1, <1>2, <1>4 DEF Larger
<1>6. /\ la > 0 => a[1] \in Int
      /\ lb > 0 => b[1] \in Int
      /\ lc > 0 => c[1] \in Int
  BY <1>3, <1>4
<1>7. ~Larger(L, a, a)
  BY <1>5, <1>6
<1>8. Larger(L, a, b) => ~Larger(L, b, a) /\ ta >= tb
  BY <1>5, <1>6
<1>9. Larger(L, a, b) /\ Larger(L, b, c) => Larger(L, a, c)
  BY <1>5, <1>6
<1>10. a = <<>> => ta = 0
  <2> SUFFICES ASSUME a = <<>> PROVE ta = 0
    OBVIOUS
  <2>1. ToSet(a) = {}
    BY DEF ToSet
  <2>2. TotalLength(L, a) = Weight(L, {})
    BY <2>1, TotalType
  <2>3. PICK E \in SUBSET Positions(L) : TRUE
    OBVIOUS
  <2>4. Weight(L, {}) = 0
    BY <2>3, TotalType, WeightType
  <2> QED
    BY <1>1, <2>2, <2>4
<1>11. Larger(L, a, b) => a # <<>>
  BY <1>4, <1>5, <1>10
<1>12. Larger(L, a, b) \/ Larger(L, b, a) \/ a = b \/ (a # <<>> /\ b # <<>> /\ a[1] = b[1])
  <2>1. CASE ta = tb /\ la = lb /\ la > 0
    BY <1>4, <1>5, <1>6, <2>1
  <2>2. CASE ta = tb /\ la = lb /\ la = 0
    BY <1>4, <2>2
  <2>3. CASE ~(ta = tb /\ la = lb)
    BY <1>5, <2>3
  <2> QED
    BY <2>1, <2>2, <2>3
<1> QED
  BY <1>1, <1>7, <1>8, <1>9, <1>11, <1>12

-----------------------------------------------------------------------------
(* Arranging by a strict total order of the places.                          *)

Ordering(before, n) ==
    /\ before \in [1 .. n -> SUBSET (1 .. n)]
    /\ \A i \in 1 .. n : i \notin before[i]
    /\ \A i, j \in 1 .. n : i = j \/ i \in before[j] \/ j \in before[i]
    /\ \A i, j, k \in 1 .. n : i \in before[j] /\ j \in before[k] => i \in before[k]

\* p is the order of the places.
Arranges(p, before, n) ==
    /\ p \in [1 .. n -> 1 .. n]
    /\ \A x, y \in 1 .. n : p[x] = p[y] => x = y
    /\ \A i \in 1 .. n : \E x \in 1 .. n : p[x] = i
    /\ \A x, y \in 1 .. n : x < y => p[x] \in before[p[y]]

Reorders(st, items, before, n) ==
    /\ Len(st) = n /\ DOMAIN st = 1 .. n
    /\ \E p : Arranges(p, before, n) /\ \A x \in 1 .. n : st[x] = items[p[x]]

\* The number of the first numbers.
LEMMA FirstNumbers ==
    ASSUME NEW n \in Nat, NEW N, N = 1 .. n
    PROVE  IsFiniteSet(N) /\ Cardinality(N) = n
<1>1. PICK one \in Int : one = 1
  OBVIOUS
<1>2. IsFiniteSet(one .. n) /\ Cardinality(one .. n) = IF one > n THEN 0 ELSE n - one + 1
  BY FS_Interval
<1> QED
  BY <1>1, <1>2

\* sorted puts all items in the order that the places before them tell.
LEMMA ArrangedOrder ==
    ASSUME NEW X, NEW items \in Seq(X), NEW n, n = Len(items), NEW before, Ordering(before, n),
           NEW st, st = Arranged(items, before)
    PROVE  st \in Seq(X) /\ Reorders(st, items, before, n)
<1> DEFINE p == [x \in 1 .. n |-> CHOOSE i \in 1 .. n : Cardinality(before[i]) = x - 1]
           rank == [i \in 1 .. n |-> Cardinality(before[i]) + 1]
<1>1. n \in Nat /\ DOMAIN items = 1 .. n /\ \A i \in 1 .. n : items[i] \in X
  OBVIOUS
<1>N. PICK N : N = 1 .. n
  OBVIOUS
<1>2. N = 1 .. n /\ IsFiniteSet(N) /\ Cardinality(N) = n
  BY <1>N, <1>1, FirstNumbers
<1>3. \A i \in N : /\ before[i] \subseteq N /\ i \notin before[i]
                   /\ IsFiniteSet(before[i]) /\ Cardinality(before[i]) \in Nat
                   /\ Cardinality(before[i]) < n
  <2> TAKE i \in N
  <2>1. before[i] \in SUBSET N /\ i \notin before[i]
    BY <1>2 DEF Ordering
  <2>2. PICK s, r : s = before[i] /\ r = N \ {i}
    OBVIOUS
  <2>a. IsFiniteSet(r) /\ Cardinality(r) = n - 1
    BY <1>2, <2>2, FS_RemoveElement
  <2>3. s \in SUBSET r /\ IsFiniteSet(r) /\ Cardinality(r) = n - 1
    BY <2>1, <2>2, <2>a
  <2>4. IsFiniteSet(s) /\ Cardinality(s) <= n - 1 /\ Cardinality(s) \in Nat
    BY <2>3, FS_Subset, FS_CardinalityType
  <2> QED
    BY <1>1, <2>1, <2>2, <2>4
<1>4. \A i, j \in N : i \in before[j] => Cardinality(before[i]) < Cardinality(before[j])
  <2> SUFFICES ASSUME NEW i \in N, NEW j \in N, i \in before[j]
               PROVE  Cardinality(before[i]) < Cardinality(before[j])
    OBVIOUS
  <2>1. PICK s, t : s = before[i] /\ t = before[j]
    OBVIOUS
  <2>2. s \in SUBSET t /\ s # t
    BY <1>2, <1>3, <2>1 DEF Ordering
  <2>3. IsFiniteSet(t) /\ Cardinality(t) \in Nat /\ Cardinality(s) \in Nat
    BY <1>3, <2>1
  <2>4. Cardinality(s) <= Cardinality(t) /\ Cardinality(s) # Cardinality(t)
    BY <2>2, <2>3, FS_Subset
  <2> QED
    BY <2>1, <2>3, <2>4
<1>5. rank \in [N -> N] /\ \A i, j \in N : rank[i] = rank[j] => i = j
  <2>1. \A i \in N : Cardinality(before[i]) + 1 \in N
    BY <1>1, <1>2, <1>3
  <2>2. \A i, j \in N : Cardinality(before[i]) = Cardinality(before[j]) => i = j
    <3> SUFFICES ASSUME NEW i \in N, NEW j \in N, i # j
                 PROVE  Cardinality(before[i]) # Cardinality(before[j])
      OBVIOUS
    <3>1. i \in before[j] \/ j \in before[i]
      BY <1>2 DEF Ordering
    <3> QED
      BY <1>3, <1>4, <3>1
  <2>3. rank \in [N -> N] /\ \A i \in N : rank[i] = Cardinality(before[i]) + 1
    BY <1>2, <2>1
  <2>4. ASSUME NEW i \in N, NEW j \in N, rank[i] = rank[j] PROVE i = j
    <3>1. PICK a, b \in Nat : a = Cardinality(before[i]) /\ b = Cardinality(before[j])
      BY <1>3
    <3>2. a + 1 = b + 1
      BY <2>3, <2>4, <3>1
    <3> QED
      BY <2>2, <3>1, <3>2
  <2> QED
    BY <2>3, <2>4
<1>6. \A x \in N : \E i \in N : rank[i] = x
  <2> HIDE DEF rank
  <2>1. PICK r : r = rank
    OBVIOUS
  <2>2. r \in Injection(N, N)
    BY <1>5, <2>1 DEF Injection, IsInjective
  <2>3. r \in Surjection(N, N)
    BY <1>2, <2>2, FS_Injection
  <2> QED
    BY <2>1, <2>3 DEF Surjection
<1>7. \A x \in N : \E i \in 1 .. n : Cardinality(before[i]) = x - 1
  <2> TAKE x \in N
  <2>1. PICK i \in N : rank[i] = x
    BY <1>6
  <2>2. Cardinality(before[i]) + 1 = x /\ Cardinality(before[i]) \in Nat
    BY <1>2, <1>3, <2>1
  <2> QED
    BY <1>2, <2>2
<1>8. \A x \in N : p[x] \in N /\ Cardinality(before[p[x]]) = x - 1
  BY <1>2, <1>7
<1>9. p \in [1 .. n -> 1 .. n]
  BY <1>2, <1>8
<1> HIDE DEF p, rank
<1>10. \A x, y \in N : p[x] = p[y] => x = y
  BY <1>2, <1>8
<1>11. \A i \in N : \E x \in N : p[x] = i
  <2>1. PICK q : q = p
    OBVIOUS
  <2>2. q \in Injection(N, N)
    BY <1>2, <1>9, <1>10, <2>1 DEF Injection, IsInjective
  <2>3. q \in Surjection(N, N)
    BY <1>2, <2>2, FS_Injection
  <2> QED
    BY <2>1, <2>3 DEF Surjection
<1>12. \A x, y \in N : x < y => p[x] \in before[p[y]]
  <2> SUFFICES ASSUME NEW x \in N, NEW y \in N, x < y PROVE p[x] \in before[p[y]]
    OBVIOUS
  <2>1. p[x] \in N /\ p[y] \in N /\ p[x] # p[y] /\ x \in Nat /\ y \in Nat
    BY <1>2, <1>8, <1>10
  <2>2. p[x] \in before[p[y]] \/ p[y] \in before[p[x]]
    BY <1>2, <2>1 DEF Ordering
  <2>3. p[y] \in before[p[x]] => y - 1 < x - 1
    BY <1>4, <1>8, <2>1
  <2> QED
    BY <2>1, <2>2, <2>3
<1>13. Arranges(p, before, n)
  BY <1>2, <1>9, <1>10, <1>11, <1>12 DEF Arranges
<1>14. PICK a : a = [x \in 1 .. n |-> items[p[x]]]
  OBVIOUS
<1>15. a \in Seq(X) /\ Len(a) = n
  BY <1>1, <1>9, <1>14
<1>16. Arranged(items, before) = SubSeq(a, 1, n)
  BY <1>1, <1>14 DEF Arranged, p
<1>17. SubSeq(a, 1, n) = a
  BY <1>1, <1>15
<1>18. st = a /\ \A x \in 1 .. n : a[x] = items[p[x]]
  BY <1>14, <1>16, <1>17
<1>19. \E q : Arranges(q, before, n) /\ \A x \in 1 .. n : st[x] = items[q[x]]
  BY <1>13, <1>18
<1> QED
  BY <1>15, <1>18, <1>19 DEF Reorders

-----------------------------------------------------------------------------
(* States: k sequences of indices.                                           *)

Lists(L, k) == {st \in Seq(Seq(Positions(L))) : Len(st) = k}
Once(st) ==
    \A i, j \in DOMAIN st : \A x \in DOMAIN st[i], y \in DOMAIN st[j] :
        st[i][x] = st[j][y] => i = j /\ x = y
ItemsOf(st) == UNION {ToSet(st[i]) : i \in DOMAIN st}
Falling(L, st) == \A i, j \in DOMAIN st : i < j => Larger(L, st[i], st[j]) \/ st[i] = st[j]
IsState(L, k, st) == st \in Lists(L, k) /\ Once(st) /\ Falling(L, st) /\ st[1] # <<>>

\* What a state is made of.
LEMMA ListsTypes ==
    ASSUME NEW L, NEW k \in Nat \ {0}, NEW st \in Lists(L, k)
    PROVE  /\ st \in Seq(Seq(Positions(L))) /\ Len(st) = k /\ DOMAIN st = 1 .. k
           /\ \A i \in 1 .. k : st[i] \in Seq(Positions(L))
           /\ \A i \in 1 .. k : \A x \in DOMAIN st[i] : st[i][x] \in Positions(L)
<1>1. st \in Seq(Seq(Positions(L))) /\ Len(st) = k /\ DOMAIN st = 1 .. k
  BY DEF Lists
<1>2. \A i \in 1 .. k : st[i] \in Seq(Positions(L))
  BY <1>1
<1> QED
  BY <1>1, <1>2

\* An item of a state is in one of its sets.
LEMMA ItemOf ==
    ASSUME NEW L, NEW k \in Nat \ {0}, NEW st \in Lists(L, k), NEW v
    PROVE  v \in ItemsOf(st) <=> \E i \in 1 .. k : \E x \in DOMAIN st[i] : st[i][x] = v
BY ListsTypes DEF ItemsOf, ToSet

\* Sorting the sets of a state keeps its items.
LEMMA DecreasingState ==
    ASSUME NEW L \in Seq(Nat), NEW k \in Nat \ {0}, NEW raw \in Lists(L, k),
           Once(raw), ItemsOf(raw) # {}
    PROVE  /\ IsState(L, k, Decreasing(L, raw))
           /\ ItemsOf(Decreasing(L, raw)) = ItemsOf(raw)
           /\ \A i \in 1 .. k : \E j \in 1 .. k : Decreasing(L, raw)[i] = raw[j]
<1>1. /\ raw \in Seq(Seq(Positions(L))) /\ Len(raw) = k /\ DOMAIN raw = 1 .. k
      /\ \A i \in 1 .. k : raw[i] \in Seq(Positions(L))
  BY ListsTypes
<1> DEFINE B == [i \in DOMAIN raw |-> {j \in DOMAIN raw :
                    Larger(L, raw[j], raw[i]) \/ (raw[j] = raw[i] /\ j < i)}]
<1>b. PICK before : before = B
  OBVIOUS
<1>2. Decreasing(L, raw) = Arranged(raw, before)
  BY <1>b DEF Decreasing
<1>3. before \in [1 .. k -> SUBSET (1 .. k)]
  BY <1>1, <1>b
<1>4. \A i, j \in 1 .. k :
        j \in before[i] <=> Larger(L, raw[j], raw[i]) \/ (raw[j] = raw[i] /\ j < i)
  BY <1>1, <1>b
<1> HIDE DEF B
<1>5. \A i \in 1 .. k : i \notin before[i]
  BY <1>1, <1>4, LargerOrder
<1>6. \A i, j \in 1 .. k : i = j \/ i \in before[j] \/ j \in before[i]
  <2> SUFFICES ASSUME NEW i \in 1 .. k, NEW j \in 1 .. k, i # j
               PROVE  i \in before[j] \/ j \in before[i]
    OBVIOUS
  <2>1. PICK a, b \in Seq(Positions(L)) : a = raw[i] /\ b = raw[j]
    BY <1>1
  <2>2. Larger(L, a, b) \/ Larger(L, b, a) \/ a = b \/ (a # <<>> /\ b # <<>> /\ a[1] = b[1])
    BY LargerOrder
  <2>3. CASE Larger(L, a, b) \/ Larger(L, b, a)
    BY <1>4, <2>1, <2>3
  <2>4. CASE a = b
    <3>1. i < j \/ j < i
      OBVIOUS
    <3> QED
      BY <1>4, <2>1, <2>4, <3>1
  <2>5. CASE a # <<>> /\ b # <<>> /\ a[1] = b[1]
    <3>1. 1 \in DOMAIN a /\ 1 \in DOMAIN b
      BY <2>5
    <3>2. i \in DOMAIN raw /\ j \in DOMAIN raw
      BY <1>1
    <3> QED
      BY <2>1, <2>5, <3>1, <3>2 DEF Once
  <2> QED
    BY <2>2, <2>3, <2>4, <2>5
<1>7. \A h, i, j \in 1 .. k : h \in before[i] /\ i \in before[j] => h \in before[j]
  <2> SUFFICES ASSUME NEW h \in 1 .. k, NEW i \in 1 .. k, NEW j \in 1 .. k,
                      h \in before[i], i \in before[j]
               PROVE  h \in before[j]
    OBVIOUS
  <2>1. PICK a, b, c \in Seq(Positions(L)) : a = raw[h] /\ b = raw[i] /\ c = raw[j]
    BY <1>1
  <2>2. /\ Larger(L, a, b) \/ (a = b /\ h < i)
        /\ Larger(L, b, c) \/ (b = c /\ i < j)
    BY <1>4, <2>1
  <2>3. Larger(L, a, b) /\ Larger(L, b, c) => Larger(L, a, c)
    BY LargerOrder
  <2>4. Larger(L, a, c) \/ (a = c /\ h < j)
    BY <2>2, <2>3
  <2> QED
    BY <1>4, <2>1, <2>4
<1>8. Ordering(before, k)
  BY <1>3, <1>5, <1>6, <1>7 DEF Ordering
<1>9. PICK st : st = Decreasing(L, raw)
  OBVIOUS
<1>n. PICK n : n = Len(raw) /\ n = k
  BY <1>1
<1>a. st \in Seq(Seq(Positions(L))) /\ Reorders(st, raw, before, n)
  <2>1. Ordering(before, n) /\ n = Len(raw) /\ st = Arranged(raw, before)
    BY <1>2, <1>8, <1>9, <1>n
  <2>2. PICK X : X = Seq(Positions(L))
    OBVIOUS
  <2>3. raw \in Seq(X)
    BY <1>1, <2>2
  <2> QED
    BY <2>1, <2>2, <2>3, ArrangedOrder, Zenon
<1>10. PICK p : Arranges(p, before, k) /\ \A x \in 1 .. k : st[x] = raw[p[x]]
  BY <1>a, <1>n DEF Reorders
<1>11. st \in Lists(L, k) /\ DOMAIN st = 1 .. k
  BY <1>a, <1>n DEF Lists, Reorders
<1>12. /\ \A x \in 1 .. k : p[x] \in 1 .. k
       /\ \A x, y \in 1 .. k : p[x] = p[y] => x = y
       /\ \A i \in 1 .. k : \E x \in 1 .. k : p[x] = i
       /\ \A x, y \in 1 .. k : x < y => p[x] \in before[p[y]]
  BY <1>10 DEF Arranges
<1>13. Once(st)
  <2> SUFFICES ASSUME NEW i \in 1 .. k, NEW j \in 1 .. k, NEW x \in DOMAIN st[i],
                      NEW y \in DOMAIN st[j], st[i][x] = st[j][y]
               PROVE  i = j /\ x = y
    BY <1>11 DEF Once
  <2>1. p[i] \in DOMAIN raw /\ p[j] \in DOMAIN raw /\ st[i] = raw[p[i]] /\ st[j] = raw[p[j]]
    BY <1>1, <1>10, <1>12
  <2>2. p[i] = p[j] /\ x = y
    BY <2>1 DEF Once
  <2> QED
    BY <1>12, <2>2
<1>14. Falling(L, st)
  <2> SUFFICES ASSUME NEW i \in 1 .. k, NEW j \in 1 .. k, i < j
               PROVE  Larger(L, st[i], st[j]) \/ st[i] = st[j]
    BY <1>11 DEF Falling
  <2>1. p[i] \in before[p[j]] /\ p[i] \in 1 .. k /\ p[j] \in 1 .. k
    BY <1>12
  <2> QED
    BY <1>4, <1>10, <2>1
<1>15. ItemsOf(st) = ItemsOf(raw)
  <2>1. ASSUME NEW v \in ItemsOf(st) PROVE v \in ItemsOf(raw)
    <3>1. PICK i \in 1 .. k : \E x \in DOMAIN st[i] : st[i][x] = v
      BY <1>11, <2>1, ItemOf
    <3>2. p[i] \in 1 .. k /\ st[i] = raw[p[i]]
      BY <1>10, <1>12
    <3> QED
      BY <3>1, <3>2, ItemOf
  <2>2. ASSUME NEW v \in ItemsOf(raw) PROVE v \in ItemsOf(st)
    <3>1. PICK i \in 1 .. k : \E x \in DOMAIN raw[i] : raw[i][x] = v
      BY <2>2, ItemOf
    <3>2. PICK j \in 1 .. k : p[j] = i
      BY <1>12
    <3>3. st[j] = raw[i]
      BY <1>10, <3>2
    <3> QED
      BY <1>11, <3>1, <3>3, ItemOf
  <2> QED
    BY <2>1, <2>2
<1>16. st[1] # <<>>
  <2>1. PICK v \in ItemsOf(st) : TRUE
    BY <1>15
  <2>2. PICK i \in 1 .. k : \E x \in DOMAIN st[i] : st[i][x] = v
    BY <1>11, <2>1, ItemOf
  <2>3. st[i] # <<>>
    BY <2>2
  <2>4. CASE i = 1
    BY <2>3, <2>4
  <2>5. CASE i # 1
    <3>1. 1 \in 1 .. k /\ 1 < i /\ i \in 1 .. k
      BY <2>5
    <3>2. Larger(L, st[1], st[i]) \/ st[1] = st[i]
      BY <1>11, <1>14, <3>1 DEF Falling
    <3>3. PICK a, b \in Seq(Positions(L)) : a = st[1] /\ b = st[i]
      BY <1>11, <3>1, ListsTypes
    <3>4. Larger(L, a, b) => a # <<>>
      BY LargerOrder
    <3> QED
      BY <2>3, <3>2, <3>3, <3>4
  <2> QED
    BY <2>4, <2>5
<1>17. \A i \in 1 .. k : \E j \in 1 .. k : st[i] = raw[j]
  BY <1>10, <1>12
<1> QED
  BY <1>9, <1>11, <1>13, <1>14, <1>15, <1>16, <1>17 DEF IsState

\* Sorting a partition's indices keeps them.
LEMMA AscendingItems ==
    ASSUME NEW n \in Nat, NEW a \in Seq(1 .. n),
           \A x, y \in DOMAIN a : a[x] = a[y] => x = y
    PROVE  /\ Ascending(a) \in Seq(1 .. n) /\ Len(Ascending(a)) = Len(a)
           /\ ToSet(Ascending(a)) = ToSet(a)
           /\ \A x, y \in DOMAIN Ascending(a) : Ascending(a)[x] = Ascending(a)[y] => x = y
<1>1. PICK k \in Nat : k = Len(a) /\ DOMAIN a = 1 .. k
  OBVIOUS
<1>2. \A i \in 1 .. k : a[i] \in Int
  BY <1>1
<1>b. PICK before : before = [i \in DOMAIN a |-> {j \in DOMAIN a : a[j] < a[i]}]
  OBVIOUS
<1>3. before \in [1 .. k -> SUBSET (1 .. k)] /\ \A i, j \in 1 .. k : j \in before[i] <=> a[j] < a[i]
  BY <1>1, <1>b
<1>4. Ordering(before, k)
  <2>1. \A i \in 1 .. k : i \notin before[i]
    BY <1>2, <1>3
  <2>2. \A i, j \in 1 .. k : i = j \/ i \in before[j] \/ j \in before[i]
    BY <1>1, <1>2, <1>3
  <2>3. ASSUME NEW h \in 1 .. k, NEW i \in 1 .. k, NEW j \in 1 .. k, h \in before[i], i \in before[j]
        PROVE  h \in before[j]
    <3>1. a[h] < a[i] /\ a[i] < a[j] /\ a[h] \in Int /\ a[i] \in Int /\ a[j] \in Int
      BY <1>2, <1>3, <2>3
    <3>2. a[h] < a[j]
      BY <3>1
    <3> QED
      BY <1>3, <3>2
  <2> QED
    BY <1>3, <2>1, <2>2, <2>3 DEF Ordering
<1>5. PICK st : st = Ascending(a)
  OBVIOUS
<1>6. st = Arranged(a, before)
  BY <1>b, <1>5 DEF Ascending
<1>a. st \in Seq(1 .. n) /\ Reorders(st, a, before, k)
  <2>1. PICK X : X = 1 .. n
    OBVIOUS
  <2>2. a \in Seq(X) /\ k = Len(a)
    BY <1>1, <2>1
  <2> QED
    BY <1>4, <1>6, <2>1, <2>2, ArrangedOrder, Zenon
<1>7. PICK p : Arranges(p, before, k) /\ \A x \in 1 .. k : st[x] = a[p[x]]
  BY <1>a DEF Reorders
<1>8. st \in Seq(1 .. n) /\ Len(st) = k /\ DOMAIN st = 1 .. k
  BY <1>a DEF Reorders
<1>9. /\ \A x \in 1 .. k : p[x] \in 1 .. k
      /\ \A x, y \in 1 .. k : p[x] = p[y] => x = y
      /\ \A i \in 1 .. k : \E x \in 1 .. k : p[x] = i
  BY <1>7 DEF Arranges
<1>10. ToSet(st) = ToSet(a)
  <2>1. ASSUME NEW x \in 1 .. k PROVE \E y \in 1 .. k : st[x] = a[y]
    BY <1>7, <1>9
  <2>2. ASSUME NEW x \in 1 .. k PROVE \E y \in 1 .. k : a[x] = st[y]
    <3>1. PICK y \in 1 .. k : p[y] = x
      BY <1>9
    <3> QED
      BY <1>7, <3>1
  <2>3. ToSet(st) = {st[x] : x \in 1 .. k} /\ ToSet(a) = {a[x] : x \in 1 .. k}
    BY <1>1, <1>8 DEF ToSet
  <2>4. ASSUME NEW v \in ToSet(st) PROVE v \in ToSet(a)
    <3>1. PICK x \in 1 .. k : v = st[x]
      BY <2>3
    <3>2. PICK y \in 1 .. k : st[x] = a[y]
      BY <2>1
    <3> QED
      BY <2>3, <3>1, <3>2
  <2>5. ASSUME NEW v \in ToSet(a) PROVE v \in ToSet(st)
    <3>1. PICK x \in 1 .. k : v = a[x]
      BY <2>3
    <3>2. PICK y \in 1 .. k : a[x] = st[y]
      BY <2>2
    <3> QED
      BY <2>3, <3>1, <3>2
  <2> QED
    BY <2>4, <2>5
<1>11. \A x, y \in 1 .. k : st[x] = st[y] => x = y
  <2> SUFFICES ASSUME NEW x \in 1 .. k, NEW y \in 1 .. k, st[x] = st[y] PROVE x = y
    OBVIOUS
  <2>1. p[x] \in DOMAIN a /\ p[y] \in DOMAIN a /\ a[p[x]] = a[p[y]]
    BY <1>1, <1>7, <1>9
  <2>2. p[x] = p[y]
    BY <2>1
  <2> QED
    BY <1>9, <2>2
<1> QED
  BY <1>1, <1>5, <1>8, <1>10, <1>11

Permutes(st, n) ==
    /\ \A x \in 1 .. n : st[x] \in 1 .. n
    /\ \A x, y \in 1 .. n : st[x] = st[y] => x = y
    /\ \A i \in 1 .. n : \E x \in 1 .. n : st[x] = i

\* The items sorted by length: each once, shorter ones first.
LEMMA ShortestFirst ==
    ASSUME NEW L \in Seq(Nat), NEW n, n = Len(L), NEW st, st = Shortest(L)
    PROVE  /\ Permutes(st, n)
           /\ \A x, y \in 1 .. n : x < y => L[st[x]] <= L[st[y]]
<1>1. n \in Nat /\ DOMAIN L = 1 .. n /\ \A i \in 1 .. n : L[i] \in Nat
  OBVIOUS
<1>a. PICK a : a = [i \in DOMAIN L |-> i]
  OBVIOUS
<1>b. PICK before : before = [i \in DOMAIN L |-> {j \in DOMAIN L :
                        L[j] < L[i] \/ (L[j] = L[i] /\ j < i)}]
  OBVIOUS
<1>2. a \in Seq(1 .. n) /\ Len(a) = n /\ \A i \in 1 .. n : a[i] = i
  BY <1>1, <1>a
<1>3. /\ before \in [1 .. n -> SUBSET (1 .. n)]
      /\ \A i, j \in 1 .. n : j \in before[i] <=> L[j] < L[i] \/ (L[j] = L[i] /\ j < i)
  BY <1>1, <1>b
<1>4. Ordering(before, n)
  <2>1. \A i \in 1 .. n : i \notin before[i]
    BY <1>1, <1>3
  <2>2. \A i, j \in 1 .. n : i = j \/ i \in before[j] \/ j \in before[i]
    BY <1>1, <1>3
  <2>3. \A h, i, j \in 1 .. n : h \in before[i] /\ i \in before[j] => h \in before[j]
    BY <1>1, <1>3
  <2> QED
    BY <1>3, <2>1, <2>2, <2>3 DEF Ordering
<1>6. st = Arranged(a, before)
  BY <1>a, <1>b DEF Shortest
<1>c. st \in Seq(1 .. n) /\ Reorders(st, a, before, n)
  <2>1. PICK X : X = 1 .. n
    OBVIOUS
  <2>2. a \in Seq(X) /\ n = Len(a)
    BY <1>2, <2>1
  <2> QED
    BY <1>4, <1>6, <2>1, <2>2, ArrangedOrder, Zenon
<1>7. PICK p : Arranges(p, before, n) /\ \A x \in 1 .. n : st[x] = a[p[x]]
  BY <1>c DEF Reorders
<1>8. st \in Seq(1 .. n) /\ Len(st) = n
  BY <1>c DEF Reorders
<1>9. /\ \A x \in 1 .. n : p[x] \in 1 .. n
      /\ \A x, y \in 1 .. n : p[x] = p[y] => x = y
      /\ \A i \in 1 .. n : \E x \in 1 .. n : p[x] = i
      /\ \A x, y \in 1 .. n : x < y => p[x] \in before[p[y]]
  BY <1>7 DEF Arranges
<1>10. \A x \in 1 .. n : st[x] = p[x]
  BY <1>2, <1>7, <1>9
<1>11. \A x, y \in 1 .. n : x < y => L[st[x]] <= L[st[y]]
  <2> SUFFICES ASSUME NEW x \in 1 .. n, NEW y \in 1 .. n, x < y PROVE L[st[x]] <= L[st[y]]
    OBVIOUS
  <2>1. PICK i, j \in 1 .. n : i = p[x] /\ j = p[y] /\ i \in before[j]
    BY <1>9
  <2>2. L[i] \in Nat /\ L[j] \in Nat /\ (L[i] < L[j] \/ L[i] = L[j])
    BY <1>1, <1>3, <2>1
  <2>3. L[i] <= L[j]
    BY <2>2
  <2> QED
    BY <1>10, <2>1, <2>3
<1>12. Permutes(st, n)
  <2>1. \A x \in 1 .. n : st[x] \in 1 .. n
    BY <1>9, <1>10
  <2>2. \A x, y \in 1 .. n : st[x] = st[y] => x = y
    BY <1>9, <1>10
  <2>3. \A i \in 1 .. n : \E x \in 1 .. n : st[x] = i
    BY <1>9, <1>10
  <2> QED
    BY <2>1, <2>2, <2>3 DEF Permutes
<1> QED
  BY <1>11, <1>12

-----------------------------------------------------------------------------
(* Merging: what every state of the pool is, for totals at most d apart.     *)

Within(L, st, d) ==
    \A i, j \in DOMAIN st : TotalLength(L, st[i]) <= TotalLength(L, st[j]) + d
Even(st) == \A i, j \in DOMAIN st : Len(st[i]) = Len(st[j])
Good(L, k, d, e) ==
    {st \in Lists(L, k) : IsState(L, k, st) /\ Within(L, st, d) /\ (e => Even(st))}
\* Before it is sorted.
Unsorted(L, k, d, e) ==
    {raw \in Lists(L, k) : Once(raw) /\ ItemsOf(raw) # {} /\ Within(L, raw, d) /\ (e => Even(raw))}

\* What a good state promises of its sets.
LEMMA GoodType ==
    ASSUME NEW L, NEW k \in Nat \ {0}, NEW d, NEW e \in BOOLEAN, NEW st \in Good(L, k, d, e)
    PROVE  /\ st \in Lists(L, k) /\ IsState(L, k, st)
           /\ \A i, j \in 1 .. k : TotalLength(L, st[i]) <= TotalLength(L, st[j]) + d
BY ListsTypes DEF Good, Within

\* Sorting makes a good state.
LEMMA GoodFrom ==
    ASSUME NEW L \in Seq(Nat), NEW k \in Nat \ {0}, NEW d \in Nat, NEW e \in BOOLEAN,
           NEW raw \in Unsorted(L, k, d, e)
    PROVE  Decreasing(L, raw) \in Good(L, k, d, e) /\ ItemsOf(Decreasing(L, raw)) = ItemsOf(raw)
<1>0. /\ raw \in Lists(L, k) /\ Once(raw) /\ ItemsOf(raw) # {}
      /\ Within(L, raw, d) /\ DOMAIN raw = 1 .. k
  BY ListsTypes DEF Unsorted
<1>1. PICK st : st = Decreasing(L, raw)
  OBVIOUS
<1>2. /\ IsState(L, k, st) /\ ItemsOf(st) = ItemsOf(raw)
      /\ \A i \in 1 .. k : \E j \in 1 .. k : st[i] = raw[j]
  BY <1>0, <1>1, DecreasingState
<1>3. st \in Lists(L, k) /\ DOMAIN st = 1 .. k
  BY <1>2, ListsTypes DEF IsState
<1>4. Within(L, st, d)
  <2> SUFFICES ASSUME NEW i \in 1 .. k, NEW j \in 1 .. k
               PROVE  TotalLength(L, st[i]) <= TotalLength(L, st[j]) + d
    BY <1>3 DEF Within
  <2>1. PICK x, y \in 1 .. k : st[i] = raw[x] /\ st[j] = raw[y]
    BY <1>2
  <2> QED
    BY <1>0, <2>1 DEF Within
<1>5. e => Even(st)
  <2> SUFFICES ASSUME Even(raw), NEW i \in 1 .. k, NEW j \in 1 .. k
               PROVE  Len(st[i]) = Len(st[j])
    BY <1>3 DEF Even, Unsorted
  <2>1. PICK x, y \in 1 .. k : st[i] = raw[x] /\ st[j] = raw[y]
    BY <1>2
  <2> QED
    BY <1>0, <2>1 DEF Even
<1> QED
  BY <1>1, <1>2, <1>3, <1>4, <1>5 DEF Good

\* Joining two sequences of indices that share none.
Joins(L, c, a, b) ==
    /\ c \in Seq(Positions(L)) /\ Len(c) = Len(a) + Len(b)
    /\ \A x \in DOMAIN c : \/ x \in DOMAIN a /\ c[x] = a[x]
                           \/ x - Len(a) \in DOMAIN b /\ c[x] = b[x - Len(a)] /\ x \in Nat
    /\ \A x \in DOMAIN a : x \in DOMAIN c /\ c[x] = a[x]
    /\ \A x \in DOMAIN b : x + Len(a) \in DOMAIN c /\ c[x + Len(a)] = b[x]
    /\ TotalLength(L, c) = TotalLength(L, a) + TotalLength(L, b)

\* What is joined has the items of both, and the sum of their totals.
LEMMA Joined ==
    ASSUME NEW L \in Seq(Nat), NEW a \in Seq(Positions(L)), NEW b \in Seq(Positions(L)),
           NEW c, c = a \o b, ToSet(a) \cap ToSet(b) = {}
    PROVE  Joins(L, c, a, b)
<1>1. PICK m, n \in Nat : m = Len(a) /\ n = Len(b) /\ DOMAIN a = 1 .. m /\ DOMAIN b = 1 .. n
  OBVIOUS
<1>2. /\ c \in Seq(Positions(L)) /\ Len(c) = m + n /\ DOMAIN c = 1 .. (m + n)
  BY <1>1
<1>3. \A x \in 1 .. (m + n) : c[x] = IF x <= m THEN a[x] ELSE b[x - m]
  BY <1>1
<1>4. \A x \in DOMAIN c : \/ x \in DOMAIN a /\ c[x] = a[x]
                          \/ x - m \in DOMAIN b /\ c[x] = b[x - m] /\ x \in Nat
  BY <1>1, <1>2, <1>3
<1>5. \A x \in DOMAIN a : x \in DOMAIN c /\ c[x] = a[x]
  BY <1>1, <1>2, <1>3
<1>6. \A x \in DOMAIN b : x + m \in DOMAIN c /\ c[x + m] = b[x]
  <2> TAKE x \in DOMAIN b
  <2>1. x + m \in 1 .. (m + n) /\ ~(x + m <= m) /\ (x + m) - m = x
    BY <1>1
  <2> QED
    BY <1>2, <1>3, <2>1
<1>7. TotalLength(L, c) = TotalLength(L, a) + TotalLength(L, b)
  <2>1. ASSUME NEW v \in ToSet(c) PROVE v \in ToSet(a) \cup ToSet(b)
    <3>1. PICK x \in DOMAIN c : v = c[x]
      BY DEF ToSet
    <3> QED
      BY <1>4, <3>1 DEF ToSet
  <2>2. ASSUME NEW v \in ToSet(a) \cup ToSet(b) PROVE v \in ToSet(c)
    <3>1. (\E x \in DOMAIN a : v = a[x]) \/ (\E x \in DOMAIN b : v = b[x])
      BY DEF ToSet
    <3>2. \E x \in DOMAIN c : v = c[x]
      BY <1>5, <1>6, <3>1
    <3> QED
      BY <3>2 DEF ToSet
  <2>3. PICK s, t : s = ToSet(a) /\ t = ToSet(b)
    OBVIOUS
  <2>4. ToSet(c) = s \cup t
    BY <2>1, <2>2, <2>3
  <2>n. PICK N : N = Positions(L)
    OBVIOUS
  <2>5. IsFiniteSet(N) /\ L \in [N -> Nat] /\ s \in SUBSET N /\ t \in SUBSET N /\ s \cap t = {}
    BY <2>3, <2>n, TotalType
  <2>6. Weight(L, s \cup t) = Weight(L, s) + Weight(L, t)
    BY <2>5, WeightUnion
  <2> QED
    BY <1>2, <2>3, <2>4, <2>6, TotalType
<1> QED
  BY <1>1, <1>2, <1>4, <1>5, <1>6, <1>7 DEF Joins

\* The merge of two good states that share no item is good, and has their items.
LEMMA MergedState ==
    ASSUME NEW L \in Seq(Nat), NEW k \in Nat \ {0}, NEW d \in Nat, NEW e \in BOOLEAN,
           NEW s \in Good(L, k, d, e), NEW t \in Good(L, k, d, e),
           ItemsOf(s) \cap ItemsOf(t) = {}
    PROVE  /\ Merge(L, s, t) \in Good(L, k, d, e)
           /\ ItemsOf(Merge(L, s, t)) = ItemsOf(s) \cup ItemsOf(t)
<1>1. /\ s \in Lists(L, k) /\ t \in Lists(L, k) /\ Len(s) = k
      /\ \A i \in 1 .. k : s[i] \in Seq(Positions(L)) /\ t[i] \in Seq(Positions(L))
  BY GoodType, ListsTypes
<1>2. PICK raw : raw = [i \in 1 .. k |-> s[i] \o t[k + 1 - i]]
  OBVIOUS
<1>3. Merge(L, s, t) = Decreasing(L, raw)
  BY <1>1, <1>2 DEF Merge
<1>4. \A i \in 1 .. k : k + 1 - i \in 1 .. k
  OBVIOUS
<1>5. ASSUME NEW i \in 1 .. k, NEW f, f = k + 1 - i
      PROVE  Joins(L, raw[i], s[i], t[f])
  <2>1. PICK a, b, c : a = s[i] /\ b = t[f] /\ c = raw[i]
    OBVIOUS
  <2>2. f \in 1 .. k /\ a \in Seq(Positions(L)) /\ b \in Seq(Positions(L)) /\ c = a \o b
    BY <1>1, <1>2, <1>4, <1>5, <2>1
  <2>3. \A v \in ToSet(a) : v \in ItemsOf(s)
    BY <1>1, <2>1, ListsTypes DEF ItemsOf
  <2>4. \A v \in ToSet(b) : v \in ItemsOf(t)
    BY <1>1, <2>1, <2>2, ListsTypes DEF ItemsOf
  <2>5. ToSet(a) \cap ToSet(b) = {}
    BY <2>3, <2>4
  <2>6. Joins(L, c, a, b)
    BY <2>2, <2>5, Joined
  <2> QED
    BY <2>1, <2>6
<1>6. raw \in Lists(L, k) /\ DOMAIN raw = 1 .. k
  <2>1. \A i \in 1 .. k : raw[i] \in Seq(Positions(L))
    BY <1>5 DEF Joins
  <2>2. raw \in [1 .. k -> Seq(Positions(L))]
    BY <1>2, <2>1
  <2>3. raw \in Seq(Seq(Positions(L))) /\ Len(raw) = k
    BY <2>2
  <2> QED
    BY <1>2, <2>3 DEF Lists
<1>7. ASSUME NEW i \in 1 .. k, NEW x \in DOMAIN raw[i], NEW f, f = k + 1 - i
      PROVE  \/ x \in DOMAIN s[i] /\ raw[i][x] = s[i][x] /\ raw[i][x] \in ItemsOf(s)
             \/ /\ x - Len(s[i]) \in DOMAIN t[f] /\ x \in Nat
                /\ raw[i][x] = t[f][x - Len(s[i])]
                /\ raw[i][x] \in ItemsOf(t)
  <2>1. \/ x \in DOMAIN s[i] /\ raw[i][x] = s[i][x]
        \/ x - Len(s[i]) \in DOMAIN t[f] /\ raw[i][x] = t[f][x - Len(s[i])] /\ x \in Nat
    <3>1. Joins(L, raw[i], s[i], t[f])
      BY <1>5, <1>7
    <3> QED
      BY <1>7, <3>1 DEF Joins
  <2>2. f \in 1 .. k
    BY <1>7
  <2>3. \A y \in DOMAIN s[i] : s[i][y] \in ItemsOf(s)
    BY <1>1, ItemOf
  <2>4. \A y \in DOMAIN t[f] : t[f][y] \in ItemsOf(t)
    BY <1>1, <2>2, ItemOf
  <2> QED
    BY <2>1, <2>3, <2>4
<1>8. Once(raw)
  <2> SUFFICES ASSUME NEW i \in 1 .. k, NEW j \in 1 .. k, NEW x \in DOMAIN raw[i],
                      NEW y \in DOMAIN raw[j], raw[i][x] = raw[j][y]
               PROVE  i = j /\ x = y
    BY <1>6 DEF Once
  <2>0. Once(s) /\ Once(t) /\ DOMAIN s = 1 .. k /\ DOMAIN t = 1 .. k
    BY <1>1, GoodType, ListsTypes DEF IsState
  <2>1. CASE raw[i][x] \in ItemsOf(s)
    <3>1. raw[i][x] \notin ItemsOf(t)
      BY <2>1
    <3>2. x \in DOMAIN s[i] /\ raw[i][x] = s[i][x] /\ y \in DOMAIN s[j] /\ raw[j][y] = s[j][y]
      BY <1>7, <3>1
    <3>3. i \in DOMAIN s /\ j \in DOMAIN s /\ s[i][x] = s[j][y]
      BY <2>0, <3>2
    <3> QED
      BY <2>0, <3>2, <3>3 DEF Once
  <2>2. CASE raw[i][x] \notin ItemsOf(s)
    <3>1. PICK f, g \in 1 .. k : f = k + 1 - i /\ g = k + 1 - j
      BY <1>4
    <3>2. x - Len(s[i]) \in DOMAIN t[f] /\ raw[i][x] = t[f][x - Len(s[i])] /\ x \in Nat
      BY <1>7, <2>2, <3>1
    <3>3. y - Len(s[j]) \in DOMAIN t[g] /\ raw[j][y] = t[g][y - Len(s[j])] /\ y \in Nat
      BY <1>7, <2>2, <3>1
    <3>n. PICK u, v : u = x - Len(s[i]) /\ v = y - Len(s[j])
      OBVIOUS
    <3>4. f \in DOMAIN t /\ g \in DOMAIN t /\ u \in DOMAIN t[f] /\ v \in DOMAIN t[g] /\ t[f][u] = t[g][v]
      BY <2>0, <3>2, <3>3, <3>n
    <3>5. f = g /\ u = v
      BY <2>0, <3>4 DEF Once
    <3>6. i = j
      BY <3>1, <3>5
    <3>7. Len(s[i]) \in Nat
      BY <1>1
    <3> QED
      BY <3>2, <3>3, <3>n, <3>5, <3>6, <3>7
  <2> QED
    BY <2>1, <2>2
<1>9. ItemsOf(raw) = ItemsOf(s) \cup ItemsOf(t)
  <2>1. ASSUME NEW v \in ItemsOf(raw) PROVE v \in ItemsOf(s) \cup ItemsOf(t)
    <3>1. PICK i \in 1 .. k : \E x \in DOMAIN raw[i] : raw[i][x] = v
      BY <1>6, ItemOf
    <3>2. PICK f \in 1 .. k : f = k + 1 - i
      BY <1>4
    <3> QED
      BY <1>7, <3>1, <3>2
  <2>2. ASSUME NEW v \in ItemsOf(s) PROVE v \in ItemsOf(raw)
    <3>1. PICK i \in 1 .. k : \E x \in DOMAIN s[i] : s[i][x] = v
      BY <1>1, ItemOf
    <3>f. PICK f \in 1 .. k : f = k + 1 - i
      BY <1>4
    <3>2. \E x \in DOMAIN raw[i] : raw[i][x] = v
      BY <1>5, <3>f, <3>1 DEF Joins
    <3> QED
      BY <1>6, <3>2, ItemOf
  <2>3. ASSUME NEW v \in ItemsOf(t) PROVE v \in ItemsOf(raw)
    <3>1. \E i \in 1 .. k : \E x \in DOMAIN t[i] : t[i][x] = v
      BY <1>1, <2>3, ItemOf
    <3>2. PICK f \in 1 .. k : \E x \in DOMAIN t[f] : t[f][x] = v
      BY <3>1
    <3>3. PICK i \in 1 .. k : f = k + 1 - i
      <4>1. k + 1 - f \in 1 .. k /\ f = k + 1 - (k + 1 - f)
        OBVIOUS
      <4> QED
        BY <4>1
    <3>4. Joins(L, raw[i], s[i], t[f])
      BY <1>5, <3>3
    <3>5. \E x \in DOMAIN raw[i] : raw[i][x] = v
      BY <3>2, <3>4 DEF Joins
    <3> QED
      BY <1>6, <3>5, ItemOf
  <2> QED
    BY <2>1, <2>2, <2>3
<1>10. ItemsOf(raw) # {}
  <2>0. s[1] # <<>> /\ 1 \in 1 .. k
    <3>1. IsState(L, k, s)
      BY GoodType
    <3> QED
      BY <3>1 DEF IsState
  <2>1. s[1] # <<>> /\ s[1] \in Seq(Positions(L)) /\ 1 \in 1 .. k
    BY <1>1, <2>0
  <2>2. 1 \in DOMAIN s[1]
    BY <2>1
  <2>3. s[1][1] \in ItemsOf(s)
    BY <1>1, <2>1, <2>2, ItemOf
  <2> QED
    BY <1>9, <2>3
<1>11. ASSUME NEW i \in 1 .. k, NEW j \in 1 .. k
       PROVE  TotalLength(L, raw[i]) <= TotalLength(L, raw[j]) + d
  <2>1. PICK f, g \in 1 .. k : f = k + 1 - i /\ g = k + 1 - j
    BY <1>4
  <2>2. PICK si, sj, tf, tg \in Nat : /\ si = TotalLength(L, s[i]) /\ sj = TotalLength(L, s[j])
                                      /\ tf = TotalLength(L, t[f]) /\ tg = TotalLength(L, t[g])
    BY <1>1, TotalType
  <2>3. TotalLength(L, raw[i]) = si + tf
    BY <1>5, <2>1, <2>2 DEF Joins
  <2>4. TotalLength(L, raw[j]) = sj + tg
    BY <1>5, <2>1, <2>2 DEF Joins
  <2>5. si <= sj + d /\ tf <= tg + d
    BY <2>2, GoodType
  <2>6. \A x, y \in 1 .. k : x < y =>
          /\ TotalLength(L, s[x]) >= TotalLength(L, s[y])
          /\ TotalLength(L, t[x]) >= TotalLength(L, t[y])
    <3> TAKE x, y \in 1 .. k
    <3> HAVE x < y
    <3>1. /\ Larger(L, s[x], s[y]) \/ s[x] = s[y]
          /\ Larger(L, t[x], t[y]) \/ t[x] = t[y]
      <4>1. Falling(L, s) /\ Falling(L, t) /\ DOMAIN s = 1 .. k /\ DOMAIN t = 1 .. k
        BY <1>1, GoodType, ListsTypes DEF IsState
      <4> QED
        BY <4>1 DEF Falling
    <3>2. /\ TotalLength(L, s[x]) \in Nat /\ TotalLength(L, t[x]) \in Nat
          /\ TotalLength(L, s[y]) \in Nat /\ TotalLength(L, t[y]) \in Nat
      BY <1>1, TotalType
    <3>3. /\ Larger(L, s[x], s[y]) => TotalLength(L, s[x]) >= TotalLength(L, s[y])
          /\ Larger(L, t[x], t[y]) => TotalLength(L, t[x]) >= TotalLength(L, t[y])
      BY <1>1, LargerOrder
    <3> QED
      BY <3>1, <3>2, <3>3
  <2>7. CASE i = j
    BY <2>1, <2>2, <2>3, <2>4, <2>7
  <2>8. CASE i < j
    <3>1. tf <= tg
      BY <2>1, <2>2, <2>6, <2>8
    <3> QED
      BY <2>3, <2>4, <2>5, <3>1
  <2>9. CASE j < i
    <3>1. si <= sj
      BY <2>2, <2>6, <2>9
    <3> QED
      BY <2>3, <2>4, <2>5, <3>1
  <2> QED
    BY <2>7, <2>8, <2>9
<1>12. ASSUME e, NEW i \in 1 .. k, NEW j \in 1 .. k PROVE Len(raw[i]) = Len(raw[j])
  <2>1. PICK f, g \in 1 .. k : f = k + 1 - i /\ g = k + 1 - j
    BY <1>4
  <2>2. Len(raw[i]) = Len(s[i]) + Len(t[f]) /\ Len(raw[j]) = Len(s[j]) + Len(t[g])
    BY <1>5, <2>1 DEF Joins
  <2>3. \A x, y \in 1 .. k : Len(s[x]) = Len(s[y])
    <3>1. Even(s)
      BY <1>12 DEF Good
    <3>2. DOMAIN s = 1 .. k
      BY <1>1, ListsTypes
    <3> QED
      BY <3>1, <3>2 DEF Even
  <2>4. \A x, y \in 1 .. k : Len(t[x]) = Len(t[y])
    <3>1. Even(t)
      BY <1>12 DEF Good
    <3>2. DOMAIN t = 1 .. k
      BY <1>1, ListsTypes
    <3> QED
      BY <3>1, <3>2 DEF Even
  <2>5. Len(s[i]) = Len(s[j]) /\ Len(t[f]) = Len(t[g])
    BY <2>3, <2>4
  <2> QED
    BY <2>1, <2>2, <2>5
<1>13. PICK st : st = Decreasing(L, raw)
  OBVIOUS
<1>14. st \in Good(L, k, d, e) /\ ItemsOf(st) = ItemsOf(raw)
  <2>1. Within(L, raw, d)
    BY <1>6, <1>11 DEF Within
  <2>2. e => Even(raw)
    BY <1>6, <1>12 DEF Even
  <2>3. raw \in Unsorted(L, k, d, e)
    BY <1>6, <1>8, <1>10, <2>1, <2>2 DEF Unsorted
  <2> QED
    BY <1>13, <2>3, GoodFrom
<1> QED
  BY <1>3, <1>9, <1>13, <1>14

-----------------------------------------------------------------------------
(* The heap: no two states of the pool share an item, so one is always first.*)

Apart(P) == \A s, t \in P : s # t => ItemsOf(s) \cap ItemsOf(t) = {}

\* The sets that a heap compares two states by.
LEMMA GoodSets ==
    ASSUME NEW L, NEW k \in Nat \ {0}, NEW d, NEW e \in BOOLEAN, NEW st \in Good(L, k, d, e)
    PROVE  /\ Len(st) = k /\ st[1] \in Seq(Positions(L)) /\ st[k] \in Seq(Positions(L))
           /\ st[1] # <<>> /\ st[1][1] \in ItemsOf(st)
<1>1. st \in Lists(L, k) /\ IsState(L, k, st)
  BY GoodType
<1>2. 1 \in 1 .. k /\ k \in 1 .. k
  OBVIOUS
<1>3. Len(st) = k /\ st[1] \in Seq(Positions(L)) /\ st[k] \in Seq(Positions(L))
  BY <1>1, <1>2, ListsTypes
<1>4. st[1] # <<>>
  BY <1>1 DEF IsState
<1>5. 1 \in DOMAIN st[1]
  BY <1>3, <1>4
<1>6. st[1][1] \in ItemsOf(st)
  BY <1>1, <1>2, <1>5, ItemOf
<1> QED
  BY <1>3, <1>4, <1>6

\* What the heap compares states by is a strict order of those that share no item.
LEMMA BeforeOrder ==
    ASSUME NEW L \in Seq(Nat), NEW k \in Nat \ {0}, NEW d \in Nat, NEW e \in BOOLEAN,
           NEW s \in Good(L, k, d, e), NEW t \in Good(L, k, d, e), NEW u \in Good(L, k, d, e)
    PROVE  /\ ~Before(L, s, s)
           /\ Before(L, s, t) /\ Before(L, t, u) => Before(L, s, u)
           /\ ItemsOf(s) \cap ItemsOf(t) = {} => Before(L, s, t) \/ Before(L, t, s)
<1>1. PICK a, b, c \in Seq(Positions(L)) : a = s[1] /\ b = t[1] /\ c = u[1]
  <2>1. s[1] \in Seq(Positions(L)) /\ t[1] \in Seq(Positions(L)) /\ u[1] \in Seq(Positions(L))
    BY GoodSets
  <2> QED
    BY <2>1
<1>2. ASSUME NEW st \in Good(L, k, d, e) PROVE Spread(L, st) \in Int
  <2>1. Len(st) = k /\ st[1] \in Seq(Positions(L)) /\ st[k] \in Seq(Positions(L))
    BY GoodSets
  <2>2. TotalLength(L, st[1]) \in Nat /\ TotalLength(L, st[k]) \in Nat
    BY <2>1, TotalType
  <2> QED
    BY <2>1, <2>2 DEF Spread
<1>3. PICK x, y, z \in Int : x = Spread(L, s) /\ y = Spread(L, t) /\ z = Spread(L, u)
  BY <1>2
<1>4. /\ Before(L, s, s) <=> Larger(L, a, a)
      /\ Before(L, s, t) <=> x > y \/ (x = y /\ Larger(L, a, b))
      /\ Before(L, t, s) <=> y > x \/ (y = x /\ Larger(L, b, a))
      /\ Before(L, t, u) <=> y > z \/ (y = z /\ Larger(L, b, c))
      /\ Before(L, s, u) <=> x > z \/ (x = z /\ Larger(L, a, c))
  BY <1>1, <1>3 DEF Before
<1>5. /\ ~Larger(L, a, a)
      /\ Larger(L, a, b) /\ Larger(L, b, c) => Larger(L, a, c)
      /\ Larger(L, a, b) \/ Larger(L, b, a) \/ a = b \/ (a # <<>> /\ b # <<>> /\ a[1] = b[1])
  BY LargerOrder
<1>6. ASSUME ItemsOf(s) \cap ItemsOf(t) = {} PROVE Larger(L, a, b) \/ Larger(L, b, a)
  <2>1. a # <<>> /\ b # <<>>
    BY <1>1, GoodSets
  <2>4. a[1] \in ItemsOf(s)
    BY <1>1, GoodSets
  <2>5. b[1] \in ItemsOf(t)
    BY <1>1, GoodSets
  <2>6. a[1] # b[1]
    BY <1>6, <2>4, <2>5
  <2> QED
    BY <1>5, <2>1, <2>6
<1> QED
  BY <1>4, <1>5, <1>6

\* So the heap pops one of its states.
LEMMA PoppedState ==
    ASSUME NEW L \in Seq(Nat), NEW k \in Nat \ {0}, NEW d \in Nat, NEW e \in BOOLEAN,
           NEW P \in SUBSET Good(L, k, d, e), IsFiniteSet(P), P # {}, Apart(P)
    PROVE  Pop(L, P) \in P
<1> DEFINE Ahead(s) == {t \in P : Before(L, t, s)}
           B == {Ahead(s) : s \in P}
<1>1. B \in SUBSET (SUBSET P) /\ B # {}
  OBVIOUS
<1>2. PICK C : C = B
  OBVIOUS
<1>3. \E a \in C : \A b \in SUBSET a : b # a => b \notin C
  <2> HIDE DEF B
  <2> QED
    BY <1>1, <1>2, MinimalSet, Zenon
<1>4. PICK s \in P : \A b \in SUBSET Ahead(s) : b # Ahead(s) => b \notin B
  BY <1>2, <1>3
<1>5. ASSUME NEW t \in P, Before(L, t, s) PROVE FALSE
  <2>0. s \in Good(L, k, d, e) /\ t \in Good(L, k, d, e)
    OBVIOUS
  <2>1. \A u \in P : Before(L, u, t) => Before(L, u, s)
    BY <1>5, BeforeOrder
  <2>2. ~Before(L, t, t)
    BY <2>0, BeforeOrder
  <2>3. Ahead(t) \in SUBSET Ahead(s) /\ t \in Ahead(s) /\ t \notin Ahead(t)
    BY <1>5, <2>1, <2>2
  <2>4. Ahead(t) \in B
    OBVIOUS
  <2> QED
    BY <1>4, <2>3, <2>4
<1>6. \A t \in P \ {s} : Before(L, s, t)
  <2> TAKE t \in P \ {s}
  <2>1. s \in Good(L, k, d, e) /\ t \in Good(L, k, d, e) /\ ItemsOf(s) \cap ItemsOf(t) = {}
    BY DEF Apart
  <2>2. Before(L, s, t) \/ Before(L, t, s)
    BY <2>1, BeforeOrder
  <2> QED
    BY <1>5, <2>2
<1> QED
  BY <1>6 DEF Pop

GoodPool(L, k, d, e, P, m) ==
    /\ P \in SUBSET Good(L, k, d, e) /\ IsFiniteSet(P) /\ Cardinality(P) = m /\ Apart(P)
    /\ UNION {ItemsOf(s) : s \in P} = Positions(L)

NextPool(L, rest) ==
    LET first == Pop(L, rest)
        second == Pop(L, rest \ {first})
    IN (rest \ {first, second}) \cup {Merge(L, first, second)}

\* A merge leaves a good pool of one state less.
LEMMA PoolShrinks ==
    ASSUME NEW L \in Seq(Nat), NEW k \in Nat \ {0}, NEW d \in Nat, NEW e \in BOOLEAN,
           NEW m \in Nat, m >= 2, NEW P, GoodPool(L, k, d, e, P, m)
    PROVE  GoodPool(L, k, d, e, NextPool(L, P), m - 1)
<1>1. /\ P \in SUBSET Good(L, k, d, e) /\ IsFiniteSet(P) /\ Cardinality(P) = m /\ Apart(P)
      /\ UNION {ItemsOf(s) : s \in P} = Positions(L)
  BY DEF GoodPool
<1>2. P # {}
  BY <1>1, FS_EmptySet
<1>3. PICK first : first = Pop(L, P)
  OBVIOUS
<1>4. first \in P
  BY <1>1, <1>2, <1>3, PoppedState
<1>5. PICK Q : Q = P \ {first}
  OBVIOUS
<1>6. IsFiniteSet(Q) /\ Cardinality(Q) = m - 1
  BY <1>1, <1>4, <1>5, FS_RemoveElement
<1>7. Q \in SUBSET Good(L, k, d, e) /\ Q # {} /\ Apart(Q)
  <2>1. Q # {}
    BY <1>6, FS_EmptySet
  <2> QED
    BY <1>1, <1>5, <2>1 DEF Apart
<1>8. PICK second : second = Pop(L, Q)
  OBVIOUS
<1>9. second \in Q
  BY <1>6, <1>7, <1>8, PoppedState
<1>10. PICK R : R = Q \ {second}
  OBVIOUS
<1>11. IsFiniteSet(R) /\ Cardinality(R) = m - 2
  <2>1. IsFiniteSet(R) /\ Cardinality(R) = Cardinality(Q) - 1
    BY <1>6, <1>9, <1>10, FS_RemoveElement
  <2> QED
    BY <1>6, <2>1
<1>12. PICK new : new = Merge(L, first, second)
  OBVIOUS
<1>13. first \in P /\ second \in P /\ first # second /\ ItemsOf(first) \cap ItemsOf(second) = {}
  BY <1>1, <1>4, <1>5, <1>9 DEF Apart
<1>14. new \in Good(L, k, d, e) /\ ItemsOf(new) = ItemsOf(first) \cup ItemsOf(second)
  BY <1>1, <1>12, <1>13, MergedState
<1>15. \A u \in R : u \in P /\ u # first /\ u # second /\ ItemsOf(u) \cap ItemsOf(new) = {}
  BY <1>1, <1>5, <1>10, <1>13, <1>14 DEF Apart
<1>16. new \notin R
  <2>2. new[1][1] \in ItemsOf(new)
    BY <1>14, GoodSets
  <2> QED
    BY <1>15, <2>2
<1>17. PICK T : T = R \cup {new}
  OBVIOUS
<1>18. IsFiniteSet(T) /\ Cardinality(T) = m - 1
  <2>1. IsFiniteSet(T) /\ Cardinality(T) = Cardinality(R) + 1
    BY <1>11, <1>16, <1>17, FS_AddElement
  <2> QED
    BY <1>11, <2>1
<1>19. T \in SUBSET Good(L, k, d, e)
  BY <1>1, <1>14, <1>15, <1>17
<1>20. Apart(T)
  <2> SUFFICES ASSUME NEW s \in T, NEW t \in T, s # t PROVE ItemsOf(s) \cap ItemsOf(t) = {}
    BY DEF Apart
  <2>1. CASE s \in R /\ t \in R
    BY <1>1, <1>15, <2>1 DEF Apart
  <2>2. CASE s = new /\ t \in R
    BY <1>15, <2>2
  <2>3. CASE s \in R /\ t = new
    BY <1>15, <2>3
  <2> QED
    BY <1>17, <2>1, <2>2, <2>3
<1>21. UNION {ItemsOf(s) : s \in T} = Positions(L)
  <2>1. ASSUME NEW v \in Positions(L) PROVE v \in UNION {ItemsOf(s) : s \in T}
    <3>1. PICK s \in P : v \in ItemsOf(s)
      BY <1>1
    <3>2. s \in R \/ s = first \/ s = second
      BY <1>5, <1>10
    <3> QED
      BY <1>14, <1>17, <3>1, <3>2
  <2>2. ASSUME NEW s \in T, NEW v \in ItemsOf(s) PROVE v \in Positions(L)
    <3>1. \E t \in P : v \in ItemsOf(t)
      BY <1>13, <1>14, <1>15, <1>17, <2>2
    <3> QED
      BY <1>1, <3>1
  <2> QED
    BY <2>1, <2>2
<1>22. T = NextPool(L, P)
  <2>1. R = P \ {first, second}
    BY <1>5, <1>10
  <2> QED
    BY <1>3, <1>5, <1>8, <1>12, <1>17, <2>1 DEF NextPool
<1>23. GoodPool(L, k, d, e, T, m - 1)
  BY <1>18, <1>19, <1>20, <1>21 DEF GoodPool
<1> QED
  BY <1>22, <1>23

-----------------------------------------------------------------------------
(* The states the heap starts with.                                          *)

\* Division with remainder.
LEMMA Dividing ==
    ASSUME NEW k \in Nat \ {0}, NEW n \in Nat
    PROVE  /\ n = ((n \div k) * k) + (n % k)
           /\ n \div k \in Nat /\ n % k \in Nat /\ n % k < k
OBVIOUS

\* The items of q rows of k, numbered row by row.
Numbered(n, k, q) ==
    /\ \A g \in 1 .. q, i \in 1 .. k : (g - 1) * k + i \in 1 .. n
    /\ \A g, h \in 1 .. q, i, j \in 1 .. k :
            (g - 1) * k + i = (h - 1) * k + j => g = h /\ i = j
    /\ \A x \in 1 .. n : \E g \in 1 .. q, i \in 1 .. k : x = (g - 1) * k + i

\* Such a numbering has every number once.
LEMMA RowByRow ==
    ASSUME NEW k \in Nat \ {0}, NEW q \in Nat
    PROVE  Numbered(q * k, k, q)
<1>1. \A g \in 1 .. q, i \in 1 .. k : (g - 1) * k + i \in 1 .. q * k
  OBVIOUS
<1>2. ASSUME NEW g \in 1 .. q, NEW h \in 1 .. q, NEW i \in 1 .. k, NEW j \in 1 .. k,
             (g - 1) * k + i = (h - 1) * k + j
      PROVE  g = h /\ i = j
  BY <1>2
<1>3. ASSUME NEW x \in 1 .. q * k PROVE \E g \in 1 .. q, i \in 1 .. k : x = (g - 1) * k + i
  <2>1. PICK y \in Nat : y = x - 1
    OBVIOUS
  <2>2. y \div k \in Nat /\ y % k \in Nat
    BY Dividing
  <2>3. PICK a, b \in Nat : a = y \div k /\ b = y % k
    BY <2>2
  <2>4. y = a * k + b /\ b < k
    BY <2>3, Dividing
  <2>5. a < q
    <3> SUFFICES ASSUME a >= q PROVE FALSE
      OBVIOUS
    <3>1. a * k >= q * k
      OBVIOUS
    <3> QED
      BY <2>1, <2>4, <3>1
  <2>6. a + 1 \in 1 .. q /\ b + 1 \in 1 .. k /\ x = ((a + 1) - 1) * k + (b + 1)
    BY <2>1, <2>4, <2>5
  <2> QED
    BY <2>6
<1> QED
  BY <1>1, <1>2, <1>3 DEF Numbered

\* The total of a set with one item,
LEMMA TotalOne ==
    ASSUME NEW L \in Seq(Nat), NEW i \in Positions(L)
    PROVE  TotalLength(L, <<i>>) = L[i]
<1>1. ToSet(<<i>>) = {i}
  BY DEF ToSet
<1>2. <<i>> \in Seq(Positions(L))
  OBVIOUS
<1>3. PICK N, s : N = Positions(L) /\ s = {i}
  OBVIOUS
<1>4. IsFiniteSet(N) /\ L \in [N -> Nat] /\ s \in SUBSET N /\ i \in s
  BY <1>2, <1>3, TotalType
<1>5. Weight(L, s) = L[i] + Weight(L, s \ {i})
  BY <1>4, WeightRemove
<1>6. s \ {i} = {} /\ Weight(L, {}) = 0 /\ L[i] \in Nat
  BY <1>3, <1>4, WeightType
<1>7. TotalLength(L, <<i>>) = Weight(L, s)
  BY <1>1, <1>2, <1>3, TotalType
<1> QED
  <2>1. PICK x \in Nat : x = L[i]
    BY <1>6
  <2>2. Weight(L, s) = x + 0
    BY <1>5, <1>6, <2>1
  <2> QED
    BY <1>7, <2>1, <2>2

\* and of one with none.
LEMMA TotalNone ==
    ASSUME NEW L \in Seq(Nat)
    PROVE  TotalLength(L, <<>>) = 0
<1>1. ToSet(<<>>) = {}
  BY DEF ToSet
<1>2. <<>> \in Seq(Positions(L))
  OBVIOUS
<1>3. PICK N : N = Positions(L)
  OBVIOUS
<1>4. IsFiniteSet(N) /\ L \in [N -> Nat]
  BY <1>2, <1>3, TotalType
<1>a. PICK s \in SUBSET N : TRUE
  OBVIOUS
<1>5. Weight(L, {}) = 0
  BY <1>4, <1>a, WeightType
<1> QED
  BY <1>1, <1>2, <1>5, TotalType

\* A pool of the states made of raw[1], ..., raw[n].
MadeOf(L, k, d, e, n, raw, P) ==
    /\ n \in Nat \ {0} /\ raw \in [1 .. n -> Unsorted(L, k, d, e)]
    /\ \A g, h \in 1 .. n : g # h => ItemsOf(raw[g]) \cap ItemsOf(raw[h]) = {}
    /\ \A v \in Positions(L) : \E g \in 1 .. n : v \in ItemsOf(raw[g])
    /\ P = {Decreasing(L, raw[g]) : g \in 1 .. n}

\* Good states that share nothing and have all items are a good pool.
LEMMA PoolOf ==
    ASSUME NEW L \in Seq(Nat), NEW k \in Nat \ {0}, NEW d \in Nat, NEW e \in BOOLEAN,
           NEW n, NEW raw, NEW P, MadeOf(L, k, d, e, n, raw, P)
    PROVE  \E m \in Nat \ {0} : GoodPool(L, k, d, e, P, m)
<1>0. /\ n \in Nat \ {0} /\ raw \in [1 .. n -> Unsorted(L, k, d, e)]
      /\ \A g, h \in 1 .. n : g # h => ItemsOf(raw[g]) \cap ItemsOf(raw[h]) = {}
      /\ \A v \in Positions(L) : \E g \in 1 .. n : v \in ItemsOf(raw[g])
      /\ P = {Decreasing(L, raw[g]) : g \in 1 .. n}
  BY DEF MadeOf
<1>1. ASSUME NEW g \in 1 .. n
      PROVE  /\ Decreasing(L, raw[g]) \in Good(L, k, d, e)
             /\ ItemsOf(Decreasing(L, raw[g])) = ItemsOf(raw[g])
  <2>1. PICK r \in Unsorted(L, k, d, e) : r = raw[g]
    BY <1>0
  <2> QED
    BY <2>1, GoodFrom
<1>2. PICK N, f : N = 1 .. n /\ f = [g \in N |-> Decreasing(L, raw[g])]
  OBVIOUS
<1>3. f \in Surjection(N, P)
  BY <1>0, <1>2 DEF Surjection
<1>4. IsFiniteSet(N)
  BY <1>0, <1>2, FirstNumbers
<1>5. IsFiniteSet(P)
  BY <1>3, <1>4, FS_Surjection
<1>6. P \in SUBSET Good(L, k, d, e) /\ P # {}
  BY <1>0, <1>1
<1>7. Apart(P)
  <2> SUFFICES ASSUME NEW s \in P, NEW t \in P, s # t PROVE ItemsOf(s) \cap ItemsOf(t) = {}
    BY DEF Apart
  <2>1. PICK g, h \in 1 .. n : s = Decreasing(L, raw[g]) /\ t = Decreasing(L, raw[h])
    BY <1>0
  <2>2. g # h /\ ItemsOf(s) = ItemsOf(raw[g]) /\ ItemsOf(t) = ItemsOf(raw[h])
    BY <1>1, <2>1
  <2> QED
    BY <1>0, <2>2
<1>8. UNION {ItemsOf(s) : s \in P} = Positions(L)
  <2>1. ASSUME NEW v \in Positions(L) PROVE \E s \in P : v \in ItemsOf(s)
    <3>1. PICK g \in 1 .. n : v \in ItemsOf(raw[g])
      BY <1>0
    <3>2. Decreasing(L, raw[g]) \in P /\ v \in ItemsOf(Decreasing(L, raw[g]))
      BY <1>0, <1>1, <3>1
    <3> QED
      BY <3>2
  <2>2. ASSUME NEW s \in P, NEW v \in ItemsOf(s) PROVE v \in Positions(L)
    <3>1. s \in Lists(L, k)
      BY <1>6, GoodType
    <3>2. PICK i \in 1 .. k : \E x \in DOMAIN s[i] : s[i][x] = v
      BY <3>1, ItemOf
    <3> QED
      BY <3>1, <3>2, ListsTypes
  <2> QED
    BY <2>1, <2>2
<1>9. Cardinality(P) \in Nat \ {0}
  BY <1>5, <1>6, FS_CardinalityType, FS_EmptySet
<1>10. GoodPool(L, k, d, e, P, Cardinality(P))
  BY <1>5, <1>6, <1>7, <1>8 DEF GoodPool
<1> QED
  BY <1>9, <1>10

\* The heap starts with a good pool: of one item each,
LEMMA StartOneEach ==
    ASSUME NEW L \in Seq(Nat), L # <<>>, NEW k \in Nat \ {0}, NEW d \in Nat,
           \A i \in Positions(L) : L[i] <= d
    PROVE  \E m \in Nat \ {0} : GoodPool(L, k, d, FALSE, States(L, k, FALSE), m)
<1>1. PICK n \in Nat \ {0} : n = Len(L) /\ DOMAIN L = 1 .. n /\ Positions(L) = 1 .. n
  BY DEF Positions
<1> DEFINE Alone(g) == [i \in 1 .. k |-> IF i = 1 THEN <<g>> ELSE <<>>]
<1>2. PICK raw : raw = [g \in 1 .. n |-> Alone(g)]
  OBVIOUS
<1>3. PICK e \in BOOLEAN : e = FALSE
  OBVIOUS
<1>4. PICK P : P = States(L, k, FALSE)
  OBVIOUS
<1>5. P = {Decreasing(L, raw[g]) : g \in 1 .. n}
  <2>1. P = {Decreasing(L, Alone(g)) : g \in 1 .. n}
    BY <1>1, <1>4 DEF States
  <2>2. \A g \in 1 .. n : raw[g] = Alone(g)
    BY <1>2
  <2> HIDE DEF Alone
  <2> QED
    BY <2>1, <2>2
<1>6. ASSUME NEW g \in 1 .. n
      PROVE  raw[g] \in Unsorted(L, k, d, e) /\ ItemsOf(raw[g]) = {g}
  <2>1. PICK r : r = Alone(g)
    OBVIOUS
  <2>2. r = raw[g]
    BY <1>2, <2>1
  <2>3. DOMAIN r = 1 .. k /\ \A i \in 1 .. k : r[i] = IF i = 1 THEN <<g>> ELSE <<>>
    BY <2>1
  <2>a. \A i \in 1 .. k : r[i] \in Seq(Positions(L))
    <3>1. <<g>> \in Seq(Positions(L)) /\ <<>> \in Seq(Positions(L))
      BY <1>1
    <3> QED
      BY <2>3, <3>1
  <2>b. r \in [1 .. k -> Seq(Positions(L))]
    BY <2>1, <2>a
  <2>4. r \in Lists(L, k)
    BY <2>b DEF Lists
  <2>5. /\ r[1] = <<g>> /\ 1 \in 1 .. k
        /\ \A i \in 1 .. k : \A x \in DOMAIN r[i] : i = 1 /\ x = 1 /\ r[i][x] = g
    BY <2>3
  <2>6. Once(r)
    BY <2>3, <2>5 DEF Once
  <2>7. ItemsOf(r) = {g}
    <3>1. ASSUME NEW v \in ItemsOf(r) PROVE v = g
      BY <2>4, <2>5, <3>1, ItemOf
    <3>2. 1 \in DOMAIN r[1] /\ r[1][1] = g
      BY <2>5
    <3>3. g \in ItemsOf(r)
      BY <2>4, <2>5, <3>2, ItemOf
    <3> QED
      BY <3>1, <3>3
  <2>8. PICK x, y \in Nat : x = TotalLength(L, <<g>>) /\ y = TotalLength(L, <<>>) /\ y = 0 /\ x <= d
    <3>1. TotalLength(L, <<g>>) = L[g] /\ TotalLength(L, <<>>) = 0 /\ L[g] \in Nat /\ L[g] <= d
      BY <1>1, TotalOne, TotalNone
    <3> QED
      BY <3>1
  <2>9. \A i \in 1 .. k : TotalLength(L, r[i]) = x \/ TotalLength(L, r[i]) = y
    BY <2>3, <2>8
  <2>10. Within(L, r, d)
    BY <2>3, <2>8, <2>9 DEF Within
  <2>11. r \in Unsorted(L, k, d, e)
    BY <1>3, <2>4, <2>6, <2>7, <2>10 DEF Unsorted
  <2> QED
    BY <2>2, <2>7, <2>11
<1>7. raw \in [1 .. n -> Unsorted(L, k, d, e)]
  BY <1>2, <1>6
<1>9. \A g, h \in 1 .. n : g # h => ItemsOf(raw[g]) \cap ItemsOf(raw[h]) = {}
  BY <1>6
<1>10. \A v \in Positions(L) : \E g \in 1 .. n : v \in ItemsOf(raw[g])
  BY <1>1, <1>6
<1>13. \E m \in Nat \ {0} : GoodPool(L, k, d, e, P, m)
  <2>1. MadeOf(L, k, d, e, n, raw, P)
    BY <1>5, <1>7, <1>9, <1>10 DEF MadeOf
  <2> QED
    BY <2>1, PoolOf
<1> QED
  BY <1>3, <1>4, <1>13

\* or of k neighbours in the order of their lengths.
LEMMA StartGroups ==
    ASSUME NEW L \in Seq(Nat), L # <<>>, NEW k \in Nat \ {0}, Len(L) % k = 0, NEW d \in Nat,
           \A i, j \in Positions(L) : L[i] <= L[j] + d
    PROVE  \E m \in Nat \ {0} : GoodPool(L, k, d, TRUE, States(L, k, TRUE), m)
<1>1. PICK n \in Nat \ {0} : n = Len(L) /\ DOMAIN L = 1 .. n /\ Positions(L) = 1 .. n
  BY DEF Positions
<1>2. PICK q \in Nat \ {0} : q = n \div k /\ n = q * k
  <2>1. PICK c \in Nat : c = n \div k
    BY Dividing
  <2>2. n = c * k
    BY <1>1, <2>1, Dividing
  <2>3. c # 0
    BY <1>1, <2>2
  <2> QED
    BY <2>1, <2>2, <2>3
<1>3. PICK sorted : sorted = Shortest(L)
  OBVIOUS
<1>4. /\ \A x \in 1 .. n : sorted[x] \in 1 .. n
      /\ \A x, y \in 1 .. n : sorted[x] = sorted[y] => x = y
      /\ \A i \in 1 .. n : \E x \in 1 .. n : sorted[x] = i
  <2>1. Permutes(sorted, n)
    BY <1>1, <1>3, ShortestFirst
  <2> QED
    BY <2>1 DEF Permutes
<1> DEFINE Group(g) == [i \in 1 .. k |-> <<sorted[(g - 1) * k + i]>>]
<1>5. PICK raw : raw = [g \in 1 .. q |-> Group(g)]
  OBVIOUS
<1>6. PICK e \in BOOLEAN : e = TRUE
  OBVIOUS
<1>7. PICK P : P = States(L, k, TRUE)
  OBVIOUS
<1>8. P = {Decreasing(L, raw[g]) : g \in 1 .. q}
  <2>1. States(L, k, TRUE) =
          {Decreasing(L, [i \in 1 .. k |-> <<Shortest(L)[(g - 1) * k + i]>>]) : g \in 1 .. Len(L) \div k}
    BY DEF States
  <2>2. P = {Decreasing(L, Group(g)) : g \in 1 .. q}
    <3>1. Len(L) \div k = q /\ Shortest(L) = sorted
      BY <1>1, <1>2, <1>3
    <3>2. \A g : Group(g) = [i \in 1 .. k |-> <<Shortest(L)[(g - 1) * k + i]>>]
      BY <3>1
    <3> HIDE DEF Group
    <3> QED
      BY <1>7, <2>1, <3>1, <3>2
  <2>3. \A g \in 1 .. q : raw[g] = Group(g)
    BY <1>5
  <2> HIDE DEF Group
  <2> QED
    BY <2>2, <2>3
<1>9. /\ \A g \in 1 .. q, i \in 1 .. k : (g - 1) * k + i \in 1 .. n
      /\ \A g, h \in 1 .. q, i, j \in 1 .. k :
            (g - 1) * k + i = (h - 1) * k + j => g = h /\ i = j
      /\ \A x \in 1 .. n : \E g \in 1 .. q, i \in 1 .. k : x = (g - 1) * k + i
  <2>1. Numbered(n, k, q)
    BY <1>2, RowByRow
  <2> QED
    BY <2>1 DEF Numbered
<1>10. PICK item : item = [g \in 1 .. q |-> [i \in 1 .. k |-> sorted[(g - 1) * k + i]]]
  OBVIOUS
<1>11. \A g \in 1 .. q, i \in 1 .. k : item[g][i] = sorted[(g - 1) * k + i]
  BY <1>10
<1>12. \A g \in 1 .. q, i \in 1 .. k : item[g][i] \in 1 .. n
  <2> TAKE g \in 1 .. q, i \in 1 .. k
  <2>1. PICK x \in 1 .. n : x = (g - 1) * k + i
    BY <1>9
  <2> QED
    BY <1>4, <1>11, <2>1
<1>13. \A g, h \in 1 .. q, i, j \in 1 .. k : item[g][i] = item[h][j] => g = h /\ i = j
  <2> TAKE g, h \in 1 .. q, i, j \in 1 .. k
  <2>1. PICK x \in 1 .. n : x = (g - 1) * k + i
    BY <1>9
  <2>2. PICK y \in 1 .. n : y = (h - 1) * k + j
    BY <1>9
  <2>3. item[g][i] = sorted[x] /\ item[h][j] = sorted[y]
    BY <1>11, <2>1, <2>2
  <2>4. sorted[x] = sorted[y] => x = y
    BY <1>4
  <2>5. item[g][i] = item[h][j] => x = y
    BY <2>3, <2>4
  <2>6. x = y => g = h /\ i = j
    <3>1. x = y => (g - 1) * k + i = (h - 1) * k + j
      BY <2>1, <2>2
    <3> QED
      BY <1>9, <3>1
  <2> QED
    BY <2>5, <2>6
<1>14. \A v \in 1 .. n : \E g \in 1 .. q, i \in 1 .. k : item[g][i] = v
  <2> TAKE v \in 1 .. n
  <2>1. PICK x \in 1 .. n : sorted[x] = v
    BY <1>4
  <2>2. PICK g \in 1 .. q, i \in 1 .. k : x = (g - 1) * k + i
    BY <1>9
  <2>3. item[g][i] = v
    BY <1>11, <2>1, <2>2
  <2> QED
    BY <2>3
<1>15. \A g \in 1 .. q : DOMAIN raw[g] = 1 .. k /\ \A i \in 1 .. k : raw[g][i] = <<item[g][i]>>
  BY <1>5, <1>11
<1>16. ASSUME NEW g \in 1 .. q
       PROVE  /\ raw[g] \in Unsorted(L, k, d, e)
              /\ ItemsOf(raw[g]) = {item[g][i] : i \in 1 .. k}
  <2>1. PICK r : r = [i \in 1 .. k |-> <<item[g][i]>>]
    OBVIOUS
  <2>2. r = raw[g]
    <3>1. raw[g] = [i \in 1 .. k |-> raw[g][i]]
      BY <1>5
    <3> QED
      BY <1>15, <2>1, <3>1
  <2>3. DOMAIN r = 1 .. k /\ \A i \in 1 .. k : r[i] = <<item[g][i]>> /\ item[g][i] \in Positions(L)
    BY <1>1, <1>12, <2>1
  <2>a. \A i \in 1 .. k : r[i] \in Seq(Positions(L))
    <3> TAKE i \in 1 .. k
    <3>1. PICK v \in Positions(L) : v = item[g][i]
      BY <2>3
    <3>2. <<v>> \in Seq(Positions(L)) /\ r[i] = <<v>>
      BY <2>3, <3>1
    <3> QED
      BY <3>2
  <2>b. r \in [1 .. k -> Seq(Positions(L))]
    BY <2>1, <2>a
  <2>4. r \in Lists(L, k)
    BY <2>b DEF Lists
  <2>5. \A i \in 1 .. k : /\ 1 \in DOMAIN r[i] /\ r[i][1] = item[g][i]
                          /\ \A x \in DOMAIN r[i] : x = 1 /\ r[i][x] = item[g][i]
    BY <2>3
  <2>6. Once(r)
    <3> SUFFICES ASSUME NEW i \in 1 .. k, NEW j \in 1 .. k, NEW x \in DOMAIN r[i],
                        NEW y \in DOMAIN r[j], r[i][x] = r[j][y]
                 PROVE  i = j /\ x = y
      BY <2>3 DEF Once
    <3>1. x = 1 /\ y = 1 /\ item[g][i] = item[g][j]
      BY <2>5
    <3> QED
      BY <1>13, <3>1
  <2>c. ASSUME NEW v PROVE v \in ItemsOf(r) <=> \E i \in 1 .. k : v = item[g][i]
    BY <2>4, <2>5, ItemOf
  <2>7. ItemsOf(r) = {item[g][i] : i \in 1 .. k}
    BY <2>c
  <2>8. ItemsOf(r) # {}
    <3>1. item[g][1] \in {item[g][i] : i \in 1 .. k}
      OBVIOUS
    <3> QED
      BY <2>7, <3>1
  <2>9. Within(L, r, d)
    <3> SUFFICES ASSUME NEW i \in 1 .. k, NEW j \in 1 .. k
                 PROVE  TotalLength(L, r[i]) <= TotalLength(L, r[j]) + d
      BY <2>3 DEF Within
    <3>1. PICK v, w \in Positions(L) : v = item[g][i] /\ w = item[g][j]
      BY <2>3
    <3>2. TotalLength(L, r[i]) = L[v] /\ TotalLength(L, r[j]) = L[w]
      BY <2>3, <3>1, TotalOne
    <3>3. L[v] \in Nat /\ L[w] \in Nat /\ L[v] <= L[w] + d
      BY <1>1
    <3> QED
      BY <3>2, <3>3
  <2>10. Even(r)
    BY <2>3 DEF Even
  <2>11. r \in Unsorted(L, k, d, e)
    BY <1>6, <2>4, <2>6, <2>8, <2>9, <2>10 DEF Unsorted
  <2> QED
    BY <2>2, <2>7, <2>11
<1>17. raw \in [1 .. q -> Unsorted(L, k, d, e)]
  BY <1>5, <1>16
<1>18. \A g, h \in 1 .. q : g # h => ItemsOf(raw[g]) \cap ItemsOf(raw[h]) = {}
  <2> SUFFICES ASSUME NEW g \in 1 .. q, NEW h \in 1 .. q, g # h, NEW v \in ItemsOf(raw[g]),
                      v \in ItemsOf(raw[h])
               PROVE  FALSE
    OBVIOUS
  <2>a. v \in {item[g][i] : i \in 1 .. k}
    BY <1>16
  <2>b. v \in {item[h][i] : i \in 1 .. k}
    BY <1>16
  <2>1. PICK i \in 1 .. k : v = item[g][i]
    BY <2>a
  <2>2. PICK j \in 1 .. k : v = item[h][j]
    BY <2>b
  <2> QED
    BY <1>13, <2>1, <2>2
<1>19. \A v \in Positions(L) : \E g \in 1 .. q : v \in ItemsOf(raw[g])
  <2> TAKE v \in Positions(L)
  <2>1. PICK g \in 1 .. q, i \in 1 .. k : item[g][i] = v
    BY <1>1, <1>14
  <2>2. v \in ItemsOf(raw[g])
    BY <1>16, <2>1
  <2> QED
    BY <2>2
<1>20. MadeOf(L, k, d, e, q, raw, P)
  BY <1>8, <1>17, <1>18, <1>19 DEF MadeOf
<1>21. \E m \in Nat \ {0} : GoodPool(L, k, d, e, P, m)
  BY <1>20, PoolOf
<1> QED
  BY <1>6, <1>7, <1>21

-----------------------------------------------------------------------------
(* karmarkar_karp.                                                           *)

Pools(f, L, start, m) ==
    f = [n \in 0 .. m |-> IF n = 0 THEN start ELSE NextPool(L, f[n - 1])]

\* The pools are what the recursion says.
LEMMA PoolsExist ==
    ASSUME NEW L, NEW start, NEW m \in Nat
    PROVE  \E f : Pools(f, L, start, m)
<1> DEFINE T == {n \in Nat : ~ \E f : Pools(f, L, start, n)}
<1>1. CASE T = {}
  BY <1>1
<1>2. CASE T # {}
  <2>1. PICK n \in T : \A i \in T : n <= i
    <3> HIDE DEF T
    <3>1. T \in SUBSET Nat
      BY DEF T
    <3> QED
      BY <1>2, <3>1, LeastNumber
  <2>2. n \in Nat /\ ~ \E f : Pools(f, L, start, n)
    BY <2>1
  <2>3. CASE n = 0
    <3>1. PICK f : f = [i \in 0 .. n |-> start]
      OBVIOUS
    <3>2. \A i \in 0 .. n : i = 0
      BY <2>3
    <3>3. f = [i \in 0 .. n |-> IF i = 0 THEN start ELSE NextPool(L, f[i - 1])]
      BY <3>1, <3>2
    <3> QED
      BY <2>2, <3>3 DEF Pools
  <2>4. CASE n # 0
    <3>1. n - 1 \in Nat /\ n - 1 < n
      BY <2>2, <2>4
    <3>2. n - 1 \notin T
      <4> HIDE DEF T
      <4> QED
        BY <2>1, <2>2, <3>1
    <3>3. PICK f : Pools(f, L, start, n - 1)
      BY <3>1, <3>2
    <3>4. PICK g : g = [i \in 0 .. n |-> IF i = 0 THEN start ELSE NextPool(L, f[i - 1])]
      OBVIOUS
    <3>5. \A i \in 0 .. (n - 1) : g[i] = f[i]
      <4> TAKE i \in 0 .. (n - 1)
      <4>1. f[i] = IF i = 0 THEN start ELSE NextPool(L, f[i - 1])
        BY <3>3 DEF Pools
      <4>2. i \in 0 .. n
        BY <2>2
      <4> QED
        BY <3>4, <4>1, <4>2
    <3>6. \A i \in 0 .. n : g[i] = IF i = 0 THEN start ELSE NextPool(L, g[i - 1])
      <4> TAKE i \in 0 .. n
      <4>1. CASE i = 0
        BY <3>4, <4>1
      <4>2. CASE i # 0
        <5>1. i - 1 \in 0 .. (n - 1)
          BY <2>2, <4>2
        <5>2. g[i - 1] = f[i - 1]
          BY <3>5, <5>1
        <5>3. g[i] = NextPool(L, f[i - 1])
          BY <3>4, <4>2
        <5> QED
          BY <4>2, <5>2, <5>3
      <4> QED
        BY <4>1, <4>2
    <3>7. g = [i \in 0 .. n |-> g[i]]
      BY <3>4
    <3>8. g = [i \in 0 .. n |-> IF i = 0 THEN start ELSE NextPool(L, g[i - 1])]
      BY <3>6, <3>7
    <3> QED
      BY <2>2, <3>8 DEF Pools
  <2> QED
    BY <2>3, <2>4
<1> QED
  BY <1>1, <1>2

\* After n merges n states fewer are left.
LEMMA PoolsGood ==
    ASSUME NEW L \in Seq(Nat), NEW k \in Nat \ {0}, NEW d \in Nat, NEW e \in BOOLEAN,
           NEW start, NEW m \in Nat \ {0}, GoodPool(L, k, d, e, start, m),
           NEW f, Pools(f, L, start, m - 1)
    PROVE  \A n \in 0 .. (m - 1) : GoodPool(L, k, d, e, f[n], m - n)
<1> DEFINE T == {n \in 0 .. (m - 1) : ~GoodPool(L, k, d, e, f[n], m - n)}
<1>1. CASE T = {}
  BY <1>1
<1>2. CASE T # {}
  <2>1. PICK n \in T : \A i \in T : n <= i
    <3> HIDE DEF T
    <3>1. T \in SUBSET Nat
      BY DEF T
    <3> QED
      BY <1>2, <3>1, LeastNumber
  <2>2. n \in 0 .. (m - 1) /\ ~GoodPool(L, k, d, e, f[n], m - n)
    BY <2>1
  <2>3. f[n] = IF n = 0 THEN start ELSE NextPool(L, f[n - 1])
    BY <2>2 DEF Pools
  <2>4. n # 0
    <3> SUFFICES ASSUME n = 0 PROVE FALSE
      OBVIOUS
    <3>1. f[n] = start /\ m - n = m
      BY <2>3
    <3> QED
      BY <2>2, <3>1
  <2>5. n - 1 \in 0 .. (m - 1) /\ n - 1 < n
    BY <2>2, <2>4
  <2>6. n - 1 \notin T
    <3> HIDE DEF T
    <3> QED
      BY <2>1, <2>2, <2>5
  <2>7. PICK c \in Nat : c = m - (n - 1) /\ c >= 2 /\ m - n = c - 1
    BY <2>2, <2>4
  <2>8. GoodPool(L, k, d, e, f[n - 1], c)
    BY <2>5, <2>6, <2>7
  <2>9. GoodPool(L, k, d, e, NextPool(L, f[n - 1]), c - 1)
    BY <2>7, <2>8, PoolShrinks
  <2> QED
    BY <2>2, <2>3, <2>4, <2>7, <2>9
<1> QED
  BY <1>1, <1>2

\* The state that is left is good and has all items.
LEMMA LastState ==
    ASSUME NEW L \in Seq(Nat), NEW k \in Nat \ {0}, NEW d \in Nat, NEW e \in BOOLEAN,
           NEW m \in Nat \ {0}, GoodPool(L, k, d, e, States(L, k, e), m)
    PROVE  /\ KarmarkarKarp(L, k, e) \in Good(L, k, d, e)
           /\ ItemsOf(KarmarkarKarp(L, k, e)) = Positions(L)
<1>1. PICK start : start = States(L, k, e)
  OBVIOUS
<1>2. Cardinality(start) = m
  BY <1>1 DEF GoodPool
<1>3. PICK c \in Nat : c = m - 1
  OBVIOUS
<1>4. PICK f : f = CHOOSE g : Pools(g, L, start, c)
  OBVIOUS
<1>5. Pools(f, L, start, c)
  BY <1>3, <1>4, PoolsExist
<1>6. GoodPool(L, k, d, e, f[c], 1)
  <2>1. c \in 0 .. (m - 1) /\ m - c = 1
    BY <1>3
  <2>2. Pools(f, L, start, m - 1) /\ GoodPool(L, k, d, e, start, m)
    BY <1>1, <1>3, <1>5
  <2>3. GoodPool(L, k, d, e, f[c], m - c)
    BY <2>1, <2>2, PoolsGood
  <2> QED
    BY <2>1, <2>3
<1>7. KarmarkarKarp(L, k, e) = CHOOSE s \in f[c] : TRUE
  BY <1>1, <1>2, <1>3, <1>4 DEF KarmarkarKarp, Pools, NextPool
<1>8. /\ f[c] \in SUBSET Good(L, k, d, e)
      /\ IsFiniteSet(f[c]) /\ Cardinality(f[c]) = 1
      /\ UNION {ItemsOf(s) : s \in f[c]} = Positions(L)
  BY <1>6 DEF GoodPool
<1>9. PICK s : f[c] = {s}
  BY <1>8, FS_Singleton
<1>10. KarmarkarKarp(L, k, e) = s
  BY <1>7, <1>9
<1>11. s \in Good(L, k, d, e) /\ ItemsOf(s) = Positions(L)
  BY <1>8, <1>9
<1> QED
  BY <1>10, <1>11

-----------------------------------------------------------------------------
(* get_seqlen_balanced_partitions.                                           *)

\* Every one of the n items is in one partition, once.
Partition(parts, n) ==
    /\ \A i \in DOMAIN parts : parts[i] \in Seq(1 .. n)
    /\ Once(parts)
    /\ \A v \in 1 .. n : \E i \in DOMAIN parts : \E x \in DOMAIN parts[i] : parts[i][x] = v

Alike(L, k, parts, st) ==
    \A i \in 1 .. k : /\ Len(parts[i]) = Len(st[i])
                      /\ TotalLength(L, parts[i]) = TotalLength(L, st[i])

\* Its sets, sorted, are the partitions.
LEMMA PartitionsOfState ==
    ASSUME NEW L \in Seq(Nat), NEW k \in Nat \ {0}, NEW st \in Lists(L, k), Once(st),
           ItemsOf(st) = Positions(L), NEW parts, parts = [i \in 1 .. k |-> Ascending(st[i])]
    PROVE  Partition(parts, Len(L)) /\ Alike(L, k, parts, st)
<1>1. PICK n \in Nat : n = Len(L) /\ Positions(L) = 1 .. n
  BY DEF Positions
<1>2. DOMAIN st = 1 .. k /\ DOMAIN parts = 1 .. k
  BY ListsTypes
<1>3. ASSUME NEW i \in 1 .. k
      PROVE  /\ parts[i] \in Seq(1 .. n) /\ st[i] \in Seq(1 .. n) /\ Len(parts[i]) = Len(st[i])
             /\ ToSet(parts[i]) = ToSet(st[i])
             /\ \A x, y \in DOMAIN parts[i] : parts[i][x] = parts[i][y] => x = y
  <2>1. PICK a : a = st[i]
    OBVIOUS
  <2>2. a \in Seq(1 .. n)
    BY <1>1, <2>1, ListsTypes
  <2>3. \A x, y \in DOMAIN a : a[x] = a[y] => x = y
    BY <1>2, <2>1 DEF Once
  <2>4. parts[i] = Ascending(a)
    BY <2>1
  <2> QED
    BY <2>1, <2>2, <2>3, <2>4, AscendingItems
<1>4. \A i \in 1 .. k : \A x \in DOMAIN parts[i] : \E y \in DOMAIN st[i] : parts[i][x] = st[i][y]
  <2> TAKE i \in 1 .. k
  <2> TAKE x \in DOMAIN parts[i]
  <2>0. parts[i][x] \in ToSet(parts[i])
    BY DEF ToSet
  <2>1. parts[i][x] \in ToSet(st[i])
    BY <1>3, <2>0
  <2> QED
    BY <2>1 DEF ToSet
<1>5. Once(parts)
  <2> SUFFICES ASSUME NEW i \in 1 .. k, NEW j \in 1 .. k, NEW x \in DOMAIN parts[i],
                      NEW y \in DOMAIN parts[j], parts[i][x] = parts[j][y]
               PROVE  i = j /\ x = y
    BY <1>2 DEF Once
  <2>1. PICK u \in DOMAIN st[i] : parts[i][x] = st[i][u]
    BY <1>4
  <2>2. PICK v \in DOMAIN st[j] : parts[j][y] = st[j][v]
    BY <1>4
  <2>3. i \in DOMAIN st /\ j \in DOMAIN st /\ st[i][u] = st[j][v]
    BY <1>2, <2>1, <2>2
  <2>4. i = j
    BY <2>3 DEF Once
  <2> QED
    BY <1>3, <2>4
<1>6. ASSUME NEW v \in 1 .. n PROVE \E i \in 1 .. k : \E x \in DOMAIN parts[i] : parts[i][x] = v
  <2>1. PICK i \in 1 .. k : \E x \in DOMAIN st[i] : st[i][x] = v
    BY <1>1, ItemOf
  <2>a. v \in ToSet(st[i])
    BY <2>1 DEF ToSet
  <2>2. v \in ToSet(parts[i])
    BY <1>3, <2>a
  <2>3. \E x \in DOMAIN parts[i] : parts[i][x] = v
    BY <2>2 DEF ToSet
  <2> QED
    BY <2>3
<1>7. Partition(parts, n)
  BY <1>2, <1>3, <1>5, <1>6 DEF Partition
<1>8. ASSUME NEW i \in 1 .. k PROVE TotalLength(L, parts[i]) = TotalLength(L, st[i])
  BY <1>3, TotalIsWeight
<1>9. Alike(L, k, parts, st)
  BY <1>3, <1>8 DEF Alike
<1> QED
  BY <1>1, <1>7, <1>9

PartitionsOf(parts, L, k) ==
    parts \in Seq(Seq(DOMAIN L)) /\ Len(parts) = k /\ Partition(parts, Len(L))

BalancedInto(parts, L, k, d, e) ==
    /\ PartitionsOf(parts, L, k)
    /\ \A i, j \in 1 .. k :
         /\ TotalLength(L, parts[i]) <= TotalLength(L, parts[j]) + d
         /\ e => Len(parts[i]) = Len(parts[j])

\* What is left of a good pool is cut into partitions no more than d apart.
LEMMA PartitionsFrom ==
    ASSUME NEW L \in Seq(Nat), L # <<>>, NEW k \in Nat \ {0}, NEW d \in Nat, NEW e \in BOOLEAN,
           NEW m \in Nat \ {0}, GoodPool(L, k, d, e, States(L, k, e), m),
           NEW parts, parts = BalancedPartitions(L, k, e)
    PROVE  BalancedInto(parts, L, k, d, e)
<1>1. PICK n \in Nat : n = Len(L) /\ DOMAIN L = 1 .. n /\ Positions(L) = 1 .. n
  BY DEF Positions
<1>3. PICK st : st = KarmarkarKarp(L, k, e)
  OBVIOUS
<1>4. st \in Good(L, k, d, e) /\ ItemsOf(st) = Positions(L)
  BY <1>3, LastState
<1>5. st \in Lists(L, k) /\ Once(st) /\ DOMAIN st = 1 .. k
  BY <1>4, GoodType, ListsTypes DEF IsState
<1>6. parts = [i \in 1 .. k |-> Ascending(st[i])]
  BY <1>3 DEF BalancedPartitions
<1>a. Partition(parts, Len(L)) /\ Alike(L, k, parts, st)
  BY <1>4, <1>5, <1>6, PartitionsOfState
<1>7. /\ Partition(parts, Len(L))
      /\ \A i \in 1 .. k : Len(parts[i]) = Len(st[i]) /\ TotalLength(L, parts[i]) = TotalLength(L, st[i])
  BY <1>a DEF Alike
<1>8. parts \in Seq(Seq(DOMAIN L)) /\ Len(parts) = k
  <2>1. \A i \in 1 .. k : parts[i] \in Seq(DOMAIN L)
    BY <1>1, <1>6, <1>7 DEF Partition
  <2>2. parts \in [1 .. k -> Seq(DOMAIN L)]
    BY <1>6, <2>1
  <2> QED
    BY <2>2
<1>9. \A i, j \in 1 .. k : TotalLength(L, parts[i]) <= TotalLength(L, parts[j]) + d
  BY <1>4, <1>7, GoodType
<1>10. ASSUME e, NEW i \in 1 .. k, NEW j \in 1 .. k PROVE Len(parts[i]) = Len(parts[j])
  <2>1. Even(st)
    BY <1>4, <1>10 DEF Good
  <2> QED
    BY <1>5, <1>7, <2>1 DEF Even
<1> QED
  BY <1>7, <1>8, <1>9, <1>10 DEF PartitionsOf, BalancedInto

\* The partitions of get_seqlen_balanced_partitions: k of them, every item in one
\* of them once, their totals no further apart than the longest item is long, and,
\* if asked for, of one size.
THEOREM PartitionsBalanced ==
    ASSUME NEW L \in Seq(Nat), L # <<>>, NEW k \in Nat \ {0}, NEW e \in BOOLEAN,
           e => Len(L) % k = 0, NEW longest \in Nat, \A i \in DOMAIN L : L[i] <= longest,
           NEW parts, parts = BalancedPartitions(L, k, e)
    PROVE  /\ PartitionsOf(parts, L, k)
           /\ \A i, j \in 1 .. k :
                /\ TotalLength(L, parts[i]) <= TotalLength(L, parts[j]) + longest
                /\ e => Len(parts[i]) = Len(parts[j])
<1>1. PICK n \in Nat : n = Len(L) /\ DOMAIN L = 1 .. n /\ Positions(L) = 1 .. n
  BY DEF Positions
<1>2. PICK m \in Nat \ {0} : GoodPool(L, k, longest, e, States(L, k, e), m)
  <2>1. CASE e = TRUE
    <3>1. \A i, j \in Positions(L) : L[i] <= L[j] + longest
      BY <1>1
    <3> QED
      BY <2>1, <3>1, StartGroups
  <2>2. CASE e = FALSE
    BY <1>1, <2>2, StartOneEach
  <2> QED
    BY <2>1, <2>2
<1>3. BalancedInto(parts, L, k, longest, e)
  BY <1>2, PartitionsFrom
<1> QED
  BY <1>3 DEF BalancedInto

\* Those of _balance_batch, which are to be of one size: their totals are no
\* further apart than the longest item is from the shortest.
LEMMA EqualPartitions ==
    ASSUME NEW L \in Seq(Nat), L # <<>>, NEW k \in Nat \ {0}, Len(L) % k = 0,
           NEW spread \in Nat, \A i, j \in DOMAIN L : L[i] <= L[j] + spread
    PROVE  BalancedInto(BalancedPartitions(L, k, TRUE), L, k, spread, TRUE)
<1>1. \A i, j \in Positions(L) : L[i] <= L[j] + spread
  BY DEF Positions
<1>2. PICK m \in Nat \ {0} : GoodPool(L, k, spread, TRUE, States(L, k, TRUE), m)
  BY <1>1, StartGroups
<1>3. PICK e \in BOOLEAN : e = TRUE
  OBVIOUS
<1>4. GoodPool(L, k, spread, e, States(L, k, e), m)
  BY <1>2, <1>3
<1>5. BalancedInto(BalancedPartitions(L, k, e), L, k, spread, e)
  BY <1>4, PartitionsFrom
<1> QED
  BY <1>3, <1>5

\* With equal_size the totals are closer: no further apart than the longest item
\* and the shortest, as every merge adds one item to each set.
THEOREM EqualPartitionsBalanced ==
    ASSUME NEW L \in Seq(Nat), L # <<>>, NEW k \in Nat \ {0}, Len(L) % k = 0,
           NEW spread \in Nat, \A i, j \in DOMAIN L : L[i] <= L[j] + spread,
           NEW parts, parts = BalancedPartitions(L, k, TRUE)
    PROVE  /\ PartitionsOf(parts, L, k)
           /\ \A i, j \in 1 .. k :
                /\ TotalLength(L, parts[i]) <= TotalLength(L, parts[j]) + spread
                /\ Len(parts[i]) = Len(parts[j])
<1>1. BalancedInto(parts, L, k, spread, TRUE)
  BY EqualPartitions
<1> QED
  BY <1>1 DEF BalancedInto

-----------------------------------------------------------------------------
(* rearrange_micro_batches.                                                  *)

\* Division rounded up.
LEMMA CeilDivType ==
    ASSUME NEW a \in Nat, NEW b \in Nat \ {0}
    PROVE  /\ CeilDiv(a, b) \in Nat /\ CeilDiv(a, b) * b >= a
           /\ a > 0 => CeilDiv(a, b) > 0 /\ (CeilDiv(a, b) - 1) * b < a
BY DEF CeilDiv

\* A bounded set of naturals has a largest one.
LEMMA GreatestNumber ==
    ASSUME NEW T \in SUBSET Nat, T # {}, NEW b \in Nat, \A x \in T : x <= b
    PROVE  Max(T) \in T /\ \A x \in T : x <= Max(T)
<1> DEFINE D == {b - x : x \in T}
<1>1. D \in SUBSET Nat /\ D # {}
  <2>1. \A x \in T : b - x \in Nat
    OBVIOUS
  <2> QED
    BY <2>1
<1>2. PICK m \in D : \A y \in D : m <= y
  <2> HIDE DEF D
  <2> QED
    BY <1>1, LeastNumber
<1>3. PICK x \in T : m = b - x
  BY <1>2
<1>4. \A y \in T : x >= y
  <2> TAKE y \in T
  <2>1. b - y \in D
    OBVIOUS
  <2> QED
    BY <1>2, <1>3, <2>1
<1> QED
  BY <1>4 DEF Max

\* A rank would make a micro-batch at least, and no more than it has rows.
LEMMA NumMicroBatchesType ==
    ASSUME NEW L \in Seq(Nat \ {0}), L # <<>>, NEW maxTokens \in Nat \ {0}
    PROVE  NumMicroBatches(L, maxTokens) \in Nat \ {0} /\ NumMicroBatches(L, maxTokens) <= Len(L)
<1>1. PICK n \in Nat \ {0} : n = Len(L) /\ DOMAIN L = 1 .. n /\ Positions(L) = 1 .. n
  BY DEF Positions
<1>2. L \in Seq(Nat) /\ 1 \in 1 .. n /\ L[1] \in Nat \ {0}
  BY <1>1
<1>3. PICK a : a = [i \in DOMAIN L |-> i]
  OBVIOUS
<1>4. a \in Seq(Positions(L)) /\ DOMAIN a = 1 .. n /\ \A i \in 1 .. n : a[i] = i
  BY <1>1, <1>3
<1>5. PICK N : N = Positions(L)
  OBVIOUS
<1>6. ToSet(a) = N
  BY <1>1, <1>4, <1>5 DEF ToSet
<1>7. PICK one : one = 1
  OBVIOUS
<1>8. IsFiniteSet(N) /\ L \in [N -> Nat] /\ N \in SUBSET N /\ one \in N
  BY <1>1, <1>2, <1>4, <1>5, <1>7, TotalType
<1>9. Weight(L, N) = L[one] + Weight(L, N \ {one}) /\ Weight(L, N \ {one}) \in Nat
  BY <1>8, WeightRemove, WeightType
<1>10. PICK t \in Nat \ {0} : t = TotalLength(L, a)
  <2>1. TotalLength(L, a) = Weight(L, N)
    BY <1>2, <1>4, <1>6, TotalType
  <2> QED
    BY <1>2, <1>7, <1>9, <2>1
<1>11. PICK c \in Nat \ {0} : c = CeilDiv(t, maxTokens)
  <2>1. t \in Nat /\ t > 0
    OBVIOUS
  <2>2. CeilDiv(t, maxTokens) \in Nat /\ CeilDiv(t, maxTokens) > 0
    BY <2>1, CeilDivType
  <2> QED
    BY <2>2
<1>12. NumMicroBatches(L, maxTokens) = Min({n, c})
  BY <1>1, <1>3, <1>10, <1>11 DEF NumMicroBatches
<1>13. Min({n, c}) \in {n, c} /\ Min({n, c}) <= n
  <2>1. \E x \in {n, c} : \A y \in {n, c} : x <= y
    OBVIOUS
  <2> QED
    BY <2>1 DEF Min
<1> QED
  BY <1>1, <1>12, <1>13

\* So would all ranks together.
LEMMA AgreedNumberType ==
    ASSUME NEW R, R # {}, NEW n \in Nat \ {0}, NEW Ls \in [R -> Seq(Nat \ {0})],
           \A r \in R : Len(Ls[r]) = n, NEW maxTokens \in Nat \ {0}, NEW group \in Nat \ {0}
    PROVE  AgreedNumber(Ls, maxTokens, group) \in Nat \ {0}
<1> DEFINE T == {NumMicroBatches(Ls[r], maxTokens) : r \in DOMAIN Ls}
<1>1. \A r \in R : /\ NumMicroBatches(Ls[r], maxTokens) \in Nat \ {0}
                   /\ NumMicroBatches(Ls[r], maxTokens) <= n
  <2> TAKE r \in R
  <2>1. PICK L \in Seq(Nat \ {0}) : L = Ls[r] /\ L # <<>> /\ Len(L) = n
    OBVIOUS
  <2> QED
    BY <2>1, NumMicroBatchesType
<1>2. T \in SUBSET Nat /\ T # {} /\ \A x \in T : x <= n /\ x # 0
  BY <1>1
<1>3. PICK U : U = T
  OBVIOUS
<1>4. PICK m \in Nat \ {0} : m = Max(T)
  <2> HIDE DEF T
  <2>1. Max(U) \in U
    BY <1>2, <1>3, GreatestNumber
  <2> QED
    BY <1>2, <1>3, <2>1
<1>5. AgreedNumber(Ls, maxTokens, group) = group * CeilDiv(m, group)
  BY <1>4 DEF AgreedNumber
<1>6. CeilDiv(m, group) \in Nat /\ CeilDiv(m, group) > 0
  <2>1. m \in Nat /\ m > 0
    OBVIOUS
  <2> QED
    BY <2>1, CeilDivType
<1>7. PICK c \in Nat \ {0} : c = CeilDiv(m, group)
  BY <1>6
<1>8. group * c \in Nat \ {0}
  OBVIOUS
<1> QED
  BY <1>5, <1>7, <1>8

\* No item is longer than all together.
LEMMA Longest ==
    ASSUME NEW L \in Seq(Nat)
    PROVE  \E longest \in Nat : \A i \in DOMAIN L : L[i] <= longest
<1>1. PICK N : N = Positions(L) /\ N = DOMAIN L
  BY DEF Positions
<1>2. <<>> \in Seq(Positions(L))
  OBVIOUS
<1>3. IsFiniteSet(N) /\ L \in [N -> Nat] /\ N \in SUBSET N
  BY <1>1, <1>2, TotalType
<1>4. ASSUME NEW i \in N PROVE L[i] <= Weight(L, N)
  <2>1. Weight(L, N) = L[i] + Weight(L, N \ {i})
    BY <1>3, WeightRemove
  <2>2. N \ {i} \in SUBSET N
    OBVIOUS
  <2>3. Weight(L, N \ {i}) \in Nat /\ L[i] \in Nat
    BY <1>3, <2>2, WeightType
  <2> QED
    BY <2>1, <2>3
<1>5. Weight(L, N) \in Nat
  BY <1>3, WeightType
<1> QED
  BY <1>1, <1>4, <1>5

\* One rank's micro-batches: so many, and every row in one of them once.
CutInto(parts, n, k) ==
    k \in Nat \ {0} /\ parts \in Seq(Seq(1 .. n)) /\ Len(parts) = k /\ Partition(parts, n)

\* Each rank's micro-batches are as many as agreed on, and have its rows once,
\* whatever the other ranks' lengths.
LEMMA RearrangedRows ==
    ASSUME NEW R, NEW r \in R, NEW n \in Nat \ {0}, NEW Ls \in [R -> Seq(Nat \ {0})],
           \A s \in R : Len(Ls[s]) = n, NEW maxTokens \in Nat \ {0}, NEW group \in Nat \ {0},
           NEW k, k = AgreedNumber(Ls, maxTokens, group),
           NEW parts, parts = RearrangeMicroBatches(Ls, maxTokens, group)[r]
    PROVE  CutInto(parts, n, k)
<1>1. k \in Nat \ {0}
  BY AgreedNumberType
<1>2. PICK L : L = Ls[r]
  OBVIOUS
<1>3. L \in Seq(Nat \ {0}) /\ L \in Seq(Nat) /\ Len(L) = n /\ L # <<>> /\ DOMAIN L = 1 .. n
  BY <1>2
<1>4. PICK longest \in Nat : \A i \in DOMAIN L : L[i] <= longest
  BY <1>3, Longest
<1>6. parts = BalancedPartitions(L, k, FALSE)
  BY <1>2 DEF RearrangeMicroBatches
<1>8. PartitionsOf(parts, L, k)
  BY <1>1, <1>3, <1>4, <1>6, PartitionsBalanced
<1> QED
  BY <1>1, <1>3, <1>8 DEF PartitionsOf, CutInto
-----------------------------------------------------------------------------
(* Rows by number: so many in a row of pieces of one size.                   *)

LEMMA PlaceOf ==
    ASSUME NEW k \in Nat \ {0}, NEW g \in Nat, NEW j \in 1 .. k, NEW i, i = g * k + j
    PROVE  (i - 1) \div k = g /\ (i - 1) % k = j - 1
<1>1. PICK y \in Nat : y = g * k + (j - 1)
  OBVIOUS
<1>2. i - 1 = y
  BY <1>1
<1>3. PICK a, b \in Nat : a = y \div k /\ b = y % k /\ y = a * k + b /\ b < k
  BY Dividing
<1>4. a = g
  <2>1. CASE a < g
    <3>1. a + 1 <= g
      BY <2>1
    <3>2. (a + 1) * k <= g * k
      BY <3>1
    <3> QED
      BY <1>1, <1>3, <3>2
  <2>2. CASE a > g
    <3>1. g + 1 <= a
      BY <2>2
    <3>2. (g + 1) * k <= a * k
      BY <3>1
    <3> QED
      BY <1>1, <1>3, <3>2
  <2> QED
    BY <2>1, <2>2, <1>3
<1>5. b = j - 1
  BY <1>1, <1>3, <1>4
<1> QED
  BY <1>2, <1>3, <1>4, <1>5

LEMMA RowNumber ==
    ASSUME NEW k \in Nat \ {0}, NEW q \in Nat, NEW x \in 1 .. q * k
    PROVE  \E g \in 1 .. q, j \in 1 .. k : x = (g - 1) * k + j
<1>1. Numbered(q * k, k, q)
  BY RowByRow
<1> DEFINE n == q * k
<1>2. x \in 1 .. n
  OBVIOUS
<1>3. Numbered(n, k, q)
  BY <1>1
<1> HIDE DEF n
<1> QED
  BY <1>2, <1>3 DEF Numbered

LEMMA RowInRange ==
    ASSUME NEW k \in Nat \ {0}, NEW q \in Nat, NEW g \in 1 .. q, NEW j \in 1 .. k
    PROVE  (g - 1) * k + j \in 1 .. q * k
  BY RowByRow DEF Numbered

\* FlattenSeq of pieces of one size.
Flattens(f, s) == f = [i \in 1 .. Len(s) |-> IF i = 1 THEN s[i] ELSE f[i - 1] \o s[i]]
EqualPieces(s, k, q, S) ==
    s \in Seq(Seq(S)) /\ Len(s) = k /\ \A r \in 1 .. k : Len(s[r]) = q
FlatUpto(f, s, q, S, m) ==
    /\ f[m] \in Seq(S) /\ Len(f[m]) = m * q
    /\ \A r \in 1 .. m, j \in 1 .. q : f[m][(r - 1) * q + j] = s[r][j]

LEMMA FlatByPiece ==
    ASSUME NEW S, NEW k \in Nat \ {0}, NEW q \in Nat \ {0}, NEW s, EqualPieces(s, k, q, S),
           NEW f, NEW m \in 2 .. k, FlatUpto(f, s, q, S, m - 1), f[m] = f[m - 1] \o s[m]
    PROVE  FlatUpto(f, s, q, S, m)
<1>1. PICK a, b : a = f[m - 1] /\ b = s[m]
  OBVIOUS
<1>2. a \in Seq(S) /\ b \in Seq(S) /\ Len(a) = (m - 1) * q /\ Len(b) = q
  BY <1>1 DEF FlatUpto, EqualPieces
<1>3. f[m] = a \o b
  BY <1>1
<1>4. f[m] \in Seq(S) /\ Len(f[m]) = m * q
  <2>1. f[m] \in Seq(S) /\ Len(f[m]) = (m - 1) * q + q
    BY <1>2, <1>3, ConcatProperties
  <2> QED
    BY <2>1
<1>5. ASSUME NEW r \in 1 .. m, NEW j \in 1 .. q
      PROVE  f[m][(r - 1) * q + j] = s[r][j]
  <2>1. CASE r = m
    <3>1. PICK x : x = (m - 1) * q /\ x \in Nat
      OBVIOUS
    <3>2. x + j \in Len(a) + 1 .. Len(a) + Len(b)
      BY <1>2, <3>1
    <3>3. (a \o b)[x + j] = b[x + j - Len(a)]
      <4>1. PICK l, n : l = Len(a) /\ n = Len(b) /\ l \in Nat /\ n \in Nat
        BY <1>2
      <4>2. PICK c : c = a \o b
        OBVIOUS
      <4>3. \A i \in 1 .. l + n : c[i] = IF i <= l THEN a[i] ELSE b[i - l]
        BY <1>2, <4>1, <4>2, ConcatProperties
      <4>4. x + j \in 1 .. l + n /\ ~(x + j <= l)
        BY <1>2, <3>1, <4>1
      <4>5. c[x + j] = b[x + j - l]
        <5>1. PICK y \in 1 .. l + n : y = x + j
          BY <4>4
        <5>2. c[y] = IF y <= l THEN a[y] ELSE b[y - l]
          BY <4>3, <5>1
        <5>3. ~(y <= l) /\ c[x + j] = c[y] /\ b[x + j - l] = b[y - l]
          BY <3>1, <4>1, <4>4, <5>1
        <5> QED
          BY <5>2, <5>3
      <4> QED
        BY <4>1, <4>2, <4>5
    <3>4. x + j - Len(a) = j
      BY <1>2, <3>1
    <3> QED
      BY <1>1, <1>3, <2>1, <3>1, <3>3, <3>4
  <2>2. CASE r # m
    <3>1. r \in 1 .. m - 1 /\ m - 1 \in Nat
      BY <2>2
    <3>2. (r - 1) * q + j \in 1 .. (m - 1) * q
      BY <3>1, RowInRange
    <3>3. (a \o b)[(r - 1) * q + j] = a[(r - 1) * q + j]
      BY <1>2, <3>2, ConcatProperties
    <3> QED
      BY <1>1, <1>3, <3>1, <3>3 DEF FlatUpto
  <2> QED
    BY <2>1, <2>2
<1> QED
  BY <1>4, <1>5 DEF FlatUpto

LEMMA FlatFirst ==
    ASSUME NEW S, NEW k \in Nat \ {0}, NEW q \in Nat \ {0}, NEW s, EqualPieces(s, k, q, S),
           NEW f, f[1] = s[1]
    PROVE  FlatUpto(f, s, q, S, 1)
<1>1. s[1] \in Seq(S) /\ Len(s[1]) = q
  BY DEF EqualPieces
<1>2. ASSUME NEW r \in 1 .. 1, NEW j \in 1 .. q PROVE f[1][(r - 1) * q + j] = s[r][j]
  <2>1. r = 1 /\ (r - 1) * q + j = j
    OBVIOUS
  <2> QED
    BY <2>1
<1> QED
  BY <1>1, <1>2 DEF FlatUpto

\* There is such a function,
LEMMA FlattensExists ==
    ASSUME NEW S, NEW s \in Seq(Seq(S))
    PROVE  \E f : Flattens(f, s)
<1> DEFINE Upto(f, n) == f = [i \in 1 .. n |-> IF i = 1 THEN s[i] ELSE f[i - 1] \o s[i]]
           T == {n \in Nat : ~ \E f : Upto(f, n)}
<1>1. ASSUME T # {} PROVE FALSE
  <2>1. PICK m \in T : \A n \in T : m <= n
    <3>1. T \in SUBSET Nat
      OBVIOUS
    <3> HIDE DEF T
    <3> QED
      BY <1>1, <3>1, LeastNumber
  <2>2. m \in Nat /\ ~ \E f : Upto(f, m)
    BY <2>1
  <2>3. CASE m = 0
    <3> DEFINE f == [i \in 1 .. 0 |-> s[i]]
    <3>1. f = [i \in 1 .. 0 |-> IF i = 1 THEN s[i] ELSE f[i - 1] \o s[i]]
      OBVIOUS
    <3>2. Upto(f, m)
      BY <2>3, <3>1
    <3> QED
      BY <2>2, <3>2
  <2>4. CASE m # 0
    <3>1. m - 1 \in Nat /\ m - 1 < m
      BY <2>2, <2>4
    <3>2. m - 1 \notin T
      <4> HIDE DEF T
      <4> QED
        BY <2>1, <2>2, <3>1
    <3>3. PICK f : f = [i \in 1 .. (m - 1) |-> IF i = 1 THEN s[i] ELSE f[i - 1] \o s[i]]
      BY <3>1, <3>2
    <3> DEFINE g == [i \in 1 .. m |-> IF i = 1 THEN s[i] ELSE f[i - 1] \o s[i]]
    <3>4. \A i \in 1 .. m : i # 1 => g[i - 1] = f[i - 1]
      <4> TAKE i \in 1 .. m
      <4> HAVE i # 1
      <4>1. i - 1 \in 1 .. m /\ i - 1 \in 1 .. (m - 1)
        BY <2>2
      <4>2. g[i - 1] = IF i - 1 = 1 THEN s[i - 1] ELSE f[i - 1 - 1] \o s[i - 1]
        BY <4>1
      <4> HIDE DEF g
      <4>3. f[i - 1] = IF i - 1 = 1 THEN s[i - 1] ELSE f[i - 1 - 1] \o s[i - 1]
        BY <3>3, <4>1
      <4> QED
        BY <4>2, <4>3
    <3>5. g = [i \in 1 .. m |-> IF i = 1 THEN s[i] ELSE g[i - 1] \o s[i]]
      <4> DEFINE h == [i \in 1 .. m |-> IF i = 1 THEN s[i] ELSE g[i - 1] \o s[i]]
      <4>1. \A i \in 1 .. m : h[i] = g[i]
        <5> HIDE DEF g
        <5>1. \A i \in 1 .. m : h[i] = IF i = 1 THEN s[i] ELSE g[i - 1] \o s[i]
          OBVIOUS
        <5>2. \A i \in 1 .. m : g[i] = IF i = 1 THEN s[i] ELSE f[i - 1] \o s[i]
          BY DEF g
        <5> HIDE DEF h
        <5> QED
          BY <3>4, <5>1, <5>2
      <4> QED
        BY <4>1
    <3> HIDE DEF g
    <3> QED
      BY <2>2, <3>5
  <2> QED
    BY <2>3, <2>4
<1>2. Len(s) \in Nat
  OBVIOUS
<1>3. \E f : Upto(f, Len(s))
  BY <1>1, <1>2
<1> QED
  BY <1>3 DEF Flattens

\* and FlattenSeq is what one comes to.
LEMMA FlattenIsLast ==
    ASSUME NEW S, NEW s \in Seq(Seq(S)), s # <<>>
    PROVE  \E f : FlattenSeq(s) = f[Len(s)] /\ \A i \in 1 .. Len(s) :
                f[i] = IF i = 1 THEN s[i] ELSE f[i - 1] \o s[i]
<1>1. PICK f : f = (CHOOSE h : Flattens(h, s))
  OBVIOUS
<1>2. Flattens(f, s)
  BY <1>1, FlattensExists
<1>3. Len(s) # 0 /\ Len(s) \in Nat
  OBVIOUS
<1>4. FlattenSeq(s) = f[Len(s)]
  BY <1>1, <1>3 DEF FlattenSeq, Flattens
<1> QED
  BY <1>2, <1>4 DEF Flattens

FlatOf(flat, s, k, q, S) ==
    /\ flat \in Seq(S) /\ Len(flat) = k * q
    /\ \A r \in 1 .. k, j \in 1 .. q : flat[(r - 1) * q + j] = s[r][j]
LEMMA FlattenPieces ==
    ASSUME NEW S, NEW k \in Nat \ {0}, NEW q \in Nat \ {0}, NEW s, EqualPieces(s, k, q, S)
    PROVE  FlatOf(FlattenSeq(s), s, k, q, S)
<1>1. s \in Seq(Seq(S)) /\ Len(s) = k /\ s # <<>>
  BY DEF EqualPieces
<1>2. PICK f : FlattenSeq(s) = f[k] /\ \A i \in 1 .. k : f[i] = IF i = 1 THEN s[i] ELSE f[i - 1] \o s[i]
  BY <1>1, FlattenIsLast
<1> DEFINE T == {m \in Nat : m \in 1 .. k /\ ~FlatUpto(f, s, q, S, m)}
<1>3. ASSUME T # {} PROVE FALSE
  <2>1. PICK m \in T : \A n \in T : m <= n
    <3>1. T \in SUBSET Nat
      OBVIOUS
    <3> HIDE DEF T
    <3> QED
      BY <1>3, <3>1, LeastNumber
  <2>2. m \in Nat /\ m \in 1 .. k /\ ~FlatUpto(f, s, q, S, m)
    BY <2>1
  <2>3. CASE m = 1
    <3>1. f[1] = s[1]
      BY <1>2, <2>2, <2>3
    <3> QED
      BY <2>2, <2>3, <3>1, FlatFirst
  <2>4. CASE m # 1
    <3>1. m - 1 \in Nat /\ m - 1 \in 1 .. k /\ m - 1 < m /\ m \in 2 .. k
      BY <2>2, <2>4
    <3>2. m - 1 \notin T
      <4> HIDE DEF T
      <4> QED
        BY <2>1, <2>2, <3>1
    <3>3. FlatUpto(f, s, q, S, m - 1)
      BY <3>1, <3>2
    <3>4. f[m] = f[m - 1] \o s[m]
      BY <1>2, <2>2, <2>4
    <3> QED
      BY <2>2, <3>1, <3>3, <3>4, FlatByPiece
  <2> QED
    BY <2>3, <2>4
<1>4. FlatUpto(f, s, q, S, k)
  BY <1>3
<1> QED
  BY <1>2, <1>4 DEF FlatUpto, FlatOf

\* The same of numbers from 0.
Composed(n, k, a, b) == n = a * k + b
LEMMA QuotientOf ==
    ASSUME NEW k \in Nat \ {0}, NEW a \in Nat, NEW b \in Nat, b < k, NEW n, Composed(n, k, a, b)
    PROVE  n \div k = a /\ n % k = b
<1>0. n = a * k + b
  BY DEF Composed
<1>1. PICK i, j : i = n + 1 /\ j = b + 1 /\ j \in 1 .. k /\ i = a * k + j /\ i - 1 = n
  <2>1. PICK y \in Nat : y = a * k
    OBVIOUS
  <2>2. n \in Nat /\ n = y + b
    BY <1>0, <2>1
  <2> QED
    BY <2>1, <2>2
<1>2. i = a * k + j /\ j \in 1 .. k
  BY <1>1
<1>3. (i - 1) \div k = a /\ (i - 1) % k = j - 1
  BY <1>2, PlaceOf
<1> QED
  BY <1>1, <1>3

-----------------------------------------------------------------------------
(* The indices a loop appends.                                               *)

Appends(f, S, n) ==
    f = [i \in 0 .. n |-> IF i = 0 THEN <<>>
                          ELSE IF i \in S THEN Append(f[i - 1], i) ELSE f[i - 1]]

\* A function of this recursion exists,
LEMMA AppendsExists ==
    ASSUME NEW S, NEW n \in Nat
    PROVE  \E f : Appends(f, S, n)
<1> DEFINE Entry(f, i) == IF i = 0 THEN <<>> ELSE IF i \in S THEN Append(f[i - 1], i) ELSE f[i - 1]
           Filled(f, k) == f = [i \in 0 .. k |-> Entry(f, i)]
           T == {k \in Nat : ~ \E f : Filled(f, k)}
<1>1. ASSUME T # {} PROVE FALSE
  <2>1. PICK m \in T : \A k \in T : m <= k
    <3>1. T \in SUBSET Nat
      OBVIOUS
    <3> HIDE DEF T
    <3> QED
      BY <1>1, <3>1, LeastNumber
  <2>2. m \in Nat /\ ~ \E f : Filled(f, m)
    BY <2>1
  <2>3. CASE m = 0
    <3> DEFINE f == [i \in 0 .. 0 |-> <<>>]
    <3>1. f = [i \in 0 .. 0 |-> Entry(f, i)]
      <4>1. \A i \in 0 .. 0 : Entry(f, i) = <<>>
        OBVIOUS
      <4> HIDE DEF Entry
      <4> QED
        BY <4>1
    <3>2. Filled(f, m)
      BY <2>3, <3>1
    <3> QED
      BY <2>2, <3>2
  <2>4. CASE m # 0
    <3>1. m - 1 \in Nat /\ m - 1 < m
      BY <2>2, <2>4
    <3>2. m - 1 \notin T
      <4> HIDE DEF T
      <4> QED
        BY <2>1, <2>2, <3>1
    <3>3. PICK f : f = [i \in 0 .. (m - 1) |-> Entry(f, i)]
      BY <3>1, <3>2
    <3> DEFINE g == [i \in 0 .. m |-> Entry(f, i)]
    <3>4. \A i \in 0 .. m : i # 0 => g[i - 1] = f[i - 1]
      <4> TAKE i \in 0 .. m
      <4> HAVE i # 0
      <4>1. i - 1 \in 0 .. m /\ i - 1 \in 0 .. (m - 1)
        BY <2>2
      <4> HIDE DEF Entry
      <4>2. g[i - 1] = Entry(f, i - 1)
        BY <4>1
      <4> HIDE DEF g
      <4>3. f[i - 1] = Entry(f, i - 1)
        BY <3>3, <4>1
      <4> QED
        BY <4>2, <4>3
    <3>5. \A i \in 0 .. m : Entry(g, i) = Entry(f, i)
      <4> HIDE DEF g
      <4> QED
        BY <3>4
    <3>6. Filled(g, m)
      <4> HIDE DEF Entry
      <4> QED
        BY <3>5
    <3> QED
      BY <2>2, <3>6
  <2> QED
    BY <2>3, <2>4
<1>2. \E f : Filled(f, n)
  BY <1>1
<1> QED
  BY <1>2 DEF Appends

\* and what it comes to is appended one by one.
Appended(S, n) == (CHOOSE f : Appends(f, S, n))[n]
Grows(f, S, n) ==
    /\ f[0] = <<>>
    /\ \A i \in 1 .. n : f[i] = IF i \in S THEN Append(f[i - 1], i) ELSE f[i - 1]
LEMMA AppendedIsLast ==
    ASSUME NEW S, NEW n \in Nat
    PROVE  \E f : Appended(S, n) = f[n] /\ Grows(f, S, n)
<1>1. PICK f : f = (CHOOSE h : Appends(h, S, n))
  OBVIOUS
<1>2. Appends(f, S, n)
  BY <1>1, AppendsExists
<1>3. Appended(S, n) = f[n]
  BY <1>1 DEF Appended
<1>4. ASSUME NEW i \in 0 .. n
      PROVE  f[i] = IF i = 0 THEN <<>> ELSE IF i \in S THEN Append(f[i - 1], i) ELSE f[i - 1]
  BY <1>2 DEF Appends
<1>5. f[0] = <<>>
  <2>1. 0 \in 0 .. n
    OBVIOUS
  <2> QED
    BY <1>4, <2>1
<1>6. ASSUME NEW i \in 1 .. n PROVE f[i] = IF i \in S THEN Append(f[i - 1], i) ELSE f[i - 1]
  <2>1. i \in 0 .. n /\ i # 0
    OBVIOUS
  <2> QED
    BY <1>4, <2>1
<1> QED
  BY <1>3, <1>5, <1>6 DEF Grows

\* e has the members of S among 1 .. n in order.
Enumerates(e, m, S, n) ==
    /\ e \in [1 .. m -> Nat]
    /\ \A a \in 1 .. m : e[a] \in S /\ e[a] \in 1 .. n
    /\ \A a, b \in 1 .. m : a < b => e[a] < e[b]
    /\ \A x \in 1 .. n : x \in S => \E a \in 1 .. m : e[a] = x

\* There is only one such sequence.
FirstOnes(q, e, m, i) ==
    \E c \in 0 .. m : /\ q = [a \in 1 .. c |-> e[a]]
                      /\ \A a \in 1 .. m : e[a] <= i <=> a <= c
LEMMA EnumeratedAppended ==
    ASSUME NEW S, NEW n \in Nat, NEW m \in Nat, NEW e, Enumerates(e, m, S, n)
    PROVE  Appended(S, n) = e
<1>0. PICK f : Appended(S, n) = f[n] /\ Grows(f, S, n)
  BY AppendedIsLast
<1>1. /\ Appended(S, n) = f[n] /\ f[0] = <<>>
      /\ \A i \in 1 .. n : f[i] = IF i \in S THEN Append(f[i - 1], i) ELSE f[i - 1]
  BY <1>0 DEF Grows
<1> DEFINE T == {i \in Nat : i \in 0 .. n /\ ~FirstOnes(f[i], e, m, i)}
<1>2. ASSUME T # {} PROVE FALSE
  <2>1. PICK i \in T : \A k \in T : i <= k
    <3>1. T \in SUBSET Nat
      OBVIOUS
    <3> HIDE DEF T
    <3> QED
      BY <1>2, <3>1, LeastNumber
  <2>2. i \in Nat /\ i \in 0 .. n /\ ~FirstOnes(f[i], e, m, i)
    BY <2>1
  <2>3. CASE i = 0
    <3>1. \A a \in 1 .. m : e[a] <= 0 <=> a <= 0
      BY DEF Enumerates
    <3>2. <<>> = [a \in 1 .. 0 |-> e[a]]
      OBVIOUS
    <3>3. 0 \in 0 .. m
      OBVIOUS
    <3> QED
      BY <1>1, <2>2, <2>3, <3>1, <3>2, <3>3 DEF FirstOnes
  <2>4. CASE i # 0
    <3>1. i - 1 \in Nat /\ i - 1 \in 0 .. n /\ i - 1 < i /\ i \in 1 .. n
      BY <2>2, <2>4
    <3>2. i - 1 \notin T
      <4> HIDE DEF T
      <4> QED
        BY <2>1, <2>2, <3>1
    <3>3. FirstOnes(f[i - 1], e, m, i - 1)
      BY <3>1, <3>2
    <3>4. PICK c \in 0 .. m : /\ f[i - 1] = [a \in 1 .. c |-> e[a]]
                              /\ \A a \in 1 .. m : e[a] <= i - 1 <=> a <= c
      BY <3>3 DEF FirstOnes
    <3>5. CASE i \in S
      <4>1. PICK d \in 1 .. m : e[d] = i
        BY <3>1, <3>5 DEF Enumerates
      <4>2. \A a \in 1 .. m : e[a] \in Nat
        BY DEF Enumerates
      <4>3. ~(d <= c)
        BY <3>1, <3>4, <4>1
      <4>4. \A a \in 1 .. m : a < d => a <= c
        <5> TAKE a \in 1 .. m
        <5> HAVE a < d
        <5>1. e[a] < i
          BY <4>1 DEF Enumerates
        <5> QED
          BY <3>1, <3>4, <4>2, <5>1
      <4>5. d = c + 1
        <5>1. CASE d > c + 1
          <6>1. c + 1 \in 1 .. m /\ c + 1 < d
            BY <5>1
          <6> QED
            BY <4>4, <6>1
        <5> QED
          BY <4>3, <5>1
      <4>6. f[i] = [a \in 1 .. c + 1 |-> e[a]]
        <5>1. PICK q : q = f[i - 1] /\ q = [a \in 1 .. c |-> e[a]]
          BY <3>4
        <5>2. q \in Seq(Nat) /\ Len(q) = c
          <6>1. q \in [1 .. c -> Nat]
            BY <4>2, <5>1
          <6> QED
            BY <5>1, <6>1
        <5>3. f[i] = Append(q, i)
          BY <1>1, <3>1, <3>5, <5>1
        <5>4. /\ Append(q, i) \in Seq(Nat) /\ Len(Append(q, i)) = c + 1
              /\ \A a \in 1 .. c + 1 : Append(q, i)[a] = IF a = c + 1 THEN i ELSE q[a]
          BY <3>1, <5>2, AppendProperties
        <5>5. \A a \in 1 .. c + 1 : Append(q, i)[a] = e[a]
          BY <4>1, <4>5, <5>1, <5>4
        <5>6. Append(q, i) = [a \in 1 .. c + 1 |-> Append(q, i)[a]]
          <6>1. PICK x : x = Append(q, i)
            OBVIOUS
          <6>2. x \in Seq(Nat) /\ DOMAIN x = 1 .. c + 1
            BY <5>4, <6>1, LenProperties
          <6>3. x = [a \in 1 .. c + 1 |-> x[a]]
            BY <6>2
          <6> QED
            BY <6>1, <6>3
        <5> QED
          BY <5>3, <5>5, <5>6
      <4>7. \A a \in 1 .. m : e[a] <= i <=> a <= c + 1
        <5> TAKE a \in 1 .. m
        <5>1. e[a] <= i <=> e[a] < i \/ e[a] = i
          BY <3>1, <4>2
        <5>2. CASE a < d
          BY <4>1, <4>5, <5>1, <5>2 DEF Enumerates
        <5>3. CASE a = d
          BY <4>1, <4>5, <5>1, <5>3
        <5>4. CASE d < a
          <6>1. i < e[a]
            BY <4>1, <5>4 DEF Enumerates
          <6> QED
            BY <3>1, <4>2, <4>5, <5>4, <6>1
        <5> QED
          BY <5>2, <5>3, <5>4
      <4> QED
        BY <2>2, <4>5, <4>6, <4>7 DEF FirstOnes
    <3>6. CASE i \notin S
      <4>1. f[i] = f[i - 1]
        BY <1>1, <3>1, <3>6
      <4>2. \A a \in 1 .. m : e[a] # i /\ e[a] \in Nat
        BY <3>6 DEF Enumerates
      <4>3. \A a \in 1 .. m : e[a] <= i <=> a <= c
        BY <3>1, <3>4, <4>2
      <4> QED
        BY <2>2, <3>4, <4>1, <4>3 DEF FirstOnes
    <3> QED
      BY <3>5, <3>6
  <2> QED
    BY <2>3, <2>4
<1>3. FirstOnes(f[n], e, m, n)
  BY <1>2
<1>4. PICK c \in 0 .. m : f[n] = [a \in 1 .. c |-> e[a]] /\ \A a \in 1 .. m : e[a] <= n <=> a <= c
  BY <1>3 DEF FirstOnes
<1>5. c = m
  <2>1. CASE m # 0
    <3>1. m \in 1 .. m
      BY <2>1
    <3>2. e[m] <= n
      BY <3>1 DEF Enumerates
    <3> QED
      BY <1>4, <3>1, <3>2
  <2> QED
    BY <2>1
<1>6. e = [a \in 1 .. m |-> e[a]]
  BY DEF Enumerates
<1> QED
  BY <1>1, <1>4, <1>5, <1>6

\* There always is one.
LEMMA AppendedEnumerates ==
    ASSUME NEW S, NEW n \in Nat
    PROVE  \E m \in 0 .. n : Enumerates(Appended(S, n), m, S, n)
<1> DEFINE Has(k) == \E m \in 0 .. k : \E e : Enumerates(e, m, S, k)
           T == {k \in Nat : ~Has(k)}
<1>1. ASSUME T # {} PROVE FALSE
  <2>1. PICK k \in T : \A l \in T : k <= l
    <3>1. T \in SUBSET Nat
      OBVIOUS
    <3> HIDE DEF T
    <3> QED
      BY <1>1, <3>1, LeastNumber
  <2>2. k \in Nat /\ ~Has(k)
    BY <2>1
  <2>3. CASE k = 0
    <3>1. Enumerates([a \in 1 .. 0 |-> 0], 0, S, k)
      BY <2>3 DEF Enumerates
    <3> QED
      BY <2>2, <3>1
  <2>4. CASE k # 0
    <3>1. k - 1 \in Nat /\ k - 1 < k /\ k \in 1 .. k
      BY <2>2, <2>4
    <3>2. k - 1 \notin T
      <4> HIDE DEF T
      <4> QED
        BY <2>1, <2>2, <3>1
    <3>3. PICK m \in 0 .. k - 1 : \E e : Enumerates(e, m, S, k - 1)
      BY <3>1, <3>2
    <3>4. PICK e : Enumerates(e, m, S, k - 1)
      BY <3>3
    <3>5. /\ e \in [1 .. m -> Nat] /\ \A a \in 1 .. m : e[a] \in S /\ e[a] \in 1 .. k - 1
          /\ \A a, b \in 1 .. m : a < b => e[a] < e[b]
          /\ \A x \in 1 .. k - 1 : x \in S => \E a \in 1 .. m : e[a] = x
      BY <3>4 DEF Enumerates
    <3>6. CASE k \notin S
      <4>1. \A x \in 1 .. k : x \in S => \E a \in 1 .. m : e[a] = x
        <5> TAKE x \in 1 .. k
        <5> HAVE x \in S
        <5>1. x \in 1 .. k - 1
          BY <3>6
        <5> QED
          BY <3>5, <5>1
      <4>2. Enumerates(e, m, S, k)
        BY <3>5, <4>1 DEF Enumerates
      <4> QED
        BY <2>2, <4>2
    <3>7. CASE k \in S
      <4> DEFINE g == [a \in 1 .. m + 1 |-> IF a = m + 1 THEN k ELSE e[a]]
      <4>1. g \in [1 .. m + 1 -> Nat]
        BY <2>2, <3>5
      <4>2. \A a \in 1 .. m + 1 : g[a] \in S /\ g[a] \in 1 .. k
        BY <2>2, <3>1, <3>5, <3>7
      <4>3. \A a, b \in 1 .. m + 1 : a < b => g[a] < g[b]
        <5> TAKE a, b \in 1 .. m + 1
        <5> HAVE a < b
        <5>1. a \in 1 .. m /\ g[a] = e[a] /\ e[a] \in 1 .. k - 1
          BY <3>5
        <5>2. CASE b = m + 1
          BY <2>2, <5>1, <5>2
        <5>3. CASE b # m + 1
          BY <3>5, <5>1, <5>3
        <5> QED
          BY <5>2, <5>3
      <4>4. \A x \in 1 .. k : x \in S => \E a \in 1 .. m + 1 : g[a] = x
        <5> TAKE x \in 1 .. k
        <5> HAVE x \in S
        <5>1. CASE x = k
          <6>1. m + 1 \in 1 .. m + 1 /\ g[m + 1] = k
            OBVIOUS
          <6> QED
            BY <5>1, <6>1
        <5>2. CASE x # k
          <6>1. PICK a \in 1 .. m : e[a] = x
            BY <3>5, <5>2
          <6>2. a \in 1 .. m + 1 /\ g[a] = x
            BY <6>1
          <6> QED
            BY <6>2
        <5> QED
          BY <5>1, <5>2
      <4>5. m + 1 \in 0 .. k
        BY <2>2
      <4> HIDE DEF g
      <4>6. Enumerates(g, m + 1, S, k)
        BY <4>1, <4>2, <4>3, <4>4 DEF Enumerates
      <4> QED
        BY <2>2, <4>5, <4>6
    <3> QED
      BY <3>6, <3>7
  <2> QED
    BY <2>3, <2>4
<1>2. Has(n)
  BY <1>1
<1>3. PICK m \in 0 .. n : \E e : Enumerates(e, m, S, n)
  BY <1>2
<1>4. PICK e : Enumerates(e, m, S, n)
  BY <1>3
<1>5. Appended(S, n) = e
  BY <1>3, <1>4, EnumeratedAppended
<1>6. Enumerates(Appended(S, n), m, S, n)
  BY <1>4, <1>5
<1> QED
  BY <1>3, <1>6
=============================================================================
