--------------------------- MODULE SeqlenBalance ---------------------------
(***************************************************************************)
(* Balancing sequence lengths, verl/utils/seqlen_balancing.py: the         *)
(* Karmarkar-Karp differencing method that gives every worker, or every    *)
(* micro-batch, sequences of about the same total length, the number of    *)
(* micro-batches the ranks agree on, and the inverse of an index mapping.  *)
(*                                                                         *)
(* Lengths are a sequence of naturals.  A Set of the code is the sequence  *)
(* of its items' indices in the order they were added, a State is k of     *)
(* them in decreasing order.                                               *)
(*                                                                         *)
(* A definition commented "Fault" is the definition after it with a        *)
(* plausible mistake; nothing uses it.                                     *)
(***************************************************************************)
EXTENDS Integers, Sequences, SequencesExt, FiniteSetsExt

\* sorted: item n of the outcome is the one that n - 1 others come before,
\* where before[i] are the places of those that come before item i.  SubSeq is
\* of all of it: TLC makes a sequence of a function once.
Arranged(items, before) ==
    SubSeq([n \in DOMAIN items |-> items[CHOOSE i \in DOMAIN items : Cardinality(before[i]) = n - 1]],
           1, Len(items))

TotalLength(lengths, items) == MapThenSumSet(LAMBDA i : lengths[i], ToSet(items))

\* Set.__lt__, the other way round: by sum, number of items, then the index
\* of the first one; two sets never share an item.
Larger(lengths, a, b) ==
    LET sumA == TotalLength(lengths, a)
        sumB == TotalLength(lengths, b)
    IN \/ sumA > sumB
       \/ sumA = sumB /\ Len(a) > Len(b)
       \/ sumA = sumB /\ Len(a) = Len(b) /\ a # <<>> /\ a[1] > b[1]

\* sorted(reverse=True)
Decreasing(lengths, sets) ==
    Arranged(sets, [i \in DOMAIN sets |-> {j \in DOMAIN sets :
        Larger(lengths, sets[j], sets[i]) \/ (sets[j] = sets[i] /\ j < i)}])

Spread(lengths, state) ==
    TotalLength(lengths, state[1]) - TotalLength(lengths, state[Len(state)])

\* State.__lt__: what the heap pops first.
Before(lengths, s, t) ==
    LET spreadS == Spread(lengths, s)
        spreadT == Spread(lengths, t)
    IN \/ spreadS > spreadT
       \/ spreadS = spreadT /\ Larger(lengths, s[1], t[1])

\* The largest set of one goes with the smallest of the other.
FaultMerge(lengths, s, t) == Decreasing(lengths, [i \in 1 .. Len(s) |-> s[i] \o t[i]])
Merge(lengths, s, t) ==
    Decreasing(lengths, [i \in 1 .. Len(s) |-> s[i] \o t[Len(s) + 1 - i]])

Shortest(lengths) ==
    Arranged([i \in DOMAIN lengths |-> i], [i \in DOMAIN lengths |-> {j \in DOMAIN lengths :
        lengths[j] < lengths[i] \/ (lengths[j] = lengths[i] /\ j < i)}])

\* The states the heap starts with: k neighbours in the order of their
\* lengths, or one item each.
States(lengths, k, equalSize) ==
    LET sorted == Shortest(lengths) IN
    IF equalSize
      THEN {Decreasing(lengths, [i \in 1 .. k |-> <<sorted[(g - 1) * k + i]>>])
              : g \in 1 .. Len(lengths) \div k}
      ELSE {Decreasing(lengths, [i \in 1 .. k |-> IF i = 1 THEN <<j>> ELSE <<>>])
              : j \in DOMAIN lengths}

Pop(lengths, pool) ==
    CHOOSE s \in pool : \A t \in pool \ {s} : Before(lengths, s, t)

\* karmarkar_karp: the two states popped first are merged until one is left.
KarmarkarKarp(lengths, k, equalSize) ==
    LET start == States(lengths, k, equalSize)
        merges == Cardinality(start) - 1
        pool[n \in 0 .. merges] ==
            IF n = 0 THEN start
            ELSE LET rest == pool[n - 1]
                     first == Pop(lengths, rest)
                     second == Pop(lengths, rest \ {first})
                 IN (rest \ {first, second}) \cup {Merge(lengths, first, second)}
    IN CHOOSE s \in pool[merges] : TRUE

\* get_seqlen_balanced_partitions
Ascending(items) ==
    Arranged(items, [i \in DOMAIN items |-> {j \in DOMAIN items : items[j] < items[i]}])
BalancedPartitions(lengths, k, equalSize) ==
    LET state == KarmarkarKarp(lengths, k, equalSize) IN
    [i \in 1 .. k |-> Ascending(state[i])]

CeilDiv(a, b) == -((-a) \div b)

\* The micro-batches a rank would make by itself.
NumMicroBatches(lengths, maxTokens) ==
    Min({Len(lengths), CeilDiv(TotalLength(lengths, [i \in DOMAIN lengths |-> i]), maxTokens)})

\* The number they agree on: the largest of any of them, and whole groups of
\* num_batches_divided_by.
AgreedNumber(lengthsOf, maxTokens, group) ==
    LET number == Max({NumMicroBatches(lengthsOf[r], maxTokens) : r \in DOMAIN lengthsOf})
    IN group * CeilDiv(number, group)

\* rearrange_micro_batches
FaultRearrangeMicroBatches(lengthsOf, maxTokens, group) ==
    [r \in DOMAIN lengthsOf |->
        BalancedPartitions(lengthsOf[r], NumMicroBatches(lengthsOf[r], maxTokens), FALSE)]
RearrangeMicroBatches(lengthsOf, maxTokens, group) ==
    [r \in DOMAIN lengthsOf |->
        BalancedPartitions(lengthsOf[r], AgreedNumber(lengthsOf, maxTokens, group), FALSE)]

\* get_reverse_idx
FaultReverseIndex(index) == index
ReverseIndex(index) ==
    [j \in DOMAIN index |-> CHOOSE i \in DOMAIN index : index[i] = j]
=============================================================================
