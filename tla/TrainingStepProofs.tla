------------------------- MODULE TrainingStepProofs -------------------------
(***************************************************************************)
(* What RayPPOTrainer.fit, RaySPPOTrainer.fit, RayDAPOTrainer.fit and      *)
(* the entropy recipe's promise of a batch, for any configuration of any   *)
(* sizes, any lengths and scores of responses, and however many steps      *)
(* are run: the rows the actor learns from are about their own             *)
(* responses, their advantages are made of the rewards they should be      *)
(* made of, the workers' loads are similar once they were balanced,        *)
(* groups that were filtered qualify, and none of the driver's             *)
(* assertions fails on the way; a validation of any trainer has each of    *)
(* its samples once; and the rows that are sent to the workers of a        *)
(* group of any layout come back at their places.                          *)
(*                                                                         *)
(* The argument follows the batch.  First, what each operation of          *)
(* DataProto does to its rows, and that a call of a worker group -         *)
(* padded, chunked, gathered by groups, put together and cut off - is as   *)
(* if one worker had been given the whole batch.  Then the invariant, of   *)
(* three parts: while a batch is generated for (GenInv), the prompts are   *)
(* those of the dataloader's turn, padded at the end at most, and the      *)
(* responses those to them, in their order; once it is put together        *)
(* (BatchInv), every column says of every row what is of the response in   *)
(* it, whatever the order of the rows, and each prompt has all its         *)
(* responses; and when it is learned from (LearnInv), the advantages are   *)
(* of the group.  Where batches are generated until there are enough       *)
(* groups (SampInv), the batch that is kept is whole groups of the         *)
(* batches since the last step, and any part of it that ends between two   *)
(* groups is a batch of a step.  That the loads are even (EvenInv) is      *)
(* seqlen_balancing's promise, carried through the steps that add          *)
(* columns.  A validation is put together of batches of different sizes,   *)
(* each padded and cut off again.                                          *)
(*                                                                         *)
(* The trainers are told apart by Plain and Sampled: what a step does is   *)
(* proved of all but PRIME's, which only keeps its configuration: this     *)
(* is what the invariant needs of it.                                      *)
(***************************************************************************)
EXTENDS Trainers, Dispatch, SeqlenBalanceProofs, TLAPS

-----------------------------------------------------------------------------
(* Batches.                                                                  *)

\* A sequence of n places, and a batch of n rows.
IsList(f, n) == f = [i \in 1 .. n |-> f[i]]
Table(data, n) ==
    /\ DOMAIN data # {}
    /\ data = [c \in DOMAIN data |-> data[c]]
    /\ \A c \in DOMAIN data : IsList(data[c], n)

LEMMA ListIsSeq ==
    ASSUME NEW n \in Nat, NEW f, IsList(f, n)
    PROVE  DOMAIN f = 1 .. n /\ Len(f) = n /\ f \in Seq({f[i] : i \in 1 .. n})
<1> DEFINE S == {f[i] : i \in 1 .. n}
<1>1. DOMAIN f = 1 .. n
  BY DEF IsList
<1>2. f \in [1 .. n -> S]
  BY DEF IsList
<1>3. f \in Seq(S)
  BY <1>2
<1>4. Len(f) = n
  BY <1>1, <1>3, LenProperties
<1> QED
  BY <1>1, <1>3, <1>4

LEMMA ListOf ==
    ASSUME NEW n \in Nat, NEW f, DOMAIN f = 1 .. n, NEW S, f \in Seq(S)
    PROVE  IsList(f, n)
  BY DEF IsList

\* Lists with the same entries are the same.
LEMMA SameList ==
    ASSUME NEW n, NEW f, NEW g, IsList(f, n), IsList(g, n), \A i \in 1 .. n : f[i] = g[i]
    PROVE  f = g
<1>1. [i \in 1 .. n |-> f[i]] = [i \in 1 .. n |-> g[i]]
  OBVIOUS
<1> QED
  BY <1>1 DEF IsList

\* So are batches with the same columns.
LEMMA SameTable ==
    ASSUME NEW n, NEW a, NEW b, Table(a, n), Table(b, n), DOMAIN a = DOMAIN b,
           \A c \in DOMAIN a, i \in 1 .. n : a[c][i] = b[c][i]
    PROVE  a = b
<1>1. \A c \in DOMAIN a : a[c] = b[c]
  BY SameList DEF Table
<1>2. [c \in DOMAIN a |-> a[c]] = [c \in DOMAIN a |-> b[c]]
  BY <1>1
<1> QED
  BY <1>2 DEF Table

LEMMA TableRows ==
    ASSUME NEW n \in Nat, NEW data, Table(data, n)
    PROVE  Rows(data) = n
<1>1. PICK c \in DOMAIN data : c = CHOOSE d \in DOMAIN data : TRUE
  BY DEF Table
<1>2. Len(data[c]) = n
  BY ListIsSeq DEF Table
<1> QED
  BY <1>1, <1>2 DEF Rows

\* What the operations are, row by row.
Selects(index, k, n) == DOMAIN index = 1 .. k /\ \A i \in 1 .. k : index[i] \in 1 .. n
RowsAt(part, data, index, k) ==
    /\ Table(part, k)
    /\ DOMAIN part = DOMAIN data
    /\ \A c \in DOMAIN data, i \in 1 .. k : part[c][i] = data[c][index[i]]

LEMMA TakeTable ==
    ASSUME NEW n, NEW data, Table(data, n), NEW k, NEW index, Selects(index, k, n)
    PROVE  RowsAt(Take(data, index), data, index, k)
<1> DEFINE row(c) == [i \in 1 .. k |-> data[c][index[i]]]
<1>1. Take(data, index) = [c \in DOMAIN data |-> row(c)]
  BY DEF Take, Selects
<1>2. \A c : IsList(row(c), k)
  BY DEF IsList
<1>3. \A c, i : i \in 1 .. k => row(c)[i] = data[c][index[i]]
  OBVIOUS
<1> HIDE DEF row
<1>4. \A c \in DOMAIN data : Take(data, index)[c] = row(c)
  BY <1>1
<1>5. DOMAIN Take(data, index) = DOMAIN data
  BY <1>1
<1>6. Take(data, index) = [c \in DOMAIN Take(data, index) |-> Take(data, index)[c]]
  BY <1>1
<1> QED
  BY <1>2, <1>3, <1>4, <1>5, <1>6 DEF Table, RowsAt

Extended(p, data, n, name, column) ==
    /\ Table(p, n)
    /\ DOMAIN p = DOMAIN data \cup {name}
    /\ p[name] = column
    /\ \A c \in DOMAIN data \ {name} : p[c] = data[c]
LEMMA PutTable ==
    ASSUME NEW n, NEW data, Table(data, n), NEW name, NEW column, IsList(column, n)
    PROVE  Extended(Put(data, name, column), data, n, name, column)
<1> DEFINE p == Put(data, name, column)
<1>1. p = [c \in DOMAIN data \cup {name} |-> IF c = name THEN column ELSE data[c]]
  BY DEF Put
<1>2. DOMAIN p = DOMAIN data \cup {name} /\ p = [c \in DOMAIN p |-> p[c]]
  BY <1>1
<1>3. p[name] = column /\ \A c \in DOMAIN data \ {name} : p[c] = data[c]
  BY <1>1
<1> HIDE DEF p
<1>4. \A c \in DOMAIN p : IsList(p[c], n)
  BY <1>2, <1>3 DEF Table
<1>5. DOMAIN p # {}
  BY <1>2
<1> QED
  BY <1>2, <1>3, <1>4, <1>5 DEF p, Table, Extended

\* A batch of one column is put by union.
One(name, column) == [c \in {name} |-> column]
LEMMA OneColumn ==
    ASSUME NEW name, NEW column
    PROVE  DOMAIN One(name, column) = {name} /\ One(name, column)[name] = column
  BY DEF One

LEMMA UnionOne ==
    ASSUME NEW data, NEW name, NEW column
    PROVE  Union(data, One(name, column)) = Put(data, name, column)
<1> DEFINE one == One(name, column)
<1>1. DOMAIN one = {name} /\ one[name] = column
  BY OneColumn
<1> HIDE DEF one
<1>2. \A c \in DOMAIN data \cup {name} :
        (IF c \in DOMAIN one THEN one[c] ELSE data[c]) = (IF c = name THEN column ELSE data[c])
  BY <1>1
<1> QED
  BY <1>1, <1>2 DEF Union, Put, one

Joint(u, a, b, n) ==
    /\ Table(u, n)
    /\ DOMAIN u = DOMAIN a \cup DOMAIN b
    /\ \A c \in DOMAIN b : u[c] = b[c]
    /\ \A c \in DOMAIN a \ DOMAIN b : u[c] = a[c]
LEMMA UnionTable ==
    ASSUME NEW n, NEW a, NEW b, Table(a, n), Table(b, n)
    PROVE  Joint(Union(a, b), a, b, n)
<1> DEFINE u == Union(a, b)
<1>1. u = [c \in DOMAIN a \cup DOMAIN b |-> IF c \in DOMAIN b THEN b[c] ELSE a[c]]
  BY DEF Union
<1>2. DOMAIN u = DOMAIN a \cup DOMAIN b /\ u = [c \in DOMAIN u |-> u[c]]
  BY <1>1
<1>3. (\A c \in DOMAIN b : u[c] = b[c]) /\ \A c \in DOMAIN a \ DOMAIN b : u[c] = a[c]
  BY <1>1
<1> HIDE DEF u
<1>4. \A c \in DOMAIN u : IsList(u[c], n)
  BY <1>2, <1>3 DEF Table
<1>5. DOMAIN u # {}
  BY <1>2 DEF Table
<1> QED
  BY <1>2, <1>3, <1>4, <1>5 DEF u, Table, Joint

Chosen(p, data, names, n) ==
    /\ Table(p, n)
    /\ DOMAIN p = names
    /\ \A c \in names : p[c] = data[c]
LEMMA ColumnsTable ==
    ASSUME NEW n, NEW data, Table(data, n), NEW names, names \subseteq DOMAIN data, names # {}
    PROVE  Chosen(Columns(data, names), data, names, n)
<1> DEFINE p == Columns(data, names)
<1>1. p = [c \in names |-> data[c]]
  BY DEF Columns
<1>2. DOMAIN p = names /\ p = [c \in DOMAIN p |-> p[c]] /\ \A c \in names : p[c] = data[c]
  BY <1>1
<1> HIDE DEF p
<1> QED
  BY <1>2 DEF p, Table, Chosen

LEMMA WithoutTable ==
    ASSUME NEW n, NEW data, Table(data, n), NEW names, ~(DOMAIN data \subseteq names)
    PROVE  Chosen(Without(data, names), data, DOMAIN data \ names, n)
<1>1. Without(data, names) = Columns(data, DOMAIN data \ names)
  BY DEF Without, Columns
<1>2. DOMAIN data \ names \subseteq DOMAIN data /\ DOMAIN data \ names # {}
  OBVIOUS
<1> QED
  BY <1>1, <1>2, ColumnsTable

\* One column renamed.
LEMMA RenameOne ==
    ASSUME NEW old, NEW new, NEW column
    PROVE  Rename(One(old, column), old, new) = One(new, column)
<1> DEFINE one == One(old, column)
<1>1. DOMAIN one = {old} /\ one[old] = column
  BY OneColumn
<1> HIDE DEF one
<1>2. (DOMAIN one \ {old}) \cup {new} = {new}
  BY <1>1
<1>3. \A c \in {new} : (IF c = new THEN one[old] ELSE one[c]) = column
  BY <1>1
<1> QED
  BY <1>2, <1>3 DEF Rename, one, One
-----------------------------------------------------------------------------
(* A call of a worker group: every row comes back at its place.              *)

\* m rows of a batch, from the one after the b-th on.
Shard(part, data, m, b) ==
    /\ Table(part, m)
    /\ DOMAIN part = DOMAIN data
    /\ \A c \in DOMAIN data, i \in 1 .. m : part[c][i] = data[c][b + i]

LEMMA PartRows ==
    ASSUME NEW k \in Nat \ {0}, NEW q \in Nat, NEW n, n = k * q, NEW data, Table(data, n),
           NEW r \in 1 .. k, NEW b, b = (r - 1) * q
    PROVE  Shard(Part(data, k, r), data, q, b)
<1> DEFINE index == [i \in 1 .. q |-> b + i]
<1>1. n \in Nat
  OBVIOUS
<1>2. Rows(data) = n
  BY <1>1, TableRows
<1>3. n \div k = q
  OBVIOUS
<1>4. Part(data, k, r) = Take(data, index)
  BY <1>2, <1>3 DEF Part
<1>5. \A i \in 1 .. q : index[i] \in 1 .. n
  <2> SUFFICES ASSUME NEW i \in 1 .. q PROVE (r - 1) * q + i \in 1 .. k * q
    OBVIOUS
  <2>1. q \in Nat \ {0}
    OBVIOUS
  <2> QED
    BY <2>1, RowInRange
<1>6. DOMAIN index = 1 .. q /\ \A i \in 1 .. q : index[i] = b + i
  OBVIOUS
<1> HIDE DEF index
<1>7. RowsAt(Take(data, index), data, index, q)
  BY <1>5, <1>6, TakeTable DEF Selects
<1> QED
  BY <1>4, <1>6, <1>7 DEF Shard, RowsAt

\* concat of parts of one size.
Together(data, parts, names, k, q) ==
    /\ DOMAIN data = names
    /\ \A c \in names, r \in 1 .. k, j \in 1 .. q : data[c][(r - 1) * q + j] = parts[r][c][j]

LEMMA ConcatRows ==
    ASSUME NEW k \in Nat \ {0}, NEW q \in Nat \ {0}, NEW n, n = k * q,
           NEW parts, DOMAIN parts = 1 .. k, NEW names,
           \A r \in 1 .. k : Table(parts[r], q) /\ DOMAIN parts[r] = names
    PROVE  Table(Concat(parts), n) /\ Together(Concat(parts), parts, names, k, q)
<1> DEFINE lists(c) == [r \in DOMAIN parts |-> parts[r][c]]
<1>1. 1 \in 1 .. k
  OBVIOUS
<1>2. Concat(parts) = [c \in names |-> FlattenSeq(lists(c))]
  BY <1>1 DEF Concat
<1>3. ASSUME NEW c \in names
      PROVE  /\ IsList(FlattenSeq(lists(c)), n)
             /\ \A r \in 1 .. k, j \in 1 .. q : FlattenSeq(lists(c))[(r - 1) * q + j] = parts[r][c][j]
  <2> DEFINE S == {parts[r][c][j] : r \in 1 .. k, j \in 1 .. q}
             s == lists(c)
  <2>1. \A r \in 1 .. k : s[r] = parts[r][c] /\ IsList(s[r], q)
    BY DEF Table
  <2>2. ASSUME NEW r \in 1 .. k PROVE s[r] \in Seq(S) /\ Len(s[r]) = q
    <3> DEFINE V == {s[r][j] : j \in 1 .. q}
    <3>1. s[r] \in Seq(V) /\ Len(s[r]) = q
      <4> HIDE DEF s
      <4> QED
        BY <2>1, ListIsSeq
    <3>2. V \subseteq S
      BY <2>1
    <3> HIDE DEF V, S, s
    <3> QED
      BY <3>1, <3>2, SeqMonotonic
  <2>3. EqualPieces(s, k, q, S)
    <3>1. DOMAIN s = 1 .. k /\ s = [r \in 1 .. k |-> s[r]]
      OBVIOUS
    <3> HIDE DEF s, S
    <3>2. s \in [1 .. k -> Seq(S)]
      BY <2>2, <3>1
    <3>3. s \in Seq(Seq(S)) /\ Len(s) = k
      BY <3>2
    <3> QED
      BY <2>2, <3>3 DEF EqualPieces
  <2> HIDE DEF s, S
  <2>4. /\ FlattenSeq(s) \in Seq(S) /\ Len(FlattenSeq(s)) = k * q
        /\ \A r \in 1 .. k, j \in 1 .. q : FlattenSeq(s)[(r - 1) * q + j] = s[r][j]
    BY <2>3, FlattenPieces DEF FlatOf
  <2>5. DOMAIN FlattenSeq(s) = 1 .. n
    BY <2>4, LenProperties
  <2>6. IsList(FlattenSeq(s), n)
    <3>1. n \in Nat
      OBVIOUS
    <3> QED
      BY <2>4, <2>5, <3>1, ListOf
  <2> QED
    BY <2>1, <2>4, <2>6 DEF s
<1> HIDE DEF lists
<1>4. DOMAIN Concat(parts) = names /\ Concat(parts) = [c \in DOMAIN Concat(parts) |-> Concat(parts)[c]]
  BY <1>2
<1>5. names # {}
  BY <1>1 DEF Table
<1> QED
  BY <1>2, <1>3, <1>4, <1>5 DEF Table, Together

\* Two batches are the same when their parts are.
LEMMA ByPieces ==
    ASSUME NEW k \in Nat \ {0}, NEW q \in Nat \ {0}, NEW n, n = k * q,
           NEW a, NEW b, Table(a, n), Table(b, n), NEW parts,
           Together(a, parts, DOMAIN a, k, q), Together(b, parts, DOMAIN a, k, q)
    PROVE  a = b
<1>1. ASSUME NEW c \in DOMAIN a, NEW i \in 1 .. n PROVE a[c][i] = b[c][i]
  <2>1. PICK r \in 1 .. k, j \in 1 .. q : i = (r - 1) * q + j
    BY RowNumber
  <2> QED
    BY <2>1 DEF Together
<1>2. DOMAIN a = DOMAIN b
  BY DEF Together
<1> QED
  BY <1>1, <1>2, SameTable

PartsOf(parts, data, n, k, q) ==
    /\ k \in Nat \ {0} /\ q \in Nat \ {0} /\ n = k * q
    /\ Table(data, n)
    /\ DOMAIN parts = 1 .. k
    /\ \A r \in 1 .. k : parts[r] = Part(data, k, r)
LEMMA PartsTogether ==
    ASSUME NEW parts, NEW data, NEW n, NEW k, NEW q, PartsOf(parts, data, n, k, q)
    PROVE  Concat(parts) = data
<1> USE DEF PartsOf
<1>1. ASSUME NEW r \in 1 .. k, NEW b, b = (r - 1) * q PROVE Shard(parts[r], data, q, b)
  BY <1>1, PartRows
<1>2. \A r \in 1 .. k : Table(parts[r], q) /\ DOMAIN parts[r] = DOMAIN data
  BY <1>1 DEF Shard
<1>3. Table(Concat(parts), n) /\ Together(Concat(parts), parts, DOMAIN data, k, q)
  BY <1>2, ConcatRows
<1>4. Together(data, parts, DOMAIN data, k, q)
  <2> SUFFICES ASSUME NEW c \in DOMAIN data, NEW r \in 1 .. k, NEW j \in 1 .. q
               PROVE  data[c][(r - 1) * q + j] = parts[r][c][j]
    BY DEF Together
  <2>1. PICK b : b = (r - 1) * q
    OBVIOUS
  <2> QED
    BY <1>1, <2>1 DEF Shard
<1>5. DOMAIN Concat(parts) = DOMAIN data
  BY <1>3 DEF Together
<1> QED
  BY <1>3, <1>4, <1>5, ByPieces

\* Where the rows begin that the r-th worker's group of g gathers.
Begin(g, q, r) == ((r - 1) \div g) * (g * q)
LEMMA GroupPlace ==
    ASSUME NEW g \in Nat \ {0}, NEW h \in Nat \ {0}, NEW r \in 1 .. g * h
    PROVE  \E a \in Nat, b \in Nat : /\ a = (r - 1) \div g /\ b = (r - 1) % g
                                     /\ r - 1 = a * g + b /\ b < g /\ a < h
<1>1. PICK y \in Nat : y = r - 1
  OBVIOUS
<1>2. PICK a, b \in Nat : a = y \div g /\ b = y % g /\ y = a * g + b /\ b < g
  BY Dividing
<1>3. a < h
  <2> SUFFICES ASSUME h <= a PROVE FALSE
    BY <1>2
  <2>1. h * g <= a * g
    BY <1>2
  <2> QED
    BY <1>1, <1>2, <2>1
<1> QED
  BY <1>1, <1>2, <1>3

LEMMA GatheredRows ==
    ASSUME NEW g \in Nat \ {0}, NEW h \in Nat \ {0}, NEW k, k = g * h, NEW q \in Nat \ {0},
           NEW n, n = k * q, NEW data, Table(data, n), NEW r \in 1 .. k
    PROVE  Shard(Gathered(data, k, g, r), data, g * q, Begin(g, q, r))
<1>1. k \in Nat \ {0}
  OBVIOUS
<1>2. PICK a \in Nat, b \in Nat : /\ a = (r - 1) \div g /\ b = (r - 1) % g
                                  /\ r - 1 = a * g + b /\ b < g /\ a < h
  BY GroupPlace
<1>3. CASE g = 1
  <2>1. Gathered(data, k, g, r) = Part(data, k, r)
    BY <1>3 DEF Gathered
  <2>2. PICK e : e = (r - 1) * q
    OBVIOUS
  <2>3. g * q = q /\ Begin(g, q, r) = e
    BY <1>2, <1>3, <2>2 DEF Begin
  <2>4. Shard(Part(data, k, r), data, q, e)
    BY <1>1, <2>2, PartRows
  <2> QED
    BY <2>1, <2>3, <2>4
<1>4. CASE g # 1
  <2> DEFINE parts == [s \in 1 .. g |-> Part(data, k, a * g + s)]
  <2>1. Gathered(data, k, g, r) = Concat(parts)
    BY <1>2, <1>4 DEF Gathered
  <2>2. \A s \in 1 .. g : a * g + s \in 1 .. k
    <3> TAKE s \in 1 .. g
    <3>1. a + 1 \in 1 .. h /\ (a + 1) - 1 = a
      BY <1>2
    <3>2. ((a + 1) - 1) * g + s \in 1 .. h * g
      BY <3>1, RowInRange
    <3> QED
      BY <3>1, <3>2
  <2>3. ASSUME NEW s \in 1 .. g, NEW e, e = (a * g + s - 1) * q
        PROVE  Shard(parts[s], data, q, e)
    <3>1. PICK t \in 1 .. k : t = a * g + s
      BY <2>2
    <3>2. e = (t - 1) * q
      BY <2>3, <3>1
    <3>3. Shard(Part(data, k, t), data, q, e)
      BY <1>1, <3>2, PartRows
    <3> QED
      BY <3>1, <3>3
  <2>4. DOMAIN parts = 1 .. g
    OBVIOUS
  <2> HIDE DEF parts
  <2>5. \A s \in 1 .. g : Table(parts[s], q) /\ DOMAIN parts[s] = DOMAIN data
    BY <2>3 DEF Shard
  <2>6. PICK m : m = g * q
    OBVIOUS
  <2>7. Table(Concat(parts), m) /\ Together(Concat(parts), parts, DOMAIN data, g, q)
    BY <2>4, <2>5, <2>6, ConcatRows
  <2>8. ASSUME NEW c \in DOMAIN data, NEW i \in 1 .. m
        PROVE  Concat(parts)[c][i] = data[c][Begin(g, q, r) + i]
    <3>1. PICK s \in 1 .. g, j \in 1 .. q : i = (s - 1) * q + j
      BY <2>6, RowNumber
    <3>2. PICK e : e = (a * g + s - 1) * q
      OBVIOUS
    <3>3. Concat(parts)[c][i] = parts[s][c][j]
      BY <2>7, <3>1 DEF Together
    <3>4. parts[s][c][j] = data[c][e + j]
      BY <2>3, <3>2 DEF Shard
    <3>5. e + j = Begin(g, q, r) + i
      <4>1. (a * g + s - 1) * q = a * (g * q) + (s - 1) * q
        OBVIOUS
      <4>2. Begin(g, q, r) = a * (g * q)
        BY <1>2 DEF Begin
      <4>3. a * (g * q) \in Nat /\ (s - 1) * q \in Nat
        OBVIOUS
      <4> QED
        BY <3>1, <3>2, <4>1, <4>2, <4>3
    <3> QED
      BY <3>3, <3>4, <3>5
  <2>9. DOMAIN Concat(parts) = DOMAIN data
    BY <2>7 DEF Together
  <2>10. Shard(Concat(parts), data, m, Begin(g, q, r))
    BY <2>7, <2>8, <2>9 DEF Shard
  <2> QED
    BY <2>1, <2>6, <2>10
<1> QED
  BY <1>3, <1>4

\* n rows of k workers in groups of g, q rows each.
Split(n, k, g, q) ==
    /\ k \in Nat \ {0} /\ q \in Nat \ {0} /\ n = k * q /\ g \in Nat \ {0}
    /\ \E h \in Nat \ {0} : k = g * h
OfGroup(part, data, g, q, r) == Shard(part, data, g * q, Begin(g, q, r))

LEMMA GatheredPart ==
    ASSUME NEW n, NEW k, NEW g, NEW q, Split(n, k, g, q), NEW data, Table(data, n), NEW r \in 1 .. k
    PROVE  OfGroup(Gathered(data, k, g, r), data, g, q, r)
<1>1. PICK h \in Nat \ {0} : k = g * h
  BY DEF Split
<1>2. q \in Nat \ {0} /\ n = k * q /\ g \in Nat \ {0}
  BY DEF Split
<1> QED
  BY <1>1, <1>2, GatheredRows DEF OfGroup

\* What a worker keeps of an outcome that its group has computed.
LEMMA OwnRows ==
    ASSUME NEW g \in Nat \ {0}, NEW h \in Nat \ {0}, NEW k, k = g * h, NEW q \in Nat \ {0},
           NEW n, n = k * q, NEW data, Table(data, n), NEW r \in 1 .. k,
           NEW outcome, Shard(outcome, data, g * q, Begin(g, q, r))
    PROVE  Own(outcome, g, r) = Part(data, k, r)
<1>1. k \in Nat \ {0}
  OBVIOUS
<1>2. PICK a \in Nat, b \in Nat : /\ a = (r - 1) \div g /\ b = (r - 1) % g
                                  /\ r - 1 = a * g + b /\ b < g /\ a < h
  BY GroupPlace
<1>3. PICK e : e = (r - 1) * q
  OBVIOUS
<1>4. Shard(Part(data, k, r), data, q, e)
  BY <1>1, <1>3, PartRows
<1>5. Shard(Own(outcome, g, r), data, q, e)
  <2>1. CASE g = 1
    <3>1. Own(outcome, g, r) = outcome
      BY <2>1 DEF Own
    <3>2. g * q = q /\ Begin(g, q, r) = e
      BY <1>2, <1>3, <2>1 DEF Begin
    <3> QED
      BY <3>1, <3>2
  <2>2. CASE g # 1
    <3> DEFINE own == Part(outcome, g, 1 + b)
    <3>1. Own(outcome, g, r) = own
      BY <1>2, <2>2 DEF Own
    <3>2. 1 + b \in 1 .. g /\ (1 + b) - 1 = b
      BY <1>2
    <3>3. PICK m, d : m = g * q /\ d = b * q
      OBVIOUS
    <3>4. Shard(own, outcome, q, d)
      <4>1. PICK t \in 1 .. g : t = 1 + b /\ d = (t - 1) * q
        BY <3>2, <3>3
      <4>2. Table(outcome, m)
        BY <3>3 DEF Shard
      <4>3. Shard(Part(outcome, g, t), outcome, q, d)
        BY <3>3, <4>1, <4>2, PartRows
      <4> QED
        BY <4>1, <4>3
    <3> HIDE DEF own
    <3>5. ASSUME NEW j \in 1 .. q PROVE d + j \in 1 .. m /\ Begin(g, q, r) + (d + j) = e + j
      <4>1. ((1 + b) - 1) * q + j \in 1 .. g * q
        BY <3>2, RowInRange
      <4>2. d + j \in 1 .. m
        BY <3>2, <3>3, <4>1
      <4>3. Begin(g, q, r) = a * (g * q)
        BY <1>2 DEF Begin
      <4>4. (a * g + b) * q = a * (g * q) + b * q
        OBVIOUS
      <4>5. a * (g * q) \in Nat /\ b * q \in Nat
        OBVIOUS
      <4> QED
        BY <1>2, <1>3, <3>3, <4>2, <4>3, <4>4, <4>5
    <3>6. ASSUME NEW c \in DOMAIN data, NEW j \in 1 .. q PROVE own[c][j] = data[c][e + j]
      <4>1. own[c][j] = outcome[c][d + j]
        BY <3>4 DEF Shard
      <4>2. outcome[c][d + j] = data[c][Begin(g, q, r) + (d + j)]
        BY <3>3, <3>5 DEF Shard
      <4> QED
        BY <3>5, <4>1, <4>2
    <3>7. Shard(own, data, q, e)
      BY <3>4, <3>6 DEF Shard
    <3> QED
      BY <3>1, <3>7
  <2> QED
    BY <2>1, <2>2
<1> QED
  BY <1>4, <1>5, SameTable DEF Shard

LEMMA OwnPart ==
    ASSUME NEW n, NEW k, NEW g, NEW q, Split(n, k, g, q), NEW data, Table(data, n), NEW r \in 1 .. k,
           NEW outcome, OfGroup(outcome, data, g, q, r)
    PROVE  Own(outcome, g, r) = Part(data, k, r)
<1>1. PICK h \in Nat \ {0} : k = g * h
  BY DEF Split
<1>2. q \in Nat \ {0} /\ n = k * q /\ g \in Nat \ {0}
  BY DEF Split
<1>3. Shard(outcome, data, g * q, Begin(g, q, r))
  BY DEF OfGroup
<1> QED
  BY <1>1, <1>2, <1>3, OwnRows

\* The whole call: what the groups compute of the rows they gather is what would
\* be computed of the batch.
Outputs(outputs, whole, k, g, q) ==
    /\ DOMAIN outputs = 1 .. k
    /\ \A r \in 1 .. k : \E outcome : OfGroup(outcome, whole, g, q, r) /\ outputs[r] = Own(outcome, g, r)

LEMMA CallWhole ==
    ASSUME NEW n, NEW k, NEW g, NEW q, Split(n, k, g, q), NEW whole, Table(whole, n),
           NEW outputs, Outputs(outputs, whole, k, g, q)
    PROVE  Concat(outputs) = whole
<1>1. ASSUME NEW r \in 1 .. k PROVE outputs[r] = Part(whole, k, r)
  <2>1. PICK outcome : OfGroup(outcome, whole, g, q, r) /\ outputs[r] = Own(outcome, g, r)
    BY DEF Outputs
  <2> QED
    BY <2>1, OwnPart
<1>2. k \in Nat \ {0} /\ q \in Nat \ {0} /\ n = k * q /\ DOMAIN outputs = 1 .. k
  BY DEF Split, Outputs
<1>3. PartsOf(outputs, whole, n, k, q)
  BY <1>1, <1>2 DEF PartsOf
<1> QED
  BY <1>3, PartsTogether

\* Nothing is padded, and nothing cut off, when the workers divide the batch.
LEMMA TakeAll ==
    ASSUME NEW n \in Nat, NEW data, Table(data, n), NEW index, DOMAIN index = 1 .. n,
           \A i \in 1 .. n : index[i] = i
    PROVE  Take(data, index) = data
<1>1. \A i \in 1 .. n : index[i] \in 1 .. n
  OBVIOUS
<1>2. RowsAt(Take(data, index), data, index, n)
  BY <1>1, TakeTable DEF Selects
<1> QED
  BY <1>2, SameTable DEF RowsAt

LEMMA NothingCut ==
    ASSUME NEW n \in Nat, NEW data, Table(data, n)
    PROVE  Unpad(data, 0) = data
<1> DEFINE index == [i \in 1 .. n |-> i]
<1>1. Unpad(data, 0) = Take(data, index)
  BY TableRows DEF Unpad, FirstRows
<1>2. DOMAIN index = 1 .. n /\ \A i \in 1 .. n : index[i] = i
  OBVIOUS
<1> HIDE DEF index
<1> QED
  BY <1>1, <1>2, TakeAll

\* The first n of m rows.
LEMMA FirstOf ==
    ASSUME NEW n \in Nat, NEW m \in Nat, n <= m, NEW data, Table(data, m)
    PROVE  /\ Table(FirstRows(data, n), n)
           /\ DOMAIN FirstRows(data, n) = DOMAIN data
           /\ \A c \in DOMAIN data, i \in 1 .. n : FirstRows(data, n)[c][i] = data[c][i]
<1> DEFINE index == [i \in 1 .. n |-> i]
<1>1. Selects(index, n, m)
  BY DEF Selects
<1>2. \A i \in 1 .. n : index[i] = i
  OBVIOUS
<1>3. FirstRows(data, n) = Take(data, index)
  BY DEF FirstRows
<1> HIDE DEF index
<1>4. RowsAt(Take(data, index), data, index, n)
  BY <1>1, TakeTable
<1> QED
  BY <1>2, <1>3, <1>4 DEF RowsAt

\* The padding is less than a row for every worker,
LEMMA PadSizeBounds ==
    ASSUME NEW n \in Nat, NEW k \in Nat \ {0}
    PROVE  PadSize(n, k) \in 0 .. k - 1
  BY DEF PadSize

\* and with it the workers divide the batch.
LEMMA PadSizeDivides ==
    ASSUME NEW n \in Nat, NEW k \in Nat \ {0}
    PROVE  (n + PadSize(n, k)) % k = 0
<1> DEFINE m == n % k
           q == n \div k
<1>1. m \in 0 .. k - 1 /\ q \in Nat /\ n = k * q + m
  OBVIOUS
<1>2. CASE m = 0
  BY <1>1, <1>2 DEF PadSize
<1>3. CASE m # 0
  <2>1. k - m \in 1 .. k - 1
    BY <1>1, <1>3
  <2>2. (k - m) % k = k - m
    BY <2>1
  <2>3. n + PadSize(n, k) = k * (q + 1)
    BY <1>1, <2>2 DEF PadSize
  <2> QED
    BY <1>1, <2>3
<1> QED
  BY <1>2, <1>3

\* m rows, a whole number for each of k workers, of which the first n are those of
\* a batch.
Pads(argument, data, n, m, k) ==
    /\ m \in Nat \ {0} /\ n <= m /\ m % k = 0
    /\ Table(argument, m)
    /\ DOMAIN argument = DOMAIN data
    /\ \A c \in DOMAIN data, i \in 1 .. n : argument[c][i] = data[c][i]
    /\ \A i \in 1 .. m : \E j \in 1 .. n : \A c \in DOMAIN data : argument[c][i] = data[c][j]
    /\ m = n => argument = data
    /\ n % k = 0 => m = n

LEMMA PadsItself ==
    ASSUME NEW k \in Nat \ {0}, NEW n \in Nat \ {0}, NEW data, Table(data, n), n % k = 0
    PROVE  Pads(data, data, n, n, k)
  BY DEF Pads

\* The argument of a call, as the call leaves it.
LEMMA ArgumentRows ==
    ASSUME NEW k \in Nat \ {0}, NEW n \in Nat \ {0}, NEW data, Table(data, n),
           NEW padding \in BOOLEAN, CanDispatch(data, k, padding)
    PROVE  \E m \in Nat \ {0} : Pads(Argument(data, k, padding), data, n, m, k)
<1>1. Rows(data) = n
  BY TableRows
<1>2. CASE ~padding
  <2>1. Argument(data, k, padding) = data /\ n % k = 0
    BY <1>1, <1>2 DEF Argument, CanDispatch
  <2> QED
    BY <2>1, PadsItself
<1>3. CASE padding
  <2> DEFINE m == n + PadSize(n, k)
             index == [i \in 1 .. m |-> IF i > n THEN n ELSE i]
             a == Argument(data, k, padding)
  <2>1. m \in Nat \ {0} /\ n <= m
    BY PadSizeBounds
  <2>2. m % k = 0
    BY PadSizeDivides
  <2>3. a = Take(data, index)
    BY <1>1, <1>3 DEF Argument, AutoPadded
  <2>4. n % k = 0 => m = n
    BY DEF PadSize
  <2>5. DOMAIN index = 1 .. m /\ \A i \in 1 .. m : index[i] = IF i > n THEN n ELSE i
    OBVIOUS
  <2> HIDE DEF m, index, a
  <2>6. Selects(index, m, n)
    BY <2>5 DEF Selects
  <2>7. RowsAt(a, data, index, m)
    BY <2>3, <2>6, TakeTable
  <2>8. ASSUME m = n PROVE a = data
    <3>1. \A i \in 1 .. n : index[i] = i
      BY <2>5, <2>8
    <3> QED
      BY <2>3, <2>5, <2>8, <3>1, TakeAll
  <2>9. \A c \in DOMAIN data, i \in 1 .. n : a[c][i] = data[c][i]
    BY <2>1, <2>5, <2>7 DEF RowsAt
  <2>10. \A i \in 1 .. m : index[i] \in 1 .. n /\ \A c \in DOMAIN data : a[c][i] = data[c][index[i]]
    BY <2>6, <2>7 DEF RowsAt, Selects
  <2>11. Pads(a, data, n, m, k)
    BY <2>1, <2>2, <2>4, <2>7, <2>8, <2>9, <2>10 DEF Pads, RowsAt
  <2> QED
    BY <2>1, <2>11 DEF a
<1> QED
  BY <1>2, <1>3

\* Of the rows that the workers' outputs come to, as many go as were added.
LEMMA CallResult ==
    ASSUME NEW N, NEW k, NEW g, NEW q, Split(N, k, g, q), NEW whole, Table(whole, N),
           NEW outputs, Outputs(outputs, whole, k, g, q),
           NEW n \in Nat \ {0}, NEW m \in Nat \ {0}, NEW data, Table(data, n),
           NEW argument, Table(argument, m)
    PROVE  Result(outputs, argument, data) = FirstRows(whole, N - (m - n))
<1>1. Concat(outputs) = whole
  BY CallWhole
<1>2. Rows(argument) = m /\ Rows(data) = n
  BY TableRows
<1>3. N \in Nat
  BY DEF Split
<1>4. Rows(whole) = N
  BY <1>3, TableRows
<1> QED
  BY <1>1, <1>2, <1>4 DEF Result, Unpad

\* One column.
LEMMA OneTable ==
    ASSUME NEW n, NEW name, NEW column, IsList(column, n)
    PROVE  Table(One(name, column), n)
  BY DEF One, Table

LEMMA OneShard ==
    ASSUME NEW name, NEW column, NEW cells, NEW m, NEW b, IsList(column, m),
           \A i \in 1 .. m : column[i] = cells[b + i]
    PROVE  Shard(One(name, column), One(name, cells), m, b)
<1>1. DOMAIN One(name, column) = {name} /\ DOMAIN One(name, cells) = {name}
  BY DEF One
<1>2. One(name, column)[name] = column /\ One(name, cells)[name] = cells
  BY DEF One
<1>3. Table(One(name, column), m)
  BY OneTable
<1> QED
  BY <1>1, <1>2, <1>3 DEF Shard

\* A call that answers in one column, computed row by row.
Answered(outputs, name, columns, k, g, q, cells) ==
    /\ DOMAIN outputs = 1 .. k
    /\ \A r \in 1 .. k :
         /\ outputs[r] = Own(One(name, columns[r]), g, r)
         /\ IsList(columns[r], g * q)
         /\ \A i \in 1 .. g * q : columns[r][i] = cells[Begin(g, q, r) + i]

LEMMA ColumnResult ==
    ASSUME NEW m, NEW k, NEW g, NEW q, Split(m, k, g, q),
           NEW name, NEW columns, NEW cells, IsList(cells, m),
           NEW outputs, Answered(outputs, name, columns, k, g, q, cells),
           NEW n \in Nat \ {0}, n <= m, NEW data, Table(data, n),
           NEW argument, Table(argument, m)
    PROVE  Result(outputs, argument, data) = One(name, [i \in 1 .. n |-> cells[i]])
<1>1. Table(One(name, cells), m)
  BY OneTable
<1>2. ASSUME NEW r \in 1 .. k
      PROVE  /\ OfGroup(One(name, columns[r]), One(name, cells), g, q, r)
             /\ outputs[r] = Own(One(name, columns[r]), g, r)
  <2>1. PICK w, b, column : w = g * q /\ b = Begin(g, q, r) /\ column = columns[r]
    OBVIOUS
  <2>2. IsList(column, w) /\ \A i \in 1 .. w : column[i] = cells[b + i]
    BY <2>1 DEF Answered
  <2>3. Shard(One(name, column), One(name, cells), w, b)
    BY <2>2, OneShard
  <2> QED
    BY <2>1, <2>3 DEF OfGroup, Answered
<1>3. Outputs(outputs, One(name, cells), k, g, q)
  BY <1>2 DEF Outputs, Answered
<1>4. m \in Nat \ {0}
  BY DEF Split
<1>5. Result(outputs, argument, data) = FirstRows(One(name, cells), m - (m - n))
  BY <1>1, <1>3, <1>4, CallResult
<1>6. m - (m - n) = n
  BY <1>4
<1> DEFINE first == [i \in 1 .. n |-> cells[i]]
<1>7. IsList(first, n) /\ \A i \in 1 .. n : first[i] = cells[i]
  BY DEF IsList
<1> HIDE DEF first
<1>8. Table(One(name, first), n)
  BY <1>7, OneTable
<1>9. /\ Table(FirstRows(One(name, cells), n), n)
      /\ DOMAIN FirstRows(One(name, cells), n) = {name}
      /\ \A i \in 1 .. n : FirstRows(One(name, cells), n)[name][i] = cells[i]
  <2>1. DOMAIN One(name, cells) = {name} /\ One(name, cells)[name] = cells
    BY DEF One
  <2> QED
    BY <1>1, <1>4, <2>1, FirstOf
<1>10. DOMAIN One(name, first) = {name} /\ One(name, first)[name] = first
  BY DEF One
<1>11. FirstRows(One(name, cells), n) = One(name, first)
  BY <1>7, <1>8, <1>9, <1>10, SameTable
<1> QED
  BY <1>5, <1>6, <1>11 DEF first

\* A padded batch, row by row: its own rows, then again from the start.
LEMMA PaddedRows ==
    ASSUME NEW n \in Nat \ {0}, NEW k \in Nat \ {0}, NEW data, Table(data, n)
    PROVE  /\ Table(Padded(data, k), n + PadSize(n, k))
           /\ DOMAIN Padded(data, k) = DOMAIN data
           /\ \A c \in DOMAIN data, i \in 1 .. n : Padded(data, k)[c][i] = data[c][i]
<1> DEFINE m == n + PadSize(n, k)
           index == [i \in 1 .. m |-> 1 + ((i - 1) % n)]
<1>1. Padded(data, k) = Take(data, index)
  <2>1. Rows(data) = n
    BY TableRows
  <2> QED
    BY <2>1 DEF Padded
<1>2. m \in Nat /\ n <= m
  BY PadSizeBounds
<1>3. Selects(index, m, n)
  <2>1. \A i \in 1 .. m : 1 + ((i - 1) % n) \in 1 .. n
    BY <1>2
  <2> QED
    BY <2>1 DEF Selects
<1>4. \A i \in 1 .. n : i \in 1 .. m /\ index[i] = i
  <2>1. \A i \in 1 .. n : (i - 1) % n = i - 1
    OBVIOUS
  <2>2. \A i \in 1 .. n : i \in 1 .. m
    BY <1>2
  <2> QED
    BY <2>1, <2>2
<1> HIDE DEF index, m
<1>5. RowsAt(Take(data, index), data, index, m)
  BY <1>3, TakeTable
<1> QED
  BY <1>1, <1>4, <1>5 DEF RowsAt, m

\* pad_dataproto_to_divisor: the workers divide the padded batch, so that the
\* assertion of chunk holds, of whatever size the batch and the group are.
THEOREM PaddingDivides ==
    ASSUME NEW n \in Nat \ {0}, NEW k \in Nat \ {0}, NEW data, Table(data, n)
    PROVE  CanDispatch(Padded(data, k), k, FALSE)
<1>1. n + PadSize(n, k) \in Nat
  BY PadSizeBounds
<1>2. Rows(Padded(data, k)) = n + PadSize(n, k)
  BY <1>1, PaddedRows, TableRows
<1> QED
  BY <1>2, PadSizeDivides DEF CanDispatch

\* unpad_dataproto after pad_dataproto_to_divisor: the batch as it was, every
\* row at its place.
THEOREM PaddingUndone ==
    ASSUME NEW n \in Nat \ {0}, NEW k \in Nat \ {0}, NEW data, Table(data, n)
    PROVE  Unpad(Padded(data, k), PadSize(n, k)) = data
<1> DEFINE padded == Padded(data, k)
           m == n + PadSize(n, k)
<1>1. PadSize(n, k) \in Nat /\ m \in Nat /\ n <= m
  BY PadSizeBounds
<1>2. /\ Table(padded, m) /\ DOMAIN padded = DOMAIN data
      /\ \A c \in DOMAIN data, i \in 1 .. n : padded[c][i] = data[c][i]
  BY PaddedRows
<1>3. Rows(padded) - PadSize(n, k) = n
  <2>1. Rows(padded) = m
    BY <1>1, <1>2, TableRows
  <2> QED
    BY <1>1, <2>1
<1> HIDE DEF padded, m
<1>4. /\ Table(FirstRows(padded, n), n) /\ DOMAIN FirstRows(padded, n) = DOMAIN padded
      /\ \A c \in DOMAIN padded, i \in 1 .. n : FirstRows(padded, n)[c][i] = padded[c][i]
  BY <1>1, <1>2, FirstOf
<1>5. FirstRows(padded, n) = data
  BY <1>2, <1>4, SameTable
<1> QED
  BY <1>3, <1>5 DEF Unpad, padded
-----------------------------------------------------------------------------
(* The calls of the driver.                                                  *)

\* Sizes are positive, and groups divide the workers.
Sizes(c) ==
    /\ c.prompts \in Nat \ {0} /\ c.genPrompts \in Nat \ {0} /\ c.samples \in Nat \ {0}
    /\ c.workers \in Nat \ {0} /\ c.sp \in Nat \ {0} /\ c.tp \in Nat \ {0} /\ c.valSamples \in Nat \ {0}
    /\ c.autoPadding \in BOOLEAN /\ c.toolUse \in BOOLEAN /\ c.async \in BOOLEAN
    /\ c.workers % c.sp = 0 /\ c.workers % c.tp = 0

LEMMA SizesOfConfig ==
    ASSUME config \in Configs
    PROVE  Sizes(config)
<1>1. config \in Config /\ config.workers % config.sp = 0 /\ config.workers % config.tp = 0
  BY ConfigsAssumption
<1> QED
  BY <1>1 DEF Config, Sizes

LEMMA SplitRows ==
    ASSUME NEW m \in Nat \ {0}, NEW k \in Nat \ {0}, m % k = 0, NEW g \in Nat \ {0}, k % g = 0
    PROVE  \E q \in Nat \ {0} : Split(m, k, g, q)
<1>1. m = ((m \div k) * k) + (m % k) /\ m \div k \in Nat
  BY Dividing
<1>2. k = ((k \div g) * g) + (k % g) /\ k \div g \in Nat
  BY Dividing
<1>3. PICK q \in Nat : m = q * k
  BY <1>1
<1>4. PICK h \in Nat : k = h * g
  BY <1>2
<1>5. q # 0 /\ h # 0
  BY <1>3, <1>4
<1>6. m = k * q /\ k = g * h
  BY <1>3, <1>4
<1> QED
  BY <1>5, <1>6 DEF Split

\* The rows that the groups gather are within the batch.
LEMMA GroupRange ==
    ASSUME NEW m, NEW k, NEW g, NEW q, Split(m, k, g, q), NEW r \in 1 .. k, NEW i \in 1 .. g * q
    PROVE  Begin(g, q, r) + i \in 1 .. m
<1>1. PICK h \in Nat \ {0} : k = g * h
  BY DEF Split
<1>2. q \in Nat \ {0} /\ m = k * q /\ g \in Nat \ {0}
  BY DEF Split
<1>3. r \in 1 .. g * h
  BY <1>1
<1>4. PICK a \in Nat, b \in Nat : /\ a = (r - 1) \div g /\ b = (r - 1) % g
                                  /\ r - 1 = a * g + b /\ b < g /\ a < h
  BY <1>2, <1>3, GroupPlace
<1>5. PICK w \in Nat \ {0} : w = g * q
  BY <1>2
<1>6. a + 1 \in 1 .. h /\ (a + 1) - 1 = a
  BY <1>4
<1>7. a * w + i \in 1 .. h * w
  <2>1. ((a + 1) - 1) * w + i \in 1 .. h * w
    BY <1>5, <1>6, RowInRange
  <2> QED
    BY <1>6, <2>1
<1>8. h * w = m
  BY <1>1, <1>2, <1>5
<1>9. Begin(g, q, r) = a * w
  BY <1>4, <1>5 DEF Begin
<1> QED
  BY <1>7, <1>8, <1>9

\* What the workers are given of the m rows of an argument.
Given(part, argument, g, q, r, m) ==
    /\ Table(part, g * q) /\ Rows(part) = g * q /\ g * q \in Nat
    /\ DOMAIN part = DOMAIN argument
    /\ \A i \in 1 .. g * q :
         /\ Begin(g, q, r) + i \in 1 .. m
         /\ \A c \in DOMAIN argument : part[c][i] = argument[c][Begin(g, q, r) + i]

LEMMA GivenRows ==
    ASSUME NEW m, NEW k, NEW g, NEW q, Split(m, k, g, q), NEW argument, Table(argument, m), NEW r \in 1 .. k
    PROVE  Given(Gathered(argument, k, g, r), argument, g, q, r, m)
<1>1. OfGroup(Gathered(argument, k, g, r), argument, g, q, r)
  BY GatheredPart
<1>2. g * q \in Nat
  BY DEF Split
<1>3. Table(Gathered(argument, k, g, r), g * q)
  BY <1>1 DEF OfGroup, Shard
<1>4. Rows(Gathered(argument, k, g, r)) = g * q
  BY <1>2, <1>3, TableRows
<1>5. \A i \in 1 .. g * q : Begin(g, q, r) + i \in 1 .. m
  BY GroupRange
<1> QED
  BY <1>1, <1>2, <1>3, <1>4, <1>5 DEF Given, OfGroup, Shard

Callable(data, n, names) ==
    /\ config \in Configs
    /\ n \in Nat \ {0} /\ Table(data, n) /\ names \subseteq DOMAIN data
    /\ Accepted(data)

LEMMA CallParts ==
    ASSUME NEW data, NEW n, Callable(data, n, {}), NEW g \in {config.sp, config.tp}
    PROVE  \E m, q \in Nat \ {0} :
              /\ Pads(AsLeft(data), data, n, m, config.workers)
              /\ Split(m, config.workers, g, q)
<1>1. Sizes(config)
  BY SizesOfConfig DEF Callable
<1>2. config.workers \in Nat \ {0} /\ g \in Nat \ {0} /\ config.workers % g = 0 /\ config.autoPadding \in BOOLEAN
  BY <1>1 DEF Sizes
<1>3. n \in Nat \ {0} /\ Table(data, n) /\ CanDispatch(data, config.workers, config.autoPadding)
  BY DEF Callable, Accepted
<1>4. PICK m \in Nat \ {0} : Pads(Argument(data, config.workers, config.autoPadding), data, n, m, config.workers)
  BY <1>2, <1>3, ArgumentRows
<1>5. m % config.workers = 0
  BY <1>4 DEF Pads
<1>6. PICK q \in Nat \ {0} : Split(m, config.workers, g, q)
  BY <1>2, <1>5, SplitRows
<1> QED
  BY <1>4, <1>6 DEF AsLeft

\* compute_log_prob of all workers: a log-prob for each row of the batch, at its
\* place and of its response, however many workers there are, in whatever groups,
\* and whether or not the dispatch pads the batch.
THEOREM LogProbsInPlace ==
    ASSUME NEW data, NEW n, Callable(data, n, {"responses"})
    PROVE  Called(data, LogProb) = One("old_log_probs", [i \in 1 .. n |-> [of |-> data["responses"][i], by |-> actor]])
<1> DEFINE k == config.workers
           g == config.sp
           argument == AsLeft(data)
           part(r) == Gathered(argument, k, g, r)
           columns == [r \in 1 .. k |-> [i \in 1 .. Rows(part(r)) |-> [of |-> part(r)["responses"][i], by |-> actor]]]
           outputs == [r \in 1 .. k |-> Own(One("old_log_probs", columns[r]), g, r)]
<1>1. PICK m, q \in Nat \ {0} : Pads(argument, data, n, m, k) /\ Split(m, k, g, q)
  BY CallParts DEF Callable
<1> DEFINE cells == [i \in 1 .. m |-> [of |-> argument["responses"][i], by |-> actor]]
<1>2. Called(data, LogProb) = Result(outputs, argument, data)
  BY DEF Called, Call, AsLeft, LogProb, Column, One
<1>3. n \in Nat \ {0} /\ Table(data, n) /\ {"responses"} \subseteq DOMAIN data
  BY DEF Callable
<1> HIDE DEF argument
<1>4. Table(argument, m) /\ n <= m /\ DOMAIN argument = DOMAIN data
  BY <1>1 DEF Pads
<1>5. ASSUME NEW r \in 1 .. k
      PROVE  /\ IsList(columns[r], g * q)
             /\ \A i \in 1 .. g * q : columns[r][i] = cells[Begin(g, q, r) + i]
  <2>1. Given(part(r), argument, g, q, r, m)
    BY <1>1, <1>4, GivenRows
  <2> HIDE DEF part
  <2>2. columns[r] = [i \in 1 .. g * q |-> [of |-> part(r)["responses"][i], by |-> actor]]
    BY <2>1 DEF Given
  <2> HIDE DEF columns
  <2>3. IsList(columns[r], g * q)
    BY <2>2 DEF IsList
  <2>4. ASSUME NEW i \in 1 .. g * q PROVE columns[r][i] = cells[Begin(g, q, r) + i]
    <3>1. Begin(g, q, r) + i \in 1 .. m
      BY <2>1 DEF Given
    <3>2. \A c \in {"responses"} : part(r)[c][i] = argument[c][Begin(g, q, r) + i]
      BY <1>3, <1>4, <2>1 DEF Given
    <3> QED
      BY <2>2, <3>1, <3>2
  <2> QED
    BY <2>3, <2>4
<1>6. IsList(cells, m)
  BY DEF IsList
<1>7. DOMAIN outputs = 1 .. k /\ \A r \in 1 .. k : outputs[r] = Own(One("old_log_probs", columns[r]), g, r)
  OBVIOUS
<1>8. \A i \in 1 .. n : cells[i] = [of |-> data["responses"][i], by |-> actor]
  <2>1. \A i \in 1 .. n : i \in 1 .. m
    BY <1>3, <1>4
  <2>2. \A c \in {"responses"}, i \in 1 .. n : argument[c][i] = data[c][i]
    BY <1>1, <1>3 DEF Pads
  <2> QED
    BY <2>1, <2>2
<1> HIDE DEF cells, columns, outputs, k, g
<1>9. Answered(outputs, "old_log_probs", columns, k, g, q, cells)
  BY <1>5, <1>7 DEF Answered
<1>10. Result(outputs, argument, data) = One("old_log_probs", [i \in 1 .. n |-> cells[i]])
  BY <1>1, <1>3, <1>4, <1>6, <1>9, ColumnResult
<1>11. [i \in 1 .. n |-> cells[i]] = [i \in 1 .. n |-> [of |-> data["responses"][i], by |-> actor]]
  BY <1>8
<1> QED
  BY <1>2, <1>10, <1>11

LEMMA RefLogProbCalled ==
    ASSUME NEW data, NEW n, Callable(data, n, {"responses"})
    PROVE  Called(data, RefLogProb) = One("ref_log_prob", [i \in 1 .. n |-> [of |-> data["responses"][i]]])
<1> DEFINE k == config.workers
           g == config.sp
           argument == AsLeft(data)
           part(r) == Gathered(argument, k, g, r)
           columns == [r \in 1 .. k |-> [i \in 1 .. Rows(part(r)) |-> [of |-> part(r)["responses"][i]]]]
           outputs == [r \in 1 .. k |-> Own(One("ref_log_prob", columns[r]), g, r)]
<1>1. PICK m, q \in Nat \ {0} : Pads(argument, data, n, m, k) /\ Split(m, k, g, q)
  BY CallParts DEF Callable
<1> DEFINE cells == [i \in 1 .. m |-> [of |-> argument["responses"][i]]]
<1>2. Called(data, RefLogProb) = Result(outputs, argument, data)
  BY DEF Called, Call, AsLeft, RefLogProb, Column, One
<1>3. n \in Nat \ {0} /\ Table(data, n) /\ {"responses"} \subseteq DOMAIN data
  BY DEF Callable
<1> HIDE DEF argument
<1>4. Table(argument, m) /\ n <= m /\ DOMAIN argument = DOMAIN data
  BY <1>1 DEF Pads
<1>5. ASSUME NEW r \in 1 .. k
      PROVE  /\ IsList(columns[r], g * q)
             /\ \A i \in 1 .. g * q : columns[r][i] = cells[Begin(g, q, r) + i]
  <2>1. Given(part(r), argument, g, q, r, m)
    BY <1>1, <1>4, GivenRows
  <2> HIDE DEF part
  <2>2. columns[r] = [i \in 1 .. g * q |-> [of |-> part(r)["responses"][i]]]
    BY <2>1 DEF Given
  <2> HIDE DEF columns
  <2>3. IsList(columns[r], g * q)
    BY <2>2 DEF IsList
  <2>4. ASSUME NEW i \in 1 .. g * q PROVE columns[r][i] = cells[Begin(g, q, r) + i]
    <3>1. Begin(g, q, r) + i \in 1 .. m
      BY <2>1 DEF Given
    <3>2. \A c \in {"responses"} : part(r)[c][i] = argument[c][Begin(g, q, r) + i]
      BY <1>3, <1>4, <2>1 DEF Given
    <3> QED
      BY <2>2, <3>1, <3>2
  <2> QED
    BY <2>3, <2>4
<1>6. IsList(cells, m)
  BY DEF IsList
<1>7. DOMAIN outputs = 1 .. k /\ \A r \in 1 .. k : outputs[r] = Own(One("ref_log_prob", columns[r]), g, r)
  OBVIOUS
<1>8. \A i \in 1 .. n : cells[i] = [of |-> data["responses"][i]]
  <2>1. \A i \in 1 .. n : i \in 1 .. m
    BY <1>3, <1>4
  <2>2. \A c \in {"responses"}, i \in 1 .. n : argument[c][i] = data[c][i]
    BY <1>1, <1>3 DEF Pads
  <2> QED
    BY <2>1, <2>2
<1> HIDE DEF cells, columns, outputs, k, g
<1>9. Answered(outputs, "ref_log_prob", columns, k, g, q, cells)
  BY <1>5, <1>7 DEF Answered
<1>10. Result(outputs, argument, data) = One("ref_log_prob", [i \in 1 .. n |-> cells[i]])
  BY <1>1, <1>3, <1>4, <1>6, <1>9, ColumnResult
<1>11. [i \in 1 .. n |-> cells[i]] = [i \in 1 .. n |-> [of |-> data["responses"][i]]]
  BY <1>8
<1> QED
  BY <1>2, <1>10, <1>11

LEMMA PrivilegedLogProbCalled ==
    ASSUME NEW data, NEW n, Callable(data, n, {"responses", "raw_prompt"})
    PROVE  Called(data, PrivilegedLogProb) = One("ref_log_prob", [i \in 1 .. n |-> [of |-> data["responses"][i], given |-> data["raw_prompt"][i]]])
<1> DEFINE k == config.workers
           g == config.sp
           argument == AsLeft(data)
           part(r) == Gathered(argument, k, g, r)
           columns == [r \in 1 .. k |-> [i \in 1 .. Rows(part(r)) |-> [of |-> part(r)["responses"][i], given |-> part(r)["raw_prompt"][i]]]]
           outputs == [r \in 1 .. k |-> Own(One("ref_log_prob", columns[r]), g, r)]
<1>1. PICK m, q \in Nat \ {0} : Pads(argument, data, n, m, k) /\ Split(m, k, g, q)
  BY CallParts DEF Callable
<1> DEFINE cells == [i \in 1 .. m |-> [of |-> argument["responses"][i], given |-> argument["raw_prompt"][i]]]
<1>2. Called(data, PrivilegedLogProb) = Result(outputs, argument, data)
  BY DEF Called, Call, AsLeft, PrivilegedLogProb, Column, One
<1>3. n \in Nat \ {0} /\ Table(data, n) /\ {"responses", "raw_prompt"} \subseteq DOMAIN data
  BY DEF Callable
<1> HIDE DEF argument
<1>4. Table(argument, m) /\ n <= m /\ DOMAIN argument = DOMAIN data
  BY <1>1 DEF Pads
<1>5. ASSUME NEW r \in 1 .. k
      PROVE  /\ IsList(columns[r], g * q)
             /\ \A i \in 1 .. g * q : columns[r][i] = cells[Begin(g, q, r) + i]
  <2>1. Given(part(r), argument, g, q, r, m)
    BY <1>1, <1>4, GivenRows
  <2> HIDE DEF part
  <2>2. columns[r] = [i \in 1 .. g * q |-> [of |-> part(r)["responses"][i], given |-> part(r)["raw_prompt"][i]]]
    BY <2>1 DEF Given
  <2> HIDE DEF columns
  <2>3. IsList(columns[r], g * q)
    BY <2>2 DEF IsList
  <2>4. ASSUME NEW i \in 1 .. g * q PROVE columns[r][i] = cells[Begin(g, q, r) + i]
    <3>1. Begin(g, q, r) + i \in 1 .. m
      BY <2>1 DEF Given
    <3>2. \A c \in {"responses", "raw_prompt"} : part(r)[c][i] = argument[c][Begin(g, q, r) + i]
      BY <1>3, <1>4, <2>1 DEF Given
    <3> QED
      BY <2>2, <3>1, <3>2
  <2> QED
    BY <2>3, <2>4
<1>6. IsList(cells, m)
  BY DEF IsList
<1>7. DOMAIN outputs = 1 .. k /\ \A r \in 1 .. k : outputs[r] = Own(One("ref_log_prob", columns[r]), g, r)
  OBVIOUS
<1>8. \A i \in 1 .. n : cells[i] = [of |-> data["responses"][i], given |-> data["raw_prompt"][i]]
  <2>1. \A i \in 1 .. n : i \in 1 .. m
    BY <1>3, <1>4
  <2>2. \A c \in {"responses", "raw_prompt"}, i \in 1 .. n : argument[c][i] = data[c][i]
    BY <1>1, <1>3 DEF Pads
  <2> QED
    BY <2>1, <2>2
<1> HIDE DEF cells, columns, outputs, k, g
<1>9. Answered(outputs, "ref_log_prob", columns, k, g, q, cells)
  BY <1>5, <1>7 DEF Answered
<1>10. Result(outputs, argument, data) = One("ref_log_prob", [i \in 1 .. n |-> cells[i]])
  BY <1>1, <1>3, <1>4, <1>6, <1>9, ColumnResult
<1>11. [i \in 1 .. n |-> cells[i]] = [i \in 1 .. n |-> [of |-> data["responses"][i], given |-> data["raw_prompt"][i]]]
  BY <1>8
<1> QED
  BY <1>2, <1>10, <1>11

LEMMA CriticValuesCalled ==
    ASSUME NEW data, NEW n, Callable(data, n, {"responses"})
    PROVE  Called(data, CriticValues) = One("values", [i \in 1 .. n |-> [of |-> data["responses"][i], by |-> critic]])
<1> DEFINE k == config.workers
           g == config.sp
           argument == AsLeft(data)
           part(r) == Gathered(argument, k, g, r)
           columns == [r \in 1 .. k |-> [i \in 1 .. Rows(part(r)) |-> [of |-> part(r)["responses"][i], by |-> critic]]]
           outputs == [r \in 1 .. k |-> Own(One("values", columns[r]), g, r)]
<1>1. PICK m, q \in Nat \ {0} : Pads(argument, data, n, m, k) /\ Split(m, k, g, q)
  BY CallParts DEF Callable
<1> DEFINE cells == [i \in 1 .. m |-> [of |-> argument["responses"][i], by |-> critic]]
<1>2. Called(data, CriticValues) = Result(outputs, argument, data)
  BY DEF Called, Call, AsLeft, CriticValues, Column, One
<1>3. n \in Nat \ {0} /\ Table(data, n) /\ {"responses"} \subseteq DOMAIN data
  BY DEF Callable
<1> HIDE DEF argument
<1>4. Table(argument, m) /\ n <= m /\ DOMAIN argument = DOMAIN data
  BY <1>1 DEF Pads
<1>5. ASSUME NEW r \in 1 .. k
      PROVE  /\ IsList(columns[r], g * q)
             /\ \A i \in 1 .. g * q : columns[r][i] = cells[Begin(g, q, r) + i]
  <2>1. Given(part(r), argument, g, q, r, m)
    BY <1>1, <1>4, GivenRows
  <2> HIDE DEF part
  <2>2. columns[r] = [i \in 1 .. g * q |-> [of |-> part(r)["responses"][i], by |-> critic]]
    BY <2>1 DEF Given
  <2> HIDE DEF columns
  <2>3. IsList(columns[r], g * q)
    BY <2>2 DEF IsList
  <2>4. ASSUME NEW i \in 1 .. g * q PROVE columns[r][i] = cells[Begin(g, q, r) + i]
    <3>1. Begin(g, q, r) + i \in 1 .. m
      BY <2>1 DEF Given
    <3>2. \A c \in {"responses"} : part(r)[c][i] = argument[c][Begin(g, q, r) + i]
      BY <1>3, <1>4, <2>1 DEF Given
    <3> QED
      BY <2>2, <3>1, <3>2
  <2> QED
    BY <2>3, <2>4
<1>6. IsList(cells, m)
  BY DEF IsList
<1>7. DOMAIN outputs = 1 .. k /\ \A r \in 1 .. k : outputs[r] = Own(One("values", columns[r]), g, r)
  OBVIOUS
<1>8. \A i \in 1 .. n : cells[i] = [of |-> data["responses"][i], by |-> critic]
  <2>1. \A i \in 1 .. n : i \in 1 .. m
    BY <1>3, <1>4
  <2>2. \A c \in {"responses"}, i \in 1 .. n : argument[c][i] = data[c][i]
    BY <1>1, <1>3 DEF Pads
  <2> QED
    BY <2>1, <2>2
<1> HIDE DEF cells, columns, outputs, k, g
<1>9. Answered(outputs, "values", columns, k, g, q, cells)
  BY <1>5, <1>7 DEF Answered
<1>10. Result(outputs, argument, data) = One("values", [i \in 1 .. n |-> cells[i]])
  BY <1>1, <1>3, <1>4, <1>6, <1>9, ColumnResult
<1>11. [i \in 1 .. n |-> cells[i]] = [i \in 1 .. n |-> [of |-> data["responses"][i], by |-> critic]]
  BY <1>8
<1> QED
  BY <1>2, <1>10, <1>11

LEMMA RmScoresCalled ==
    ASSUME NEW data, NEW n, Callable(data, n, {"responses"})
    PROVE  Called(data, RmScores) = One("rm_scores", [i \in 1 .. n |-> [of |-> data["responses"][i]]])
<1> DEFINE k == config.workers
           g == config.sp
           argument == AsLeft(data)
           part(r) == Gathered(argument, k, g, r)
           columns == [r \in 1 .. k |-> [i \in 1 .. Rows(part(r)) |-> [of |-> part(r)["responses"][i]]]]
           outputs == [r \in 1 .. k |-> Own(One("rm_scores", columns[r]), g, r)]
<1>1. PICK m, q \in Nat \ {0} : Pads(argument, data, n, m, k) /\ Split(m, k, g, q)
  BY CallParts DEF Callable
<1> DEFINE cells == [i \in 1 .. m |-> [of |-> argument["responses"][i]]]
<1>2. Called(data, RmScores) = Result(outputs, argument, data)
  BY DEF Called, Call, AsLeft, RmScores, Column, One
<1>3. n \in Nat \ {0} /\ Table(data, n) /\ {"responses"} \subseteq DOMAIN data
  BY DEF Callable
<1> HIDE DEF argument
<1>4. Table(argument, m) /\ n <= m /\ DOMAIN argument = DOMAIN data
  BY <1>1 DEF Pads
<1>5. ASSUME NEW r \in 1 .. k
      PROVE  /\ IsList(columns[r], g * q)
             /\ \A i \in 1 .. g * q : columns[r][i] = cells[Begin(g, q, r) + i]
  <2>1. Given(part(r), argument, g, q, r, m)
    BY <1>1, <1>4, GivenRows
  <2> HIDE DEF part
  <2>2. columns[r] = [i \in 1 .. g * q |-> [of |-> part(r)["responses"][i]]]
    BY <2>1 DEF Given
  <2> HIDE DEF columns
  <2>3. IsList(columns[r], g * q)
    BY <2>2 DEF IsList
  <2>4. ASSUME NEW i \in 1 .. g * q PROVE columns[r][i] = cells[Begin(g, q, r) + i]
    <3>1. Begin(g, q, r) + i \in 1 .. m
      BY <2>1 DEF Given
    <3>2. \A c \in {"responses"} : part(r)[c][i] = argument[c][Begin(g, q, r) + i]
      BY <1>3, <1>4, <2>1 DEF Given
    <3> QED
      BY <2>2, <3>1, <3>2
  <2> QED
    BY <2>3, <2>4
<1>6. IsList(cells, m)
  BY DEF IsList
<1>7. DOMAIN outputs = 1 .. k /\ \A r \in 1 .. k : outputs[r] = Own(One("rm_scores", columns[r]), g, r)
  OBVIOUS
<1>8. \A i \in 1 .. n : cells[i] = [of |-> data["responses"][i]]
  <2>1. \A i \in 1 .. n : i \in 1 .. m
    BY <1>3, <1>4
  <2>2. \A c \in {"responses"}, i \in 1 .. n : argument[c][i] = data[c][i]
    BY <1>1, <1>3 DEF Pads
  <2> QED
    BY <2>1, <2>2
<1> HIDE DEF cells, columns, outputs, k, g
<1>9. Answered(outputs, "rm_scores", columns, k, g, q, cells)
  BY <1>5, <1>7 DEF Answered
<1>10. Result(outputs, argument, data) = One("rm_scores", [i \in 1 .. n |-> cells[i]])
  BY <1>1, <1>3, <1>4, <1>6, <1>9, ColumnResult
<1>11. [i \in 1 .. n |-> cells[i]] = [i \in 1 .. n |-> [of |-> data["responses"][i]]]
  BY <1>8
<1> QED
  BY <1>2, <1>10, <1>11
-----------------------------------------------------------------------------
(* Generation.                                                               *)

\* What is generated with a prompt, and of which prompt's row the i-th of s rows
\* each is.
Masks(c) == IF ~c.toolUse THEN {} ELSE IF c.async THEN {"response_mask"} ELSE {"loss_mask"}
Answering(c) == {"responses", "attention_mask"} \cup Masks(c)
SourceRow(i, s) == 1 + ((i - 1) \div s)
Answer(prompt, sample, length) ==
    [prompt |-> prompt, sample |-> sample, by |-> actor, length |-> length[<<prompt, sample>>]]

\* data is what is generated of the w rows of part.
GeneratedOf(data, part, w, s, first, length) ==
    /\ Table(data, s * w)
    /\ DOMAIN data = DOMAIN part \cup Answering(config)
    /\ \A i \in 1 .. s * w :
         /\ SourceRow(i, s) \in 1 .. w
         /\ \A c \in DOMAIN part : data[c][i] = part[c][SourceRow(i, s)]
         /\ data["responses"][i] = Answer(part["input_ids"][SourceRow(i, s)], first + ((i - 1) % s), length)
         /\ data["attention_mask"][i] = Attended
         /\ \A c \in Answering(config) \ {"responses", "attention_mask"} : data[c][i] = {"generated"}
Promptlike(part) == "input_ids" \in DOMAIN part /\ DOMAIN part \subseteq {"input_ids", "raw_prompt"}

LEMMA SourceRowOf ==
    ASSUME NEW s \in Nat \ {0}, NEW a \in Nat, NEW j \in 1 .. s, NEW i, i = a * s + j
    PROVE  SourceRow(i, s) = a + 1 /\ (i - 1) % s = j - 1
  BY PlaceOf DEF SourceRow

LEMMA SourceInRange ==
    ASSUME NEW s \in Nat \ {0}, NEW w \in Nat, NEW i \in 1 .. s * w
    PROVE  SourceRow(i, s) \in 1 .. w /\ (i - 1) % s \in 0 .. s - 1
<1>1. i \in 1 .. w * s
  OBVIOUS
<1>2. PICK g \in 1 .. w, j \in 1 .. s : i = (g - 1) * s + j
  BY <1>1, RowNumber
<1>3. PICK a \in Nat : a = g - 1
  BY <1>2
<1>4. i = a * s + j
  BY <1>2, <1>3
<1>5. SourceRow(i, s) = a + 1 /\ (i - 1) % s = j - 1
  BY <1>4, SourceRowOf
<1> QED
  BY <1>2, <1>3, <1>5

RepeatOf(rows, data, w, s) ==
    /\ Table(rows, s * w)
    /\ DOMAIN rows = DOMAIN data
    /\ \A c \in DOMAIN data, i \in 1 .. s * w : rows[c][i] = data[c][SourceRow(i, s)]
LEMMA RepeatRows ==
    ASSUME NEW s \in Nat \ {0}, NEW w \in Nat \ {0}, NEW data, Table(data, w)
    PROVE  RepeatOf(Repeat(data, s), data, w, s)
<1> DEFINE index == [i \in 1 .. s * w |-> SourceRow(i, s)]
<1>1. Rows(data) = w
  BY TableRows
<1>2. Repeat(data, s) = Take(data, index)
  BY <1>1 DEF Repeat, SourceRow
<1>3. DOMAIN index = 1 .. s * w /\ \A i \in 1 .. s * w : index[i] = SourceRow(i, s)
  OBVIOUS
<1>4. PICK n : n = s * w
  OBVIOUS
<1> HIDE DEF index
<1>5. Selects(index, n, w)
  BY <1>3, <1>4, SourceInRange DEF Selects
<1>6. RowsAt(Take(data, index), data, index, n)
  BY <1>5, TakeTable
<1> QED
  BY <1>2, <1>3, <1>6, <1>4 DEF RowsAt, RepeatOf

LEMMA GeneratedRows ==
    ASSUME NEW s \in Nat \ {0}, NEW w \in Nat \ {0}, NEW part, Table(part, w), Promptlike(part),
           NEW first, NEW length
    PROVE  GeneratedOf(Generated(part, s, first, length), part, w, s, first, length)
<1> DEFINE rows == Repeat(part, s)
           answers == [i \in 1 .. Rows(rows) |->
                          Answer(rows["input_ids"][i], first + ((i - 1) % s), length)]
           mask(kinds) == [i \in 1 .. Rows(rows) |-> kinds]
           responded == Put(rows, "responses", answers)
           attended == Put(responded, "attention_mask", mask(Attended))
           name == IF config.async THEN "response_mask" ELSE "loss_mask"
           all == IF ~config.toolUse THEN attended ELSE Put(attended, name, mask({"generated"}))
<1>1. Generated(part, s, first, length) = all
  BY DEF Generated, Answer
<1>2. PICK n : n = s * w /\ n \in Nat
  OBVIOUS
<1>3. /\ Table(rows, n) /\ DOMAIN rows = DOMAIN part
      /\ \A c \in DOMAIN part, i \in 1 .. n : rows[c][i] = part[c][SourceRow(i, s)]
  <2>1. RepeatOf(rows, part, w, s)
    BY RepeatRows
  <2> QED
    BY <1>2, <2>1 DEF RepeatOf
<1>4. Rows(rows) = n
  BY <1>3, <1>2, TableRows
<1>5. /\ IsList(answers, n)
      /\ \A i \in 1 .. n : answers[i] = Answer(rows["input_ids"][i], first + ((i - 1) % s), length)
  BY <1>4 DEF IsList
<1>6. \A kinds : IsList(mask(kinds), n) /\ \A i \in 1 .. n : mask(kinds)[i] = kinds
  BY <1>4 DEF IsList
<1> HIDE DEF rows, answers, mask
<1>7. /\ Table(responded, n) /\ DOMAIN responded = DOMAIN part \cup {"responses"}
      /\ responded["responses"] = answers
      /\ \A c \in DOMAIN part : responded[c] = rows[c]
  <2>1. "responses" \notin DOMAIN part
    BY DEF Promptlike
  <2>2. Extended(responded, rows, n, "responses", answers)
    BY <1>3, <1>5, PutTable
  <2> HIDE DEF responded
  <2> QED
    BY <1>3, <2>1, <2>2 DEF Extended
<1> HIDE DEF responded
<1>8. /\ Table(attended, n) /\ DOMAIN attended = DOMAIN part \cup {"responses", "attention_mask"}
      /\ attended["responses"] = answers /\ attended["attention_mask"] = mask(Attended)
      /\ \A c \in DOMAIN part : attended[c] = rows[c]
  <2>1. "attention_mask" \notin DOMAIN part
    BY DEF Promptlike
  <2>2. Extended(attended, responded, n, "attention_mask", mask(Attended))
    BY <1>6, <1>7, PutTable
  <2> HIDE DEF attended
  <2> QED
    BY <1>7, <2>1, <2>2 DEF Extended
<1> HIDE DEF attended
<1>9. /\ Table(all, n) /\ DOMAIN all = DOMAIN part \cup Answering(config)
      /\ all["responses"] = answers /\ all["attention_mask"] = mask(Attended)
      /\ \A c \in DOMAIN part : all[c] = rows[c]
      /\ \A c \in Answering(config) \ {"responses", "attention_mask"} : all[c] = mask({"generated"})
  <2>1. CASE ~config.toolUse
    BY <1>8, <2>1 DEF Answering, Masks
  <2>2. CASE config.toolUse
    <3> DEFINE put == Put(attended, name, mask({"generated"}))
    <3>1. all = put
      BY <2>2
    <3>2. name \notin DOMAIN part /\ name \notin {"responses", "attention_mask"}
      BY DEF Promptlike
    <3>3. Answering(config) = {"responses", "attention_mask"} \cup {name}
      BY <2>2 DEF Answering, Masks
    <3> HIDE DEF name
    <3>4. Extended(put, attended, n, name, mask({"generated"}))
      BY <1>6, <1>8, PutTable
    <3> HIDE DEF put, all
    <3> QED
      BY <1>8, <3>1, <3>2, <3>3, <3>4 DEF Extended
  <2> QED
    BY <2>1, <2>2
<1> HIDE DEF all
<1>10. \A i \in 1 .. n : SourceRow(i, s) \in 1 .. w
  BY <1>2, SourceInRange
<1>11. "input_ids" \in DOMAIN part
  BY DEF Promptlike
<1>12. \A i \in 1 .. n : rows["input_ids"][i] = part["input_ids"][SourceRow(i, s)]
  BY <1>3, <1>11
<1>13. ASSUME NEW i \in 1 .. n
       PROVE  /\ SourceRow(i, s) \in 1 .. w
              /\ \A c \in DOMAIN part : all[c][i] = part[c][SourceRow(i, s)]
              /\ all["responses"][i] = Answer(part["input_ids"][SourceRow(i, s)], first + ((i - 1) % s), length)
              /\ all["attention_mask"][i] = Attended
              /\ \A c \in Answering(config) \ {"responses", "attention_mask"} : all[c][i] = {"generated"}
  <2>1. \A c \in DOMAIN part : all[c][i] = part[c][SourceRow(i, s)]
    BY <1>3, <1>9
  <2>2. all["responses"][i] = Answer(part["input_ids"][SourceRow(i, s)], first + ((i - 1) % s), length)
    BY <1>5, <1>9, <1>12
  <2>3. all["attention_mask"][i] = Attended
    BY <1>6, <1>9
  <2>4. \A c \in Answering(config) \ {"responses", "attention_mask"} : all[c][i] = {"generated"}
    BY <1>6, <1>9
  <2> QED
    BY <1>10, <2>1, <2>2, <2>3, <2>4
<1> QED
  BY <1>1, <1>9, <1>13, <1>2 DEF GeneratedOf

\* Generating for the prompts a group is given is generating for all of them.
LEMMA GeneratedParts ==
    ASSUME NEW m \in Nat \ {0}, NEW k, NEW g, NEW q, Split(m, k, g, q), NEW s \in Nat \ {0},
           NEW argument, Table(argument, m), Promptlike(argument), NEW first, NEW length,
           NEW whole, GeneratedOf(whole, argument, m, s, first, length), NEW r \in 1 .. k,
           NEW part, Given(part, argument, g, q, r, m),
           NEW x, GeneratedOf(x, part, g * q, s, first, length)
    PROVE  OfGroup(x, whole, g, q * s, r)
<1>1. g \in Nat \ {0} /\ q \in Nat \ {0} /\ k \in Nat \ {0}
  BY DEF Split
<1>2. PICK w \in Nat \ {0} : w = g * q
  BY <1>1
<1>3. PICK b \in Nat : b = Begin(g, q, r)
  <2>1. PICK h \in Nat \ {0} : k = g * h
    BY DEF Split
  <2>2. PICK a \in Nat : a = (r - 1) \div g
    BY <1>1, <2>1, GroupPlace
  <2> QED
    BY <1>1, <2>2 DEF Begin
<1>4. g * (q * s) = s * w /\ Begin(g, q * s, r) = b * s
  <2>1. g * (q * s) = w * s
    BY <1>1, <1>2
  <2>2. PICK h \in Nat \ {0} : k = g * h
    BY DEF Split
  <2>3. PICK a \in Nat : a = (r - 1) \div g
    BY <1>1, <2>2, GroupPlace
  <2>4. b = a * w /\ Begin(g, q * s, r) = a * (w * s)
    BY <1>2, <1>3, <2>1, <2>3 DEF Begin
  <2>5. a * (w * s) = (a * w) * s
    OBVIOUS
  <2> QED
    BY <2>1, <2>4, <2>5
<1>5. ASSUME NEW i \in 1 .. s * w
      PROVE  /\ SourceRow(i, s) \in 1 .. w
             /\ b * s + i \in 1 .. s * m
             /\ SourceRow(b * s + i, s) = b + SourceRow(i, s)
             /\ (b * s + i - 1) % s = (i - 1) % s
  <2>1. i \in 1 .. w * s
    OBVIOUS
  <2>2. PICK a1 \in 1 .. w, j \in 1 .. s : i = (a1 - 1) * s + j
    BY <2>1, RowNumber
  <2>3. PICK a \in Nat : a = a1 - 1
    BY <2>2
  <2>4. i = a * s + j
    BY <2>2, <2>3
  <2>5. SourceRow(i, s) = a + 1 /\ (i - 1) % s = j - 1
    BY <2>4, SourceRowOf
  <2>6. PICK e \in Nat : e = b + a
    OBVIOUS
  <2>7. b * s + i = e * s + j
    BY <2>2, <2>3, <2>6
  <2>8. SourceRow(b * s + i, s) = e + 1 /\ (b * s + i - 1) % s = j - 1
    BY <2>7, SourceRowOf
  <2>9. e + 1 \in 1 .. m
    <3>1. a1 \in 1 .. g * q
      BY <1>2
    <3>2. b + a1 \in 1 .. m
      BY <1>3, <3>1 DEF Given
    <3> QED
      BY <2>3, <2>6, <3>2
  <2>10. ((e + 1) - 1) * s + j \in 1 .. m * s
    BY <2>9, RowInRange
  <2> QED
    BY <2>2, <2>3, <2>5, <2>6, <2>7, <2>8, <2>10
<1>6. /\ DOMAIN part = DOMAIN argument
      /\ \A i \in 1 .. w, c \in DOMAIN argument : part[c][i] = argument[c][b + i]
  BY <1>2, <1>3 DEF Given
<1>7. DOMAIN x = DOMAIN whole /\ DOMAIN whole = DOMAIN argument \cup Answering(config)
  BY <1>6 DEF GeneratedOf
<1>8. Table(x, s * w)
  BY <1>2 DEF GeneratedOf
<1>9. ASSUME NEW c \in DOMAIN whole, NEW i \in 1 .. s * w
      PROVE  x[c][i] = whole[c][b * s + i]
  <2>1. PICK t : t = b * s + i
    OBVIOUS
  <2>2. PICK u \in 1 .. w : u = SourceRow(i, s) /\ t \in 1 .. s * m /\ SourceRow(t, s) = b + u
                            /\ (t - 1) % s = (i - 1) % s
    BY <1>5, <2>1
  <2>3. /\ \A d \in DOMAIN part : x[d][i] = part[d][u]
        /\ x["responses"][i] = Answer(part["input_ids"][u], first + ((i - 1) % s), length)
        /\ x["attention_mask"][i] = Attended
        /\ \A d \in Answering(config) \ {"responses", "attention_mask"} : x[d][i] = {"generated"}
    BY <1>2, <2>2 DEF GeneratedOf
  <2>4. /\ \A d \in DOMAIN argument : whole[d][t] = argument[d][b + u]
        /\ whole["responses"][t] = Answer(argument["input_ids"][b + u], first + ((t - 1) % s), length)
        /\ whole["attention_mask"][t] = Attended
        /\ \A d \in Answering(config) \ {"responses", "attention_mask"} : whole[d][t] = {"generated"}
    BY <2>2 DEF GeneratedOf
  <2>5. "input_ids" \in DOMAIN argument
    BY DEF Promptlike
  <2>6. x["responses"][i] = whole["responses"][t]
    BY <1>6, <2>2, <2>3, <2>4, <2>5
  <2>7. x[c][i] = whole[c][t]
    BY <1>6, <1>7, <2>3, <2>4, <2>6
  <2> QED
    BY <2>1, <2>7
<1>10. Shard(x, whole, s * w, b * s)
  BY <1>7, <1>8, <1>9 DEF Shard
<1> QED
  BY <1>4, <1>10 DEF OfGroup

LEMMA GeneratedCall ==
    ASSUME NEW m \in Nat \ {0}, NEW k, NEW g, NEW q, Split(m, k, g, q), NEW s \in Nat \ {0},
           NEW argument, Table(argument, m), Promptlike(argument), NEW first, NEW length,
           NEW n \in Nat \ {0}, NEW data, Table(data, n), NEW outputs,
           outputs = [r \in 1 .. k |-> Own(Generated(Gathered(argument, k, g, r), s, first, length), g, r)]
    PROVE  Result(outputs, argument, data) =
              FirstRows(Generated(argument, s, first, length), s * m - (m - n))
<1> DEFINE whole == Generated(argument, s, first, length)
<1>1. GeneratedOf(whole, argument, m, s, first, length)
  BY GeneratedRows
<1> HIDE DEF whole
<1>2. ASSUME NEW r \in 1 .. k
      PROVE  \E x : OfGroup(x, whole, g, q * s, r) /\ outputs[r] = Own(x, g, r)
  <2> DEFINE part == Gathered(argument, k, g, r)
             x == Generated(part, s, first, length)
  <2>1. Given(part, argument, g, q, r, m)
    BY GivenRows
  <2>2. outputs[r] = Own(x, g, r)
    OBVIOUS
  <2> HIDE DEF part
  <2>3. PICK w \in Nat \ {0} : w = g * q
    BY DEF Split
  <2>4. Table(part, w) /\ Promptlike(part)
    BY <2>1, <2>3 DEF Given, Promptlike
  <2>5. GeneratedOf(x, part, w, s, first, length)
    BY <2>4, GeneratedRows
  <2> HIDE DEF x
  <2>6. OfGroup(x, whole, g, q * s, r)
    BY <1>1, <2>1, <2>3, <2>5, GeneratedParts
  <2> QED
    BY <2>2, <2>6
<1>3. DOMAIN outputs = 1 .. k
  OBVIOUS
<1>4. Outputs(outputs, whole, k, g, q * s)
  BY <1>2, <1>3 DEF Outputs
<1>5. PICK N, Q : N = s * m /\ Q = q * s
  OBVIOUS
<1>6. Split(N, k, g, Q)
  <2>1. q \in Nat \ {0} /\ m = k * q /\ k \in Nat \ {0}
    BY DEF Split
  <2>2. Q \in Nat \ {0} /\ N = k * Q
    BY <1>5, <2>1
  <2> QED
    BY <2>2 DEF Split
<1>7. Table(whole, N)
  BY <1>1, <1>5 DEF GeneratedOf
<1>8. Result(outputs, argument, data) = FirstRows(whole, N - (m - n))
  BY <1>4, <1>5, <1>6, <1>7, CallResult
<1> QED
  BY <1>5, <1>8 DEF whole
-----------------------------------------------------------------------------
(* Batches of different sizes, one after the other.                          *)

\* Where each of k pieces ends.
Ends(e, k) ==
    /\ e \in [0 .. k -> Nat] /\ e[0] = 0
    /\ \A r \in 1 .. k : e[r - 1] <= e[r]

\* Every place is in one of the pieces.
LEMMA PieceOfPlace ==
    ASSUME NEW k \in Nat, NEW e, Ends(e, k), NEW i \in 1 .. e[k]
    PROVE  \E r \in 1 .. k : \E j \in 1 .. e[r] - e[r - 1] : i = e[r - 1] + j
<1> DEFINE T == {r \in 0 .. k : i <= e[r]}
<1>0. /\ k \in 0 .. k /\ e[k] \in Nat /\ e[0] = 0 /\ i \in Nat \ {0}
      /\ \A r \in 0 .. k : e[r] \in Nat
  BY DEF Ends
<1>1. T \in SUBSET Nat /\ T # {}
  BY <1>0
<1>2. PICK r \in T : \A s \in T : r <= s
  <2> HIDE DEF T
  <2> QED
    BY <1>1, LeastNumber
<1>3. r \in 1 .. k /\ r - 1 \in 0 .. k
  BY <1>0, <1>2
<1>4. ~(i <= e[r - 1])
  BY <1>2, <1>3
<1>5. PICK a, b \in Nat : a = e[r - 1] /\ b = e[r]
  BY <1>0, <1>3
<1>6. i <= b /\ a < i
  BY <1>0, <1>2, <1>4, <1>5
<1>7. i - a \in 1 .. b - a /\ i = a + (i - a)
  BY <1>0, <1>5, <1>6
<1> QED
  BY <1>3, <1>5, <1>7

LEMMA EndsGrow ==
    ASSUME NEW k \in Nat, NEW e, Ends(e, k), NEW m \in 0 .. k, NEW r \in 0 .. m
    PROVE  e[r] <= e[m]
<1> DEFINE T == {n \in Nat : n \in r .. m /\ ~(e[r] <= e[n])}
<1>0. \A n \in 0 .. k : e[n] \in Nat
  BY DEF Ends
<1>1. ASSUME T # {} PROVE FALSE
  <2>1. PICK n \in T : \A x \in T : n <= x
    <3>1. T \in SUBSET Nat
      OBVIOUS
    <3> HIDE DEF T
    <3> QED
      BY <1>1, <3>1, LeastNumber
  <2>2. n \in r .. m /\ ~(e[r] <= e[n])
    BY <2>1
  <2>3. n # r
    BY <1>0, <2>2
  <2>4. n - 1 \in Nat /\ n - 1 \in r .. m /\ n \in 1 .. k /\ n - 1 < n
    BY <2>2, <2>3
  <2>5. n - 1 \notin T
    <3> HIDE DEF T
    <3> QED
      BY <2>1, <2>2, <2>4
  <2>6. e[r] <= e[n - 1] /\ e[n - 1] <= e[n]
    BY <2>4, <2>5 DEF Ends
  <2>7. e[r] \in Nat /\ e[n - 1] \in Nat /\ e[n] \in Nat
    BY <1>0, <2>4
  <2> QED
    BY <2>2, <2>6, <2>7
<1> QED
  BY <1>1

Pieces(s, e, k, S) ==
    /\ s \in Seq(Seq(S)) /\ Len(s) = k
    /\ \A r \in 1 .. k : Len(s[r]) = e[r] - e[r - 1]
FlatTo(f, s, e, S, m) ==
    /\ f[m] \in Seq(S) /\ Len(f[m]) = e[m]
    /\ \A r \in 1 .. m : \A j \in 1 .. e[r] - e[r - 1] : f[m][e[r - 1] + j] = s[r][j]

JoinedOf(c, a, b, l, n, S) ==
    /\ c \in Seq(S) /\ Len(c) = l + n
    /\ \A i \in 1 .. l + n : c[i] = IF i <= l THEN a[i] ELSE b[i - l]
LEMMA JoinedPlaces ==
    ASSUME NEW S, NEW a \in Seq(S), NEW b \in Seq(S)
    PROVE  JoinedOf(a \o b, a, b, Len(a), Len(b), S)
<1>1. /\ a \o b \in Seq(S) /\ Len(a \o b) = Len(a) + Len(b)
      /\ \A i \in 1 .. Len(a) + Len(b) : (a \o b)[i] = IF i <= Len(a) THEN a[i] ELSE b[i - Len(a)]
  BY ConcatProperties
<1> QED
  BY <1>1 DEF JoinedOf

LEMMA FlatNext ==
    ASSUME NEW S, NEW k \in Nat \ {0}, NEW e, Ends(e, k), NEW s, Pieces(s, e, k, S),
           NEW f, NEW m \in 2 .. k, FlatTo(f, s, e, S, m - 1), f[m] = f[m - 1] \o s[m]
    PROVE  FlatTo(f, s, e, S, m)
<1>1. PICK a, b, c : a = f[m - 1] /\ b = s[m] /\ c = a \o b
  OBVIOUS
<1>2. PICK l, n \in Nat : l = e[m - 1] /\ l + n = e[m] /\ n = e[m] - e[m - 1]
  <2>1. m - 1 \in 0 .. k /\ m \in 0 .. k /\ m \in 1 .. k
    OBVIOUS
  <2>2. e[m - 1] \in Nat /\ e[m] \in Nat /\ e[m - 1] <= e[m]
    BY <2>1 DEF Ends
  <2>3. e[m] - e[m - 1] \in Nat
    BY <2>2
  <2> QED
    BY <2>2, <2>3
<1>3. a \in Seq(S) /\ b \in Seq(S) /\ Len(a) = l /\ Len(b) = n
  BY <1>1, <1>2 DEF FlatTo, Pieces
<1>4. c \in Seq(S) /\ Len(c) = l + n /\ \A i \in 1 .. l + n : c[i] = IF i <= l THEN a[i] ELSE b[i - l]
  <2>1. JoinedOf(c, a, b, l, n, S)
    BY <1>1, <1>3, JoinedPlaces
  <2> QED
    BY <2>1 DEF JoinedOf
<1>5. ASSUME NEW r \in 1 .. m, NEW j \in 1 .. e[r] - e[r - 1]
      PROVE  c[e[r - 1] + j] = s[r][j]
  <2>1. CASE r = m
    <3>1. j \in 1 .. n /\ l + j \in 1 .. l + n /\ ~(l + j <= l) /\ (l + j) - l = j
      BY <1>2, <2>1
    <3>2. c[l + j] = b[j]
      BY <1>4, <3>1
    <3> QED
      BY <1>1, <1>2, <2>1, <3>2
  <2>2. CASE r # m
    <3>1. r \in 1 .. m - 1
      BY <2>2
    <3>2. c[e[r - 1] + j] = a[e[r - 1] + j]
      <4>1. PICK x, y \in Nat : x = e[r - 1] /\ y = e[r]
        <5>1. r - 1 \in 0 .. k /\ r \in 0 .. k
          BY <3>1
        <5> QED
          BY <5>1 DEF Ends
      <4>2. y <= l
        BY <1>2, <3>1, <4>1, EndsGrow
      <4>3. j \in Nat /\ j >= 1 /\ j <= y - x
        BY <4>1
      <4>4. x + j \in 1 .. l /\ x + j \in 1 .. l + n
        BY <4>1, <4>2, <4>3
      <4> QED
        BY <1>4, <4>1, <4>4
    <3> QED
      BY <1>1, <3>1, <3>2 DEF FlatTo
  <2> QED
    BY <2>1, <2>2
<1> QED
  BY <1>1, <1>2, <1>4, <1>5 DEF FlatTo

FlatOver(flat, s, e, k, S) ==
    /\ flat \in Seq(S) /\ Len(flat) = e[k]
    /\ \A r \in 1 .. k : \A j \in 1 .. e[r] - e[r - 1] : flat[e[r - 1] + j] = s[r][j]
LEMMA FlattenOver ==
    ASSUME NEW S, NEW k \in Nat \ {0}, NEW e, Ends(e, k), NEW s, Pieces(s, e, k, S)
    PROVE  FlatOver(FlattenSeq(s), s, e, k, S)
<1>1. s \in Seq(Seq(S)) /\ Len(s) = k /\ s # <<>>
  BY DEF Pieces
<1>2. PICK f : FlattenSeq(s) = f[k] /\ \A i \in 1 .. k : f[i] = IF i = 1 THEN s[i] ELSE f[i - 1] \o s[i]
  BY <1>1, FlattenIsLast
<1> DEFINE T == {m \in Nat : m \in 1 .. k /\ ~FlatTo(f, s, e, S, m)}
<1>3. ASSUME T # {} PROVE FALSE
  <2>1. PICK m \in T : \A n \in T : m <= n
    <3>1. T \in SUBSET Nat
      OBVIOUS
    <3> HIDE DEF T
    <3> QED
      BY <1>3, <3>1, LeastNumber
  <2>2. m \in Nat /\ m \in 1 .. k /\ ~FlatTo(f, s, e, S, m)
    BY <2>1
  <2>3. CASE m = 1
    <3>1. f[1] = s[1] /\ s[1] \in Seq(S) /\ Len(s[1]) = e[1] - e[0]
      BY <1>2, <2>2, <2>3 DEF Pieces
    <3>2. e[0] = 0 /\ e[1] \in Nat
      BY DEF Ends
    <3>3. ASSUME NEW r \in 1 .. 1, NEW j \in 1 .. e[r] - e[r - 1] PROVE f[1][e[r - 1] + j] = s[r][j]
      <4>1. r = 1 /\ e[r - 1] + j = j
        BY <3>2
      <4> QED
        BY <3>1, <4>1
    <3> QED
      BY <2>2, <2>3, <3>1, <3>2, <3>3 DEF FlatTo
  <2>4. CASE m # 1
    <3>1. m - 1 \in Nat /\ m - 1 \in 1 .. k /\ m - 1 < m /\ m \in 2 .. k
      BY <2>2, <2>4
    <3>2. m - 1 \notin T
      <4> HIDE DEF T
      <4> QED
        BY <2>1, <2>2, <3>1
    <3>3. FlatTo(f, s, e, S, m - 1)
      BY <3>1, <3>2
    <3>4. f[m] = f[m - 1] \o s[m]
      BY <1>2, <2>2, <2>4
    <3> QED
      BY <2>2, <3>1, <3>3, <3>4, FlatNext
  <2> QED
    BY <2>3, <2>4
<1>4. FlatTo(f, s, e, S, k)
  BY <1>3
<1> QED
  BY <1>2, <1>4 DEF FlatTo, FlatOver

\* concat of parts of different sizes.
JoinedParts(data, parts, names, e, k) ==
    /\ DOMAIN data = names
    /\ \A c \in names, r \in 1 .. k : \A j \in 1 .. e[r] - e[r - 1] : data[c][e[r - 1] + j] = parts[r][c][j]
LEMMA ConcatOver ==
    ASSUME NEW k \in Nat \ {0}, NEW e, Ends(e, k), NEW parts, DOMAIN parts = 1 .. k, NEW names,
           \A r \in 1 .. k : Table(parts[r], e[r] - e[r - 1]) /\ DOMAIN parts[r] = names
    PROVE  Table(Concat(parts), e[k]) /\ JoinedParts(Concat(parts), parts, names, e, k)
<1> DEFINE lists(c) == [r \in DOMAIN parts |-> parts[r][c]]
<1>1. 1 \in 1 .. k
  OBVIOUS
<1>2. Concat(parts) = [c \in names |-> FlattenSeq(lists(c))]
  BY <1>1 DEF Concat
<1>3. ASSUME NEW c \in names
      PROVE  /\ IsList(FlattenSeq(lists(c)), e[k])
             /\ \A r \in 1 .. k : \A j \in 1 .. e[r] - e[r - 1] : FlattenSeq(lists(c))[e[r - 1] + j] = parts[r][c][j]
  <2> DEFINE S == UNION {{parts[r][c][j] : j \in 1 .. e[r] - e[r - 1]} : r \in 1 .. k}
             s == lists(c)
  <2>1. \A r \in 1 .. k : s[r] = parts[r][c] /\ IsList(s[r], e[r] - e[r - 1])
    BY DEF Table
  <2>2. ASSUME NEW r \in 1 .. k PROVE s[r] \in Seq(S) /\ Len(s[r]) = e[r] - e[r - 1]
    <3>1. PICK q \in Nat : q = e[r] - e[r - 1]
      <4>1. r - 1 \in 0 .. k /\ r \in 0 .. k
        OBVIOUS
      <4> QED
        BY <4>1 DEF Ends
    <3> DEFINE V == {s[r][j] : j \in 1 .. q}
    <3>2. s[r] \in Seq(V) /\ Len(s[r]) = q
      <4> HIDE DEF s
      <4> QED
        BY <2>1, <3>1, ListIsSeq
    <3>3. V \subseteq S
      BY <2>1, <3>1
    <3> HIDE DEF V, S, s
    <3> QED
      BY <3>1, <3>2, <3>3, SeqMonotonic
  <2>3. Pieces(s, e, k, S)
    <3>1. DOMAIN s = 1 .. k /\ s = [r \in 1 .. k |-> s[r]]
      OBVIOUS
    <3> HIDE DEF s, S
    <3>2. s \in [1 .. k -> Seq(S)]
      BY <2>2, <3>1
    <3>3. s \in Seq(Seq(S)) /\ Len(s) = k
      BY <3>2
    <3> QED
      BY <2>2, <3>3 DEF Pieces
  <2> HIDE DEF s, S
  <2>4. FlatOver(FlattenSeq(s), s, e, k, S)
    BY <2>3, FlattenOver
  <2>5. e[k] \in Nat
    BY DEF Ends
  <2>6. FlattenSeq(s) \in Seq(S) /\ Len(FlattenSeq(s)) = e[k]
    BY <2>4 DEF FlatOver
  <2>7. DOMAIN FlattenSeq(s) = 1 .. e[k]
    BY <2>6, LenProperties
  <2>8. IsList(FlattenSeq(s), e[k])
    BY <2>5, <2>6, <2>7, ListOf
  <2> QED
    BY <2>1, <2>4, <2>8 DEF s, FlatOver
<1> HIDE DEF lists
<1>4. DOMAIN Concat(parts) = names /\ Concat(parts) = [c \in DOMAIN Concat(parts) |-> Concat(parts)[c]]
  BY <1>2
<1>5. names # {}
  BY <1>1 DEF Table
<1> QED
  BY <1>2, <1>3, <1>4, <1>5 DEF Table, JoinedParts

\* InOrder is what a loop has appended.
LEMMA InOrderAppended == \A S, n : InOrder(S, n) = Appended(S, n)
BY DEF InOrder, Appended, Appends

-----------------------------------------------------------------------------
(* The invariant of a step of the trainers that train no reward model, which *)
(* are all but PRIME's: of a configuration c, when t batches are taken and   *)
(* the actor is at a.                                                        *)

\* The prompts of the batch that is being generated, and what generation answers.
Earlier(c, t) == (t - 1) * c.genPrompts
BatchSize(c) == c.genPrompts * c.samples

\* DAPO and entropy: batches are generated until a step has its rows.
Sampled(c) == c.trainer \in {"dapo", "entropy"}
StepSize(c) == IF c.filterGroups THEN c.prompts * c.samples ELSE BatchSize(c)
NewPhases == {"reward", "score", "filter"}
Size(c, phase) == IF phase \in NewPhases THEN BatchSize(c) ELSE StepSize(c)

Taken(c, t) == [i \in 1 .. c.genPrompts |-> Earlier(c, t) + i]
Fresh(r, c, a) == r.by = a /\ r.sample \in 1 .. c.samples /\ r.length \in Lengths
Greedy(e, prompt, a) == e.of.prompt = prompt /\ e.of.sample = 0 /\ e.of.by = a
Kinds(c) == IF c.toolUse THEN {"generated", "tool"} ELSE {"generated"}

\* gen_batch, which padding may have added rows to.
Prompted(data, c, t) ==
    /\ DOMAIN data = {"input_ids", "raw_prompt"}
    /\ Rows(data) \in Nat /\ Table(data, Rows(data)) /\ c.genPrompts <= Rows(data)
    /\ \A col \in DOMAIN data, i \in 1 .. c.genPrompts : data[col][i] = Earlier(c, t) + i

AnswersRow(data, c, t, a, i) ==
    LET prompt == Earlier(c, t) + SourceRow(i, c.samples) IN
    /\ \A col \in DOMAIN data \cap {"input_ids", "raw_prompt"} : data[col][i] = prompt
    /\ Fresh(data["responses"][i], c, a)
    /\ data["responses"][i].prompt = prompt
    /\ data["responses"][i].sample = 1 + ((i - 1) % c.samples)
    /\ data["attention_mask"][i] = Kinds(c)
    /\ "loss_mask" \in DOMAIN data => data["loss_mask"][i] = {"generated"}
Answers(data, c, t, a) ==
    /\ Rows(data) \in Nat /\ Table(data, Rows(data)) /\ BatchSize(c) <= Rows(data)
    /\ DOMAIN data = {"input_ids"} \cup (IF c.async THEN {} ELSE {"raw_prompt"}) \cup Answering(c)
    /\ \A i \in 1 .. BatchSize(c) : AnswersRow(data, c, t, a, i)

\* The batch, before and after ReMax's baseline.
Untouched(data, c, t) == data = [col \in {"data_source"} |-> Taken(c, t)]
Baselined(data, c, t, a) ==
    /\ Table(data, c.genPrompts)
    /\ DOMAIN data = {"data_source", "raw_prompt", "reward_baselines"}
    /\ \A i \in 1 .. c.genPrompts :
         /\ data["data_source"][i] = Earlier(c, t) + i /\ data["raw_prompt"][i] = Earlier(c, t) + i
         /\ Greedy(data["reward_baselines"][i], Earlier(c, t) + i, a)

GenInv ==
    pc \in {"generate", "baseline", "assemble"} =>
        /\ taken # 0
        /\ Prompted(gen, config, taken)
        /\ pc = "generate" => Rows(gen) = config.genPrompts
        /\ pc = "baseline" => Rows(gen) % config.workers = 0 /\ ~config.async
        /\ pc # "generate" => Answers(out, config, taken, actor)
        /\ pc = "baseline" => config.estimator = "REMAX"
        /\ IF pc = "assemble" /\ config.estimator = "REMAX" THEN Baselined(batch, config, taken, actor)
           ELSE Untouched(batch, config, taken)

\* What a row holds, column by column, is of its response.
AboutResponse == {"token_level_scores", "rm_scores", "old_log_probs", "ref_log_prob",
                  "teacher_log_prob", "gopd_ref_log_prob", "values", "acc"}
CellTold(col, e, r, c, a) ==
    /\ col = "responses" => Fresh(e, c, a)
    /\ col \in {"data_source", "raw_prompt"} => e = r.prompt
    /\ col \in AboutResponse => e.of = r
    /\ col = "old_log_probs" => e.by = a
    /\ col = "teacher_log_prob" /\ c.teacher => e.given = r.prompt
    /\ col = "gopd_ref_log_prob" /\ c.gopdRef => e.given = r.prompt
    /\ col = "reward_baselines" => Greedy(e, r.prompt, a)
    /\ col = "attention_mask" => e = Kinds(c)
    /\ col = "loss_mask" => e = {"generated"}
Told(data, n, c, a) ==
    /\ Table(data, n)
    /\ {"responses", "data_source", "uid", "attention_mask"} \cup (Masks(c) \ {"response_mask"}) \subseteq DOMAIN data
    /\ \A col \in DOMAIN data, i \in 1 .. n : CellTold(col, data[col][i], data["responses"][i], c, a)

\* Every prompt with all its responses, each once, and its uid.
Alone(responses, uid, i, j) ==
    /\ responses[i].prompt = responses[j].prompt <=> uid[i] = uid[j]
    /\ responses[i].prompt = responses[j].prompt /\ responses[i].sample = responses[j].sample => i = j
HasSample(responses, n, i, s) ==
    \E j \in 1 .. n : responses[j].prompt = responses[i].prompt /\ responses[j].sample = s
Whole(responses, uid, n, samples) ==
    /\ \A i, j \in 1 .. n : Alone(responses, uid, i, j)
    /\ \A i \in 1 .. n, s \in 1 .. samples : HasSample(responses, n, i, s)

\* Which of the models' answers are there.
BeforeScores == {"balance", "reward"}
BeforeOld == BeforeScores \cup {"score", "filter", "old_log_prob"}
BeforeReference == BeforeOld \cup {"ref"}
BeforeTeacher == BeforeReference \cup {"teacher"}
BeforeGopd == BeforeTeacher \cup {"gopd_ref"}
BeforeValues == BeforeGopd \cup {"values"}
RowPhases == BeforeValues \cup {"adv"}
Later == {"advantages", "seq_level_rewards", "acc", "Q_bc", "acc_bc"}
ScoresCome(c) == IF Sampled(c) THEN {"reward"} ELSE BeforeScores
Present(columns, phase, c) ==
    /\ "rm_scores" \in columns <=> phase \notin ScoresCome(c) /\ c.rewardModel
    /\ "token_level_scores" \in columns <=> Sampled(c) /\ phase \notin {"reward", "score"}
    /\ "old_log_probs" \in columns <=> phase \notin BeforeOld
    /\ "ref_log_prob" \in columns <=> phase \notin BeforeReference /\ c.reference
    /\ "teacher_log_prob" \in columns <=> phase \notin BeforeTeacher /\ c.teacher
    /\ "gopd_ref_log_prob" \in columns <=> phase \notin BeforeGopd /\ c.estimator = "GOPD"
    /\ "values" \in columns <=> phase \notin BeforeValues /\ c.estimator = "GAE"
    /\ "reward_baselines" \in columns <=> c.estimator = "REMAX"
    /\ c.teacher \/ c.gopdRef => "raw_prompt" \in columns
    /\ Later \cap columns = {}

Rewarded(column, responses, n) ==
    IsList(column, n) /\ \A i \in 1 .. n : column[i].of = responses[i]

RowsInv(data, phase, c, a) ==
    /\ Told(data, Size(c, phase), c, a)
    /\ Whole(data["responses"], data["uid"], Size(c, phase), c.samples)
    /\ Present(DOMAIN data, phase, c)
BatchInv ==
    pc \in RowPhases =>
        /\ RowsInv(batch, pc, config, actor)
        /\ ~Sampled(config) /\ pc \notin BeforeScores \cup {"score"} =>
             Rewarded(reward, batch["responses"], BatchSize(config))

\* What the actor learns from.
Scored(columns, c) ==
    /\ {"token_level_scores", "old_log_probs"} \subseteq columns
    /\ c.reference => "ref_log_prob" \in columns
    /\ "teacher_log_prob" \in columns <=> c.teacher
    /\ c.estimator = "GOPD" => "gopd_ref_log_prob" \in columns
    /\ c.estimator = "GAE" => "values" \in columns
    /\ c.estimator = "REMAX" => "reward_baselines" \in columns
    /\ {"acc", "Q_bc", "acc_bc"} \cap columns = {}
Siblings(responses, n, i) == {j \in 1 .. n : responses[j].prompt = responses[i].prompt}
ResponsesTo(responses, n, i) == {responses[j] : j \in Siblings(responses, n, i)}
Subjects(entries) == {e.of : e \in entries}
EveryResponse(responses, n) == {responses[j] : j \in 1 .. n}
GroupEstimators == {"GRPO", "REINFORCE_PLUS_PLUS_BASELINE", "RLOO", "OPO"}
OwnEstimators == {"GAE", "REINFORCE_PLUS_PLUS", "RSOPD", "GOPD"}
InGroup(of, own, samples) == of = own /\ Cardinality(own) = samples
BestOfGroup(of, own, samples, siblings, advantage) ==
    /\ of \in {{}, own} /\ Cardinality(own) = samples
    /\ Cardinality({j \in siblings : advantage[j] # {}}) = 1
AgainstGreedy(of, response) ==
    \E r \in of : r.prompt = response.prompt /\ r.sample = 0 /\ r.by = response.by /\ of = {r, response}
AdvantageTold(advantage, responses, c, n, i) ==
    LET of == Subjects(advantage[i])
        own == ResponsesTo(responses, n, i)
    IN /\ c.estimator \in GroupEstimators => InGroup(of, own, c.samples)
       /\ c.estimator = "GRPO_PASSK" =>
            BestOfGroup(of, own, c.samples, Siblings(responses, n, i), advantage)
       /\ c.estimator = "REMAX" => AgainstGreedy(of, responses[i])
       /\ c.estimator = "null" => of = EveryResponse(responses, n)
       /\ c.estimator \in OwnEstimators => of = {responses[i]}
Advantages(data, c) == data[IF c.trainer = "sppo" THEN "seq_level_rewards" ELSE "advantages"]
LearnRows(data, c, a) ==
    /\ Told(data, StepSize(c), c, a)
    /\ c.pfPpo \/ Whole(data["responses"], data["uid"], StepSize(c), c.samples)
    /\ Scored(DOMAIN data, c)
    /\ \A i \in 1 .. StepSize(c) : AdvantageTold(Advantages(data, c), data["responses"], c, StepSize(c), i)
LearnInv == Learning => LearnRows(batch, config, actor)

\* What is there where the workers divide the prompts and the responses.
Fits(c) ==
    /\ BatchSize(c) % c.workers = 0
    /\ c.async \/ c.genPrompts % c.workers = 0
ExactRows(asked, answers, c) == Rows(asked) = c.genPrompts /\ Rows(answers) = BatchSize(c)

Plain == config.trainer \in {"ppo", "sppo", "dapo", "entropy"}
StepInv == config \in Configs /\ taken \in Nat /\ (Plain => GenInv /\ BatchInv /\ LearnInv)

-----------------------------------------------------------------------------
(* What the operations on batches leave told and whole.                      *)

LEMMA PutTold ==
    ASSUME NEW n, NEW c, NEW a, NEW data, Told(data, n, c, a), NEW name, NEW column, IsList(column, n),
           name # "responses", \A i \in 1 .. n : CellTold(name, column[i], data["responses"][i], c, a)
    PROVE  Told(Put(data, name, column), n, c, a)
<1> DEFINE p == Put(data, name, column)
<1>1. Extended(p, data, n, name, column)
  BY PutTable DEF Told
<1> HIDE DEF p
<1>2. DOMAIN p = DOMAIN data \cup {name} /\ p["responses"] = data["responses"]
  BY <1>1 DEF Extended, Told
<1>3. ASSUME NEW col \in DOMAIN p, NEW i \in 1 .. n
      PROVE  CellTold(col, p[col][i], p["responses"][i], c, a)
  <2>1. CASE col = name
    BY <1>1, <1>2, <2>1 DEF Extended
  <2>2. CASE col # name
    BY <1>1, <1>2, <2>2 DEF Extended, Told
  <2> QED
    BY <2>1, <2>2
<1>4. Told(p, n, c, a)
  BY <1>1, <1>2, <1>3 DEF Extended, Told
<1> QED
  BY <1>4 DEF p

LEMMA TakeTold ==
    ASSUME NEW n, NEW m, NEW c, NEW a, NEW data, Told(data, n, c, a), NEW index, Selects(index, m, n)
    PROVE  Told(Take(data, index), m, c, a)
<1> DEFINE p == Take(data, index)
<1>1. RowsAt(p, data, index, m)
  BY TakeTable DEF Told
<1> HIDE DEF p
<1>2. ASSUME NEW col \in DOMAIN p, NEW i \in 1 .. m
      PROVE  CellTold(col, p[col][i], p["responses"][i], c, a)
  <2>1. index[i] \in 1 .. n
    BY DEF Selects
  <2>2. p[col][i] = data[col][index[i]] /\ p["responses"][i] = data["responses"][index[i]]
    BY <1>1 DEF RowsAt, Told
  <2> QED
    BY <1>1, <2>1, <2>2 DEF RowsAt, Told
<1>3. Told(p, m, c, a)
  BY <1>1, <1>2 DEF RowsAt, Told
<1> QED
  BY <1>3 DEF p

LEMMA WithoutTold ==
    ASSUME NEW n, NEW c, NEW a, NEW data, Told(data, n, c, a), NEW names,
           names \cap {"responses", "data_source", "uid", "attention_mask", "loss_mask"} = {}
    PROVE  Told(Without(data, names), n, c, a)
<1> DEFINE p == Without(data, names)
<1>1. "responses" \in DOMAIN data \ names
  BY DEF Told
<1>2. /\ Table(p, n) /\ DOMAIN p = DOMAIN data \ names
      /\ \A col \in DOMAIN data \ names : p[col] = data[col]
  BY <1>1, WithoutTable DEF Told, Chosen
<1> HIDE DEF p
<1>3. {"responses", "data_source", "uid", "attention_mask"} \cup (Masks(c) \ {"response_mask"}) \subseteq DOMAIN p
  BY <1>2 DEF Told, Masks
<1>4. Told(p, n, c, a)
  BY <1>1, <1>2, <1>3 DEF Told
<1> QED
  BY <1>4 DEF p

\* An order of n rows.
Order(index, n) ==
    /\ Selects(index, n, n)
    /\ \A i, j \in 1 .. n : index[i] = index[j] => i = j
    /\ \A v \in 1 .. n : \E i \in 1 .. n : index[i] = v

LEMMA ReorderedWhole ==
    ASSUME NEW n, NEW s, NEW responses, NEW uid, Whole(responses, uid, n, s), NEW index, Order(index, n),
           NEW r, NEW u, \A i \in 1 .. n : r[i] = responses[index[i]] /\ u[i] = uid[index[i]]
    PROVE  Whole(r, u, n, s)
<1>1. \A i \in 1 .. n : index[i] \in 1 .. n
  BY DEF Order, Selects
<1>2. ASSUME NEW i \in 1 .. n, NEW j \in 1 .. n PROVE Alone(r, u, i, j)
  <2>1. Alone(responses, uid, index[i], index[j])
    BY <1>1 DEF Whole
  <2>2. index[i] = index[j] => i = j
    BY DEF Order
  <2> QED
    BY <2>1, <2>2 DEF Alone
<1>3. ASSUME NEW i \in 1 .. n, NEW x \in 1 .. s PROVE HasSample(r, n, i, x)
  <2>1. PICK v \in 1 .. n : responses[v].prompt = responses[index[i]].prompt /\ responses[v].sample = x
    BY <1>1 DEF Whole, HasSample
  <2>2. PICK j \in 1 .. n : index[j] = v
    BY DEF Order
  <2> QED
    BY <2>1, <2>2 DEF HasSample
<1> QED
  BY <1>2, <1>3 DEF Whole
-----------------------------------------------------------------------------
(* The answers of a worker group join the batch as one column.               *)

LEMMA JoinOne ==
    ASSUME NEW n \in Nat, NEW data, Table(data, n), NEW left, NEW m \in Nat, Table(left, m), m = n => left = data,
           NEW answers, NEW old, NEW new, NEW column, answers = One(old, column), IsList(column, n),
           CanUnion(left, Rename(answers, old, new))
    PROVE  Union(left, Rename(answers, old, new)) = Put(data, new, column)
<1>1. Rename(answers, old, new) = One(new, column)
  BY RenameOne
<1>2. Rows(One(new, column)) = n
  BY OneTable, TableRows
<1>3. Rows(left) = m
  BY TableRows
<1>4. left = data
  BY <1>1, <1>2, <1>3 DEF CanUnion
<1> QED
  BY <1>1, <1>4, UnionOne

\* No union fails where the workers divide the rows and the column is new.
LEMMA CanJoin ==
    ASSUME NEW n \in Nat, NEW data, Table(data, n),
           NEW answers, NEW old, NEW new, NEW column, answers = One(old, column), IsList(column, n),
           new \notin DOMAIN data
    PROVE  CanUnion(data, Rename(answers, old, new))
<1>1. Rename(answers, old, new) = One(new, column)
  BY RenameOne
<1>2. Rows(One(new, column)) = n /\ Rows(data) = n
  BY OneTable, TableRows
<1>3. DOMAIN One(new, column) = {new}
  BY OneColumn
<1>4. DOMAIN data \cap DOMAIN One(new, column) = {}
  BY <1>3
<1>5. CanUnion(data, One(new, column))
  BY <1>2, <1>4 DEF CanUnion
<1> QED
  BY <1>1, <1>5

-----------------------------------------------------------------------------
(* The steps of the driver, from one phase to the next.                      *)

Generating == {"generate", "baseline", "assemble"}
LearningPhases == {"update_critic", "update_actor"}

\* Between batches nothing is claimed,
LEMMA IdleStep ==
    ASSUME StepInv, config' = config, taken' \in Nat,
           pc' \notin Generating \cup RowPhases \cup LearningPhases
    PROVE  StepInv'
<1> USE DEF Generating, LearningPhases
<1>1. GenInv' /\ BatchInv'
  BY DEF GenInv, BatchInv
<1>2. ~Learning'
  BY DEF Learning
<1>3. LearnInv'
  BY <1>2 DEF LearnInv
<1> QED
  BY <1>1, <1>3 DEF StepInv

\* and with one it is of its rows,
LEMMA RowsStep ==
    ASSUME StepInv, config' = config, taken' = taken, actor' = actor, pc' \in RowPhases,
           RowsInv(batch', pc', config, actor),
           ~Sampled(config) /\ pc' \notin BeforeScores \cup {"score"} =>
             Rewarded(reward', batch'["responses"], BatchSize(config))
    PROVE  StepInv'
<1>1. pc' \notin Generating \cup LearningPhases
  BY DEF RowPhases, BeforeValues, BeforeGopd, BeforeTeacher, BeforeReference, BeforeOld, BeforeScores,
         Generating, LearningPhases
<1>2. GenInv'
  BY <1>1 DEF GenInv, Generating
<1>3. ~Learning'
  BY <1>1 DEF Learning, LearningPhases
<1>4. LearnInv'
  BY <1>3 DEF LearnInv
<1>5. BatchInv'
  BY DEF BatchInv
<1> QED
  BY <1>2, <1>4, <1>5 DEF StepInv

\* or it is learned from.
LEMMA LearnStep ==
    ASSUME StepInv, config' = config, taken' = taken, pc' \notin Generating \cup RowPhases,
           LearnInv'
    PROVE  StepInv'
<1>1. GenInv' /\ BatchInv'
  BY DEF GenInv, BatchInv, Generating
<1> QED
  BY <1>1 DEF StepInv

\* A batch has rows, and in the other trainers no batch has others than what is
\* generated.
LEMMA SizeNumber ==
    ASSUME NEW c, Sizes(c), NEW phase
    PROVE  Size(c, phase) \in Nat \ {0} /\ StepSize(c) \in Nat \ {0} /\ BatchSize(c) \in Nat \ {0}
<1>1. c.genPrompts \in Nat \ {0} /\ c.samples \in Nat \ {0} /\ c.prompts \in Nat \ {0}
  BY DEF Sizes
<1> QED
  BY <1>1 DEF Size, StepSize, BatchSize

LEMMA OneSize ==
    ASSUME NEW c \in Configs, ~Sampled(c), NEW phase
    PROVE  Size(c, phase) = BatchSize(c) /\ StepSize(c) = BatchSize(c)
<1>1. c.filterGroups => Sampled(c)
  BY ConfigsAssumption DEF Sampled
<1> QED
  BY <1>1 DEF Size, StepSize

LEMMA RowsNow ==
    ASSUME StepInv, Plain, pc \in RowPhases
    PROVE  /\ config \in Configs /\ Sizes(config) /\ taken \in Nat
           /\ Size(config, pc) \in Nat \ {0}
           /\ RowsInv(batch, pc, config, actor)
           /\ Told(batch, Size(config, pc), config, actor)
           /\ Table(batch, Size(config, pc))
           /\ {"responses", "data_source", "uid", "attention_mask"} \subseteq DOMAIN batch
           /\ ~Sampled(config) /\ pc \notin BeforeScores \cup {"score"} =>
                Rewarded(reward, batch["responses"], BatchSize(config))
<1>1. config \in Configs /\ taken \in Nat /\ BatchInv
  BY DEF StepInv
<1>2. Sizes(config)
  BY <1>1, SizesOfConfig
<1>3. Size(config, pc) \in Nat \ {0}
  BY <1>2, SizeNumber
<1> QED
  BY <1>1, <1>2, <1>3 DEF BatchInv, RowsInv, Told

LEMMA PutRows ==
    ASSUME NEW c, NEW a, NEW data, NEW here, RowsInv(data, here, c, a), NEW there, Size(c, there) = Size(c, here),
           NEW name, NEW column, IsList(column, Size(c, here)), name \notin {"responses", "uid"},
           \A i \in 1 .. Size(c, here) : CellTold(name, column[i], data["responses"][i], c, a),
           Present(DOMAIN data \cup {name}, there, c)
    PROVE  /\ RowsInv(Put(data, name, column), there, c, a)
           /\ Put(data, name, column)["responses"] = data["responses"]
<1> DEFINE p == Put(data, name, column)
<1>1. Told(data, Size(c, here), c, a) /\ Table(data, Size(c, here))
  BY DEF RowsInv, Told
<1>2. Told(p, Size(c, here), c, a)
  BY <1>1, PutTold
<1>3. Extended(p, data, Size(c, here), name, column)
  BY <1>1, PutTable
<1> HIDE DEF p
<1>4. {"responses", "uid"} \subseteq DOMAIN data
  BY <1>1 DEF Told
<1>5. p["responses"] = data["responses"] /\ p["uid"] = data["uid"] /\ DOMAIN p = DOMAIN data \cup {name}
  BY <1>3, <1>4 DEF Extended
<1>6. RowsInv(p, there, c, a)
  BY <1>2, <1>5 DEF RowsInv
<1> QED
  BY <1>5, <1>6 DEF p

\* Answers of a worker group joined to the batch.
LEMMA JoinStep ==
    ASSUME StepInv, Plain, NEW here \in RowPhases, NEW there \in RowPhases, pc = here, pc' = there,
           UNCHANGED <<config, taken, actor, reward>>,
           NEW left, NEW m \in Nat, Table(left, m), m = Size(config, here) => left = batch,
           NEW answers, NEW old, NEW new, NEW column, answers = One(old, column),
           IsList(column, Size(config, here)), new \notin {"responses", "uid"},
           CanUnion(left, Rename(answers, old, new)), batch' = Union(left, Rename(answers, old, new)),
           \A i \in 1 .. Size(config, here) : CellTold(new, column[i], batch["responses"][i], config, actor),
           Present(DOMAIN batch \cup {new}, there, config),
           there \notin BeforeScores \cup {"score"} => here \notin BeforeScores \cup {"score"},
           Size(config, there) = Size(config, here)
    PROVE  StepInv' /\ batch' = Put(batch, new, column)
<1>1. /\ Size(config, here) \in Nat /\ RowsInv(batch, here, config, actor) /\ Table(batch, Size(config, here))
      /\ ~Sampled(config) /\ here \notin BeforeScores \cup {"score"} =>
           Rewarded(reward, batch["responses"], BatchSize(config))
  BY RowsNow
<1>2. batch' = Put(batch, new, column)
  BY <1>1, JoinOne
<1>3. RowsInv(batch', there, config, actor) /\ batch'["responses"] = batch["responses"]
  BY <1>1, <1>2, PutRows
<1> QED
  BY <1>1, <1>2, <1>3, RowsStep

\* A phase that is skipped.
LEMMA SkipStep ==
    ASSUME StepInv, Plain, NEW here \in RowPhases, NEW there \in RowPhases, Skip(here, there),
           Present(DOMAIN batch, here, config) => Present(DOMAIN batch, there, config),
           ~Sampled(config) /\ there \notin BeforeScores \cup {"score"} => here \notin BeforeScores \cup {"score"},
           Size(config, there) = Size(config, here)
    PROVE  StepInv'
<1>1. /\ pc = here /\ pc' = there /\ batch' = batch
      /\ UNCHANGED <<config, taken, actor, reward>>
  BY DEF Skip
<1>2. /\ RowsInv(batch, here, config, actor)
      /\ ~Sampled(config) /\ here \notin BeforeScores \cup {"score"} =>
           Rewarded(reward, batch["responses"], BatchSize(config))
  BY <1>1, RowsNow
<1>3. RowsInv(batch', there, config, actor)
  BY <1>1, <1>2 DEF RowsInv
<1> QED
  BY <1>1, <1>2, <1>3, RowsStep

\* A phase that fails.
LEMMA FailStep ==
    ASSUME StepInv, NEW here, Fail(here)
    PROVE  StepInv'
<1>1. config' = config /\ taken' = taken /\ pc' = "failed"
  BY DEF Fail
<1>2. taken' \in Nat
  BY <1>1 DEF StepInv
<1>3. pc' \notin Generating \cup RowPhases \cup LearningPhases
  BY <1>1 DEF RowPhases, BeforeValues, BeforeGopd, BeforeTeacher, BeforeReference, BeforeOld, BeforeScores,
         Generating, LearningPhases
<1> QED
  BY <1>1, <1>2, <1>3, IdleStep

\* What a call leaves its argument as: with more rows, or the same.
LEMMA LeftRows ==
    ASSUME NEW data, NEW n, Callable(data, n, {})
    PROVE  \E m \in Nat : Table(AsLeft(data), m) /\ (m = n => AsLeft(data) = data)
<1>1. PICK m \in Nat \ {0} : \E q \in Nat \ {0} : Pads(AsLeft(data), data, n, m, config.workers)
                                                  /\ Split(m, config.workers, config.sp, q)
  BY CallParts
<1> QED
  BY <1>1 DEF Pads

LEMMA OldLogProbStep ==
    ASSUME StepInv, Plain, OldLogProb
    PROVE  StepInv'
<1> DEFINE n == Size(config, pc)
           answers == Called(batch, LogProb)
           cell(i) == [of |-> batch["responses"][i], by |-> actor]
           column == [i \in 1 .. n |-> cell(i)]
<1>1. pc = "old_log_prob"
  BY DEF OldLogProb, Join
<1>2. "old_log_prob" \in RowPhases /\ "ref" \in RowPhases
  BY DEF RowPhases, BeforeValues, BeforeGopd, BeforeTeacher, BeforeReference, BeforeOld, BeforeScores
<1>3. CASE Accepted(batch) /\ CanUnion(AsLeft(batch), Rename(answers, "old_log_probs", "old_log_probs"))
  <2>1. /\ config \in Configs /\ n \in Nat \ {0} /\ Told(batch, n, config, actor) /\ Table(batch, n)
        /\ RowsInv(batch, "old_log_prob", config, actor)
    BY <1>1, <1>2, RowsNow
  <2>2. Callable(batch, n, {"responses"}) /\ Callable(batch, n, {})
    BY <1>3, <2>1 DEF Callable, Told
  <2>3. answers = One("old_log_probs", [i \in 1 .. n |-> [of |-> batch["responses"][i], by |-> actor]])
    BY <2>2, LogProbsInPlace
  <2>4. answers = One("old_log_probs", column)
    BY <2>3
  <2>5. IsList(column, n) /\ \A i \in 1 .. n : column[i] = cell(i)
    BY DEF IsList
  <2>6. \A i \in 1 .. n : CellTold("old_log_probs", cell(i), batch["responses"][i], config, actor)
    BY <2>1 DEF CellTold, AboutResponse
  <2>7. Present(DOMAIN batch \cup {"old_log_probs"}, "ref", config)
    <3>1. Present(DOMAIN batch, "old_log_prob", config)
      BY <2>1 DEF RowsInv
    <3> QED
      BY <3>1 DEF Present, ScoresCome, NewPhases, RowPhases, BeforeValues, BeforeGopd, BeforeTeacher, BeforeReference, BeforeOld, BeforeScores, Later
  <2>8. PICK m \in Nat : Table(AsLeft(batch), m) /\ (m = n => AsLeft(batch) = batch)
    BY <2>2, LeftRows
  <2>9. /\ pc' = "ref" /\ UNCHANGED <<config, taken, actor, reward>>
        /\ batch' = Union(AsLeft(batch), Rename(answers, "old_log_probs", "old_log_probs"))
    BY <1>3 DEF OldLogProb, Join
  <2>10. /\ "ref" \notin BeforeScores \cup {"score"} => "old_log_prob" \notin BeforeScores \cup {"score"}
         /\ Size(config, "ref") = Size(config, "old_log_prob")
    BY DEF BeforeScores, Size, NewPhases
  <2> HIDE DEF n, answers, cell, column
  <2>11. IsList(column, n) /\ \A i \in 1 .. n : CellTold("old_log_probs", column[i], batch["responses"][i], config, actor)
    BY <2>5, <2>6
  <2>12. IsList(column, Size(config, pc)) /\ (m = Size(config, pc) => AsLeft(batch) = batch)
         /\ \A i \in 1 .. Size(config, pc) : CellTold("old_log_probs", column[i], batch["responses"][i], config, actor)
    BY <2>8, <2>11 DEF n
  <2> QED
    BY <1>1, <1>2, <1>3, <2>4, <2>7, <2>8, <2>9, <2>10, <2>12, JoinStep
<1>4. CASE ~(Accepted(batch) /\ CanUnion(AsLeft(batch), Rename(answers, "old_log_probs", "old_log_probs")))
  <2>1. Fail("old_log_prob")
    BY <1>4 DEF OldLogProb, Join
  <2> QED
    BY <2>1, FailStep
<1> QED
  BY <1>3, <1>4

\* A column joins the batch.
JoinsColumn(name) == \E column : IsList(column, Size(config, pc)) /\ batch' = Put(batch, name, column)

LEMMA RewardModelJoins ==
    ASSUME StepInv, Plain, config.rewardModel, RewardModel
    PROVE  StepInv' /\ (pc' # "failed" => JoinsColumn("rm_scores"))
<1> DEFINE n == Size(config, pc)
           answers == Called(batch, RmScores)
           cell(i) == [of |-> batch["responses"][i]]
           column == [i \in 1 .. n |-> cell(i)]
<1>1. pc = "reward"
  BY DEF RewardModel, Join
<1>2. "reward" \in RowPhases /\ "score" \in RowPhases
  BY DEF RowPhases, BeforeValues, BeforeGopd, BeforeTeacher, BeforeReference, BeforeOld, BeforeScores
<1>3. CASE Accepted(batch) /\ CanUnion(AsLeft(batch), Rename(answers, "rm_scores", "rm_scores"))
  <2>1. /\ config \in Configs /\ n \in Nat \ {0} /\ Told(batch, n, config, actor) /\ Table(batch, n)
        /\ RowsInv(batch, "reward", config, actor)
    BY <1>1, <1>2, RowsNow
  <2>2. Callable(batch, n, {"responses"}) /\ Callable(batch, n, {})
    BY <1>3, <2>1 DEF Callable, Told
  <2>3. answers = One("rm_scores", [i \in 1 .. n |-> [of |-> batch["responses"][i]]])
    BY <2>2, RmScoresCalled
  <2>4. answers = One("rm_scores", column)
    BY <2>3
  <2>5. IsList(column, n) /\ \A i \in 1 .. n : column[i] = cell(i)
    BY DEF IsList
  <2>6. \A i \in 1 .. n : CellTold("rm_scores", cell(i), batch["responses"][i], config, actor)
    BY <2>1 DEF CellTold, AboutResponse
  <2>7. Present(DOMAIN batch \cup {"rm_scores"}, "score", config)
    <3>1. Present(DOMAIN batch, "reward", config)
      BY <2>1 DEF RowsInv
    <3> QED
      BY <3>1 DEF Present, ScoresCome, NewPhases, RowPhases, BeforeValues, BeforeGopd, BeforeTeacher, BeforeReference, BeforeOld, BeforeScores, Later
  <2>8. PICK m \in Nat : Table(AsLeft(batch), m) /\ (m = n => AsLeft(batch) = batch)
    BY <2>2, LeftRows
  <2>9. /\ pc' = "score" /\ UNCHANGED <<config, taken, actor, reward>>
        /\ batch' = Union(AsLeft(batch), Rename(answers, "rm_scores", "rm_scores"))
    BY <1>3 DEF RewardModel, Join
  <2>10. /\ "score" \notin BeforeScores \cup {"score"} => "reward" \notin BeforeScores \cup {"score"}
         /\ Size(config, "score") = Size(config, "reward")
    BY DEF BeforeScores, Size, NewPhases
  <2> HIDE DEF n, answers, cell, column
  <2>11. IsList(column, n) /\ \A i \in 1 .. n : CellTold("rm_scores", column[i], batch["responses"][i], config, actor)
    BY <2>5, <2>6
  <2>12. IsList(column, Size(config, pc)) /\ (m = Size(config, pc) => AsLeft(batch) = batch)
         /\ \A i \in 1 .. Size(config, pc) : CellTold("rm_scores", column[i], batch["responses"][i], config, actor)
    BY <2>8, <2>11 DEF n
  <2>13. StepInv' /\ batch' = Put(batch, "rm_scores", column)
    BY <1>1, <1>2, <1>3, <2>4, <2>7, <2>8, <2>9, <2>10, <2>12, JoinStep
  <2> QED
    BY <2>12, <2>13 DEF JoinsColumn
<1>4. CASE ~(Accepted(batch) /\ CanUnion(AsLeft(batch), Rename(answers, "rm_scores", "rm_scores")))
  <2>1. Fail("reward") /\ pc' = "failed"
    BY <1>4 DEF RewardModel, Join, Fail
  <2> QED
    BY <2>1, FailStep
<1> QED
  BY <1>3, <1>4

LEMMA ReferenceJoins ==
    ASSUME StepInv, Plain, config.reference, NEW there \in {"teacher", "adv"}, there = "adv" => config.trainer = "sppo",
           ReferenceThen(there)
    PROVE  StepInv'
<1> DEFINE n == Size(config, pc)
           answers == Called(batch, RefLogProb)
           cell(i) == [of |-> batch["responses"][i]]
           column == [i \in 1 .. n |-> cell(i)]
<1>1. pc = "ref"
  BY DEF ReferenceThen, Join
<1>2. "ref" \in RowPhases /\ there \in RowPhases
  BY DEF RowPhases, BeforeValues, BeforeGopd, BeforeTeacher, BeforeReference, BeforeOld, BeforeScores
<1>3. CASE Accepted(batch) /\ CanUnion(AsLeft(batch), Rename(answers, "ref_log_prob", "ref_log_prob"))
  <2>1. /\ config \in Configs /\ n \in Nat \ {0} /\ Told(batch, n, config, actor) /\ Table(batch, n)
        /\ RowsInv(batch, "ref", config, actor)
    BY <1>1, <1>2, RowsNow
  <2>2. Callable(batch, n, {"responses"}) /\ Callable(batch, n, {})
    BY <1>3, <2>1 DEF Callable, Told
  <2>3. answers = One("ref_log_prob", [i \in 1 .. n |-> [of |-> batch["responses"][i]]])
    BY <2>2, RefLogProbCalled
  <2>4. answers = One("ref_log_prob", column)
    BY <2>3
  <2>5. IsList(column, n) /\ \A i \in 1 .. n : column[i] = cell(i)
    BY DEF IsList
  <2>6. \A i \in 1 .. n : CellTold("ref_log_prob", cell(i), batch["responses"][i], config, actor)
    BY <2>1 DEF CellTold, AboutResponse
  <2>7. Present(DOMAIN batch \cup {"ref_log_prob"}, there, config)
    <3>1. Present(DOMAIN batch, "ref", config)
      BY <2>1 DEF RowsInv
    <3>2. there = "adv" => ~config.teacher /\ config.estimator \notin {"GOPD", "GAE"}
      BY <2>1, ConfigsAssumption, SppoAssumption
    <3> QED
      BY <3>1, <3>2 DEF Present, ScoresCome, NewPhases, RowPhases, BeforeValues, BeforeGopd, BeforeTeacher, BeforeReference, BeforeOld, BeforeScores, Later
  <2>8. PICK m \in Nat : Table(AsLeft(batch), m) /\ (m = n => AsLeft(batch) = batch)
    BY <2>2, LeftRows
  <2>9. /\ pc' = there /\ UNCHANGED <<config, taken, actor, reward>>
        /\ batch' = Union(AsLeft(batch), Rename(answers, "ref_log_prob", "ref_log_prob"))
    BY <1>3 DEF ReferenceThen, Join
  <2>10. /\ there \notin BeforeScores \cup {"score"} => "ref" \notin BeforeScores \cup {"score"}
         /\ Size(config, there) = Size(config, "ref")
    BY DEF BeforeScores, Size, NewPhases
  <2> HIDE DEF n, answers, cell, column
  <2>11. IsList(column, n) /\ \A i \in 1 .. n : CellTold("ref_log_prob", column[i], batch["responses"][i], config, actor)
    BY <2>5, <2>6
  <2>12. IsList(column, Size(config, pc)) /\ (m = Size(config, pc) => AsLeft(batch) = batch)
         /\ \A i \in 1 .. Size(config, pc) : CellTold("ref_log_prob", column[i], batch["responses"][i], config, actor)
    BY <2>8, <2>11 DEF n
  <2> QED
    BY <1>1, <1>2, <1>3, <2>4, <2>7, <2>8, <2>9, <2>10, <2>12, JoinStep
<1>4. CASE ~(Accepted(batch) /\ CanUnion(AsLeft(batch), Rename(answers, "ref_log_prob", "ref_log_prob")))
  <2>1. Fail("ref")
    BY <1>4 DEF ReferenceThen, Join
  <2> QED
    BY <2>1, FailStep
<1> QED
  BY <1>3, <1>4

LEMMA TeacherJoins ==
    ASSUME StepInv, Plain, config.teacher, Teacher
    PROVE  StepInv'
<1> DEFINE n == Size(config, pc)
           data == PrivilegedBatch
           answers == Called(data, PrivilegedLogProb)
           cell(i) == [of |-> batch["responses"][i], given |-> batch["raw_prompt"][i]]
           column == [i \in 1 .. n |-> cell(i)]
<1>1. pc = "teacher"
  BY DEF Teacher, Join
<1>2. "teacher" \in RowPhases /\ "gopd_ref" \in RowPhases
  BY DEF RowPhases, BeforeValues, BeforeGopd, BeforeTeacher, BeforeReference, BeforeOld, BeforeScores
<1>3. CASE Accepted(data) /\ CanUnion(batch, Rename(answers, "ref_log_prob", "teacher_log_prob"))
  <2>1. /\ config \in Configs /\ n \in Nat \ {0} /\ Told(batch, n, config, actor) /\ Table(batch, n)
        /\ RowsInv(batch, "teacher", config, actor)
    BY <1>1, <1>2, RowsNow
  <2>2. {"responses", "raw_prompt"} \subseteq DOMAIN batch
    <3>1. Present(DOMAIN batch, "teacher", config)
      BY <2>1 DEF RowsInv
    <3> QED
      BY <2>1, <3>1 DEF Told, Present, Teacher
  <2>3. /\ Table(data, n) /\ DOMAIN data = {"responses", "raw_prompt"}
        /\ data["responses"] = batch["responses"] /\ data["raw_prompt"] = batch["raw_prompt"]
    BY <2>1, <2>2, ColumnsTable DEF PrivilegedBatch, Chosen
  <2>4. Callable(data, n, {"responses", "raw_prompt"})
    BY <1>3, <2>1, <2>3 DEF Callable
  <2>5. answers = One("ref_log_prob", [i \in 1 .. n |-> [of |-> data["responses"][i], given |-> data["raw_prompt"][i]]])
    BY <2>4, PrivilegedLogProbCalled
  <2>6. answers = One("ref_log_prob", column)
    BY <2>5, <2>3
  <2>7. IsList(column, n) /\ \A i \in 1 .. n : column[i] = cell(i)
    BY DEF IsList
  <2>8. \A i \in 1 .. n : CellTold("teacher_log_prob", cell(i), batch["responses"][i], config, actor)
    BY <2>1, <2>2 DEF CellTold, AboutResponse, Told
  <2>9. Present(DOMAIN batch \cup {"teacher_log_prob"}, "gopd_ref", config)
    <3>1. Present(DOMAIN batch, "teacher", config)
      BY <2>1 DEF RowsInv
    <3> QED
      BY <3>1 DEF Present, ScoresCome, NewPhases, RowPhases, BeforeValues, BeforeGopd, BeforeTeacher, BeforeReference, BeforeOld, BeforeScores, Later
  <2>10. PICK m \in Nat : m = n /\ Table(batch, m) /\ (m = n => batch = batch)
    BY <2>1
  <2>11. /\ pc' = "gopd_ref" /\ UNCHANGED <<config, taken, actor, reward>>
        /\ batch' = Union(batch, Rename(answers, "ref_log_prob", "teacher_log_prob"))
    BY <1>3 DEF Teacher, Join
  <2>12. /\ "gopd_ref" \notin BeforeScores \cup {"score"} => "teacher" \notin BeforeScores \cup {"score"}
         /\ Size(config, "gopd_ref") = Size(config, "teacher")
    BY DEF BeforeScores, Size, NewPhases
  <2> HIDE DEF n, answers, data, cell, column
  <2>13. IsList(column, n) /\ \A i \in 1 .. n : CellTold("teacher_log_prob", column[i], batch["responses"][i], config, actor)
    BY <2>7, <2>8
  <2>14. IsList(column, Size(config, pc)) /\ (m = Size(config, pc) => batch = batch)
         /\ \A i \in 1 .. Size(config, pc) : CellTold("teacher_log_prob", column[i], batch["responses"][i], config, actor)
    BY <2>10, <2>13 DEF n
  <2> QED
    BY <1>1, <1>2, <1>3, <2>6, <2>9, <2>10, <2>11, <2>12, <2>14, JoinStep
<1>4. CASE ~(Accepted(data) /\ CanUnion(batch, Rename(answers, "ref_log_prob", "teacher_log_prob")))
  <2>1. Fail("teacher")
    BY <1>4 DEF Teacher, Join
  <2> QED
    BY <2>1, FailStep
<1> QED
  BY <1>3, <1>4

LEMMA GopdPrivileged ==
    ASSUME StepInv, Plain, config.gopdRef, GopdReference
    PROVE  StepInv'
<1> DEFINE n == Size(config, pc)
           data == PrivilegedBatch
           answers == Called(data, PrivilegedLogProb)
           cell(i) == [of |-> batch["responses"][i], given |-> batch["raw_prompt"][i]]
           column == [i \in 1 .. n |-> cell(i)]
<1>1. pc = "gopd_ref"
  BY DEF GopdReference, Join
<1>2. "gopd_ref" \in RowPhases /\ "values" \in RowPhases
  BY DEF RowPhases, BeforeValues, BeforeGopd, BeforeTeacher, BeforeReference, BeforeOld, BeforeScores
<1>3. CASE Accepted(data) /\ CanUnion(batch, Rename(answers, "ref_log_prob", "gopd_ref_log_prob"))
  <2>1. /\ config \in Configs /\ n \in Nat \ {0} /\ Told(batch, n, config, actor) /\ Table(batch, n)
        /\ RowsInv(batch, "gopd_ref", config, actor)
    BY <1>1, <1>2, RowsNow
  <2>2. {"responses", "raw_prompt"} \subseteq DOMAIN batch
    <3>1. Present(DOMAIN batch, "gopd_ref", config)
      BY <2>1 DEF RowsInv
    <3> QED
      BY <2>1, <3>1 DEF Told, Present, GopdReference
  <2>3. /\ Table(data, n) /\ DOMAIN data = {"responses", "raw_prompt"}
        /\ data["responses"] = batch["responses"] /\ data["raw_prompt"] = batch["raw_prompt"]
    BY <2>1, <2>2, ColumnsTable DEF PrivilegedBatch, Chosen
  <2>4. Callable(data, n, {"responses", "raw_prompt"})
    BY <1>3, <2>1, <2>3 DEF Callable
  <2>5. answers = One("ref_log_prob", [i \in 1 .. n |-> [of |-> data["responses"][i], given |-> data["raw_prompt"][i]]])
    BY <2>4, PrivilegedLogProbCalled
  <2>6. answers = One("ref_log_prob", column)
    BY <2>5, <2>3
  <2>7. IsList(column, n) /\ \A i \in 1 .. n : column[i] = cell(i)
    BY DEF IsList
  <2>8. \A i \in 1 .. n : CellTold("gopd_ref_log_prob", cell(i), batch["responses"][i], config, actor)
    BY <2>1, <2>2 DEF CellTold, AboutResponse, Told
  <2>9. Present(DOMAIN batch \cup {"gopd_ref_log_prob"}, "values", config)
    <3>1. Present(DOMAIN batch, "gopd_ref", config)
      BY <2>1 DEF RowsInv
    <3>2. config.gopdRef => config.estimator = "GOPD"
      BY <2>1, ConfigsAssumption
    <3> QED
      BY <3>1, <3>2 DEF Present, ScoresCome, NewPhases, RowPhases, BeforeValues, BeforeGopd, BeforeTeacher, BeforeReference, BeforeOld, BeforeScores, Later
  <2>10. PICK m \in Nat : m = n /\ Table(batch, m) /\ (m = n => batch = batch)
    BY <2>1
  <2>11. /\ pc' = "values" /\ UNCHANGED <<config, taken, actor, reward>>
        /\ batch' = Union(batch, Rename(answers, "ref_log_prob", "gopd_ref_log_prob"))
    BY <1>3 DEF GopdReference, Join
  <2>12. /\ "values" \notin BeforeScores \cup {"score"} => "gopd_ref" \notin BeforeScores \cup {"score"}
         /\ Size(config, "values") = Size(config, "gopd_ref")
    BY DEF BeforeScores, Size, NewPhases
  <2> HIDE DEF n, answers, data, cell, column
  <2>13. IsList(column, n) /\ \A i \in 1 .. n : CellTold("gopd_ref_log_prob", column[i], batch["responses"][i], config, actor)
    BY <2>7, <2>8
  <2>14. IsList(column, Size(config, pc)) /\ (m = Size(config, pc) => batch = batch)
         /\ \A i \in 1 .. Size(config, pc) : CellTold("gopd_ref_log_prob", column[i], batch["responses"][i], config, actor)
    BY <2>10, <2>13 DEF n
  <2> QED
    BY <1>1, <1>2, <1>3, <2>6, <2>9, <2>10, <2>11, <2>12, <2>14, JoinStep
<1>4. CASE ~(Accepted(data) /\ CanUnion(batch, Rename(answers, "ref_log_prob", "gopd_ref_log_prob")))
  <2>1. Fail("gopd_ref")
    BY <1>4 DEF GopdReference, Join
  <2> QED
    BY <2>1, FailStep
<1> QED
  BY <1>3, <1>4

LEMMA GopdJoins ==
    ASSUME StepInv, Plain, config.estimator = "GOPD", ~config.gopdRef, GopdReference
    PROVE  StepInv'
<1> DEFINE n == Size(config, pc)
           answers == Called(batch, RefLogProb)
           cell(i) == [of |-> batch["responses"][i]]
           column == [i \in 1 .. n |-> cell(i)]
<1>1. pc = "gopd_ref"
  BY DEF GopdReference, Join
<1>2. "gopd_ref" \in RowPhases /\ "values" \in RowPhases
  BY DEF RowPhases, BeforeValues, BeforeGopd, BeforeTeacher, BeforeReference, BeforeOld, BeforeScores
<1>3. CASE Accepted(batch) /\ CanUnion(AsLeft(batch), Rename(answers, "ref_log_prob", "gopd_ref_log_prob"))
  <2>1. /\ config \in Configs /\ n \in Nat \ {0} /\ Told(batch, n, config, actor) /\ Table(batch, n)
        /\ RowsInv(batch, "gopd_ref", config, actor)
    BY <1>1, <1>2, RowsNow
  <2>2. Callable(batch, n, {"responses"}) /\ Callable(batch, n, {})
    BY <1>3, <2>1 DEF Callable, Told
  <2>3. answers = One("ref_log_prob", [i \in 1 .. n |-> [of |-> batch["responses"][i]]])
    BY <2>2, RefLogProbCalled
  <2>4. answers = One("ref_log_prob", column)
    BY <2>3
  <2>5. IsList(column, n) /\ \A i \in 1 .. n : column[i] = cell(i)
    BY DEF IsList
  <2>6. \A i \in 1 .. n : CellTold("gopd_ref_log_prob", cell(i), batch["responses"][i], config, actor)
    BY <2>1 DEF CellTold, AboutResponse
  <2>7. Present(DOMAIN batch \cup {"gopd_ref_log_prob"}, "values", config)
    <3>1. Present(DOMAIN batch, "gopd_ref", config)
      BY <2>1 DEF RowsInv
    <3> QED
      BY <3>1 DEF Present, ScoresCome, NewPhases, RowPhases, BeforeValues, BeforeGopd, BeforeTeacher, BeforeReference, BeforeOld, BeforeScores, Later
  <2>8. PICK m \in Nat : Table(AsLeft(batch), m) /\ (m = n => AsLeft(batch) = batch)
    BY <2>2, LeftRows
  <2>9. /\ pc' = "values" /\ UNCHANGED <<config, taken, actor, reward>>
        /\ batch' = Union(AsLeft(batch), Rename(answers, "ref_log_prob", "gopd_ref_log_prob"))
    BY <1>3 DEF GopdReference, Join
  <2>10. /\ "values" \notin BeforeScores \cup {"score"} => "gopd_ref" \notin BeforeScores \cup {"score"}
         /\ Size(config, "values") = Size(config, "gopd_ref")
    BY DEF BeforeScores, Size, NewPhases
  <2> HIDE DEF n, answers, cell, column
  <2>11. IsList(column, n) /\ \A i \in 1 .. n : CellTold("gopd_ref_log_prob", column[i], batch["responses"][i], config, actor)
    BY <2>5, <2>6
  <2>12. IsList(column, Size(config, pc)) /\ (m = Size(config, pc) => AsLeft(batch) = batch)
         /\ \A i \in 1 .. Size(config, pc) : CellTold("gopd_ref_log_prob", column[i], batch["responses"][i], config, actor)
    BY <2>8, <2>11 DEF n
  <2> QED
    BY <1>1, <1>2, <1>3, <2>4, <2>7, <2>8, <2>9, <2>10, <2>12, JoinStep
<1>4. CASE ~(Accepted(batch) /\ CanUnion(AsLeft(batch), Rename(answers, "ref_log_prob", "gopd_ref_log_prob")))
  <2>1. Fail("gopd_ref")
    BY <1>4 DEF GopdReference, Join
  <2> QED
    BY <2>1, FailStep
<1> QED
  BY <1>3, <1>4

LEMMA ValuesJoin ==
    ASSUME StepInv, Plain, UseCritic, Values
    PROVE  StepInv'
<1> DEFINE n == Size(config, pc)
           answers == Called(batch, CriticValues)
           cell(i) == [of |-> batch["responses"][i], by |-> critic]
           column == [i \in 1 .. n |-> cell(i)]
<1>1. pc = "values"
  BY DEF Values, Join
<1>2. "values" \in RowPhases /\ "adv" \in RowPhases
  BY DEF RowPhases, BeforeValues, BeforeGopd, BeforeTeacher, BeforeReference, BeforeOld, BeforeScores
<1>3. CASE Accepted(batch) /\ CanUnion(AsLeft(batch), Rename(answers, "values", "values"))
  <2>1. /\ config \in Configs /\ n \in Nat \ {0} /\ Told(batch, n, config, actor) /\ Table(batch, n)
        /\ RowsInv(batch, "values", config, actor)
    BY <1>1, <1>2, RowsNow
  <2>2. Callable(batch, n, {"responses"}) /\ Callable(batch, n, {})
    BY <1>3, <2>1 DEF Callable, Told
  <2>3. answers = One("values", [i \in 1 .. n |-> [of |-> batch["responses"][i], by |-> critic]])
    BY <2>2, CriticValuesCalled
  <2>4. answers = One("values", column)
    BY <2>3
  <2>5. IsList(column, n) /\ \A i \in 1 .. n : column[i] = cell(i)
    BY DEF IsList
  <2>6. \A i \in 1 .. n : CellTold("values", cell(i), batch["responses"][i], config, actor)
    BY <2>1 DEF CellTold, AboutResponse
  <2>7. Present(DOMAIN batch \cup {"values"}, "adv", config)
    <3>1. Present(DOMAIN batch, "values", config)
      BY <2>1 DEF RowsInv
    <3> QED
      BY <3>1 DEF Present, ScoresCome, NewPhases, RowPhases, BeforeValues, BeforeGopd, BeforeTeacher, BeforeReference, BeforeOld, BeforeScores, Later, UseCritic
  <2>8. PICK m \in Nat : Table(AsLeft(batch), m) /\ (m = n => AsLeft(batch) = batch)
    BY <2>2, LeftRows
  <2>9. /\ pc' = "adv" /\ UNCHANGED <<config, taken, actor, reward>>
        /\ batch' = Union(AsLeft(batch), Rename(answers, "values", "values"))
    BY <1>3 DEF Values, Join
  <2>10. /\ "adv" \notin BeforeScores \cup {"score"} => "values" \notin BeforeScores \cup {"score"}
         /\ Size(config, "adv") = Size(config, "values")
    BY DEF BeforeScores, Size, NewPhases
  <2> HIDE DEF n, answers, cell, column
  <2>11. IsList(column, n) /\ \A i \in 1 .. n : CellTold("values", column[i], batch["responses"][i], config, actor)
    BY <2>5, <2>6
  <2>12. IsList(column, Size(config, pc)) /\ (m = Size(config, pc) => AsLeft(batch) = batch)
         /\ \A i \in 1 .. Size(config, pc) : CellTold("values", column[i], batch["responses"][i], config, actor)
    BY <2>8, <2>11 DEF n
  <2> QED
    BY <1>1, <1>2, <1>3, <2>4, <2>7, <2>8, <2>9, <2>10, <2>12, JoinStep
<1>4. CASE ~(Accepted(batch) /\ CanUnion(AsLeft(batch), Rename(answers, "values", "values")))
  <2>1. Fail("values")
    BY <1>4 DEF Values, Join
  <2> QED
    BY <2>1, FailStep
<1> QED
  BY <1>3, <1>4

-----------------------------------------------------------------------------
(* A batch is taken and its responses generated.                             *)

LEMMA GenStep ==
    ASSUME StepInv, config' = config, taken' \in Nat, pc' \in Generating, GenInv'
    PROVE  StepInv'
<1>1. pc' \notin RowPhases \cup LearningPhases
  BY DEF RowPhases, BeforeValues, BeforeGopd, BeforeTeacher, BeforeReference, BeforeOld, BeforeScores,
         Generating, LearningPhases
<1>2. BatchInv'
  BY <1>1 DEF BatchInv
<1>3. ~Learning'
  BY <1>1 DEF Learning, LearningPhases
<1>4. LearnInv'
  BY <1>3 DEF LearnInv
<1> QED
  BY <1>2, <1>4 DEF StepInv

LEMMA NextBatchStep ==
    ASSUME StepInv, Plain, NextBatch
    PROVE  StepInv'
<1> DEFINE n == config.genPrompts
           rows == [i \in 1 .. n |-> taken * n + i]
<1>1. /\ config' = config /\ taken' = taken + 1 /\ pc' = "generate"
      /\ gen' = [c \in {"input_ids", "raw_prompt"} |-> rows]
      /\ batch' = [c \in {"data_source"} |-> rows]
  BY DEF NextBatch, PopBatch
<1>2. taken \in Nat /\ n \in Nat \ {0}
  BY SizesOfConfig DEF StepInv, Sizes
<1>3. Earlier(config, taken') = taken * n
  BY <1>1, <1>2 DEF Earlier
<1>4. rows = Taken(config, taken')
  BY <1>3 DEF Taken
<1>5. IsList(rows, n) /\ \A i \in 1 .. n : rows[i] = Earlier(config, taken') + i
  BY <1>3 DEF IsList
<1> HIDE DEF rows, n
<1>6. /\ DOMAIN gen' = {"input_ids", "raw_prompt"} /\ gen' = [c \in DOMAIN gen' |-> gen'[c]]
      /\ \A c \in DOMAIN gen' : gen'[c] = rows
  BY <1>1
<1>7. Table(gen', n)
  BY <1>5, <1>6 DEF Table
<1>8. Rows(gen') = n
  BY <1>2, <1>7, TableRows
<1>9. Prompted(gen', config, taken')
  BY <1>2, <1>5, <1>6, <1>7, <1>8 DEF Prompted, n
<1>10. Untouched(batch', config, taken')
  BY <1>1, <1>4 DEF Untouched
<1>11. GenInv'
  BY <1>1, <1>2, <1>8, <1>9, <1>10 DEF GenInv, n
<1> QED
  BY <1>1, <1>2, <1>11, GenStep DEF Generating

\* What is generated for the prompts answers them.
Asking(argument, m, length) ==
    /\ m \in Nat /\ config.genPrompts <= m /\ Promptlike(argument)
    /\ \A i \in 1 .. config.genPrompts : \A c \in DOMAIN argument : argument[c][i] = Earlier(config, taken) + i
    /\ \E P : /\ length \in [P \X (1 .. config.samples) -> Lengths]
               /\ \A i \in 1 .. config.genPrompts : Earlier(config, taken) + i \in P
AnswersIn(data, whole, N) ==
    /\ N \in Nat /\ Table(data, N) /\ BatchSize(config) <= N
    /\ DOMAIN data = {"input_ids"} \cup (IF config.async THEN {} ELSE {"raw_prompt"}) \cup Answering(config)
    /\ DOMAIN data \subseteq DOMAIN whole
    /\ \A c \in DOMAIN data, i \in 1 .. BatchSize(config) : data[c][i] = whole[c][i]
LEMMA AnswersOf ==
    ASSUME config \in Configs, NEW argument, NEW m, NEW length, Asking(argument, m, length),
           NEW whole, GeneratedOf(whole, argument, m, config.samples, 1, length),
           NEW data, NEW N, AnswersIn(data, whole, N)
    PROVE  Answers(data, config, taken, actor)
<1> DEFINE s == config.samples
           g == config.genPrompts
<1>1. s \in Nat \ {0} /\ g \in Nat \ {0}
  BY SizesOfConfig DEF Sizes
<1>2. BatchSize(config) = s * g
  BY <1>1 DEF BatchSize
<1>3. /\ m \in Nat /\ g <= m /\ Promptlike(argument)
      /\ \A i \in 1 .. g : \A c \in DOMAIN argument : argument[c][i] = Earlier(config, taken) + i
  BY DEF Asking
<1>4. PICK P : /\ length \in [P \X (1 .. s) -> Lengths]
               /\ \A i \in 1 .. g : Earlier(config, taken) + i \in P
  BY DEF Asking
<1>5. /\ N \in Nat /\ Table(data, N) /\ BatchSize(config) <= N
      /\ DOMAIN data = {"input_ids"} \cup (IF config.async THEN {} ELSE {"raw_prompt"}) \cup Answering(config)
      /\ DOMAIN data \subseteq DOMAIN whole
      /\ \A c \in DOMAIN data, i \in 1 .. BatchSize(config) : data[c][i] = whole[c][i]
  BY DEF AnswersIn
<1>6. ASSUME NEW i \in 1 .. BatchSize(config)
      PROVE  AnswersRow(data, config, taken, actor, i)
  <2> DEFINE u == SourceRow(i, s)
             prompt == Earlier(config, taken) + u
             sample == 1 + ((i - 1) % s)
  <2>1. u \in 1 .. g /\ (i - 1) % s \in 0 .. s - 1
    BY <1>1, <1>2, SourceInRange
  <2>2. i \in 1 .. s * m
    <3>1. PICK x \in Nat, y \in Nat : x = s * g /\ y = s * m
      BY <1>1, <1>3
    <3>2. x <= y
      BY <1>1, <1>3, <3>1
    <3> QED
      BY <1>2, <3>1, <3>2
  <2>3. \A c \in DOMAIN argument : whole[c][i] = prompt
    BY <1>3, <2>1, <2>2 DEF GeneratedOf
  <2>4. whole["responses"][i] = Answer(prompt, sample, length)
    BY <1>3, <2>1, <2>2, <2>3 DEF GeneratedOf, Promptlike
  <2>5. length[<<prompt, sample>>] \in Lengths
    <3>1. prompt \in P /\ sample \in 1 .. s
      BY <1>1, <1>4, <2>1
    <3> HIDE DEF prompt, sample
    <3> QED
      BY <1>4, <3>1
  <2>6. /\ whole["responses"][i].prompt = prompt /\ whole["responses"][i].sample = sample
        /\ Fresh(whole["responses"][i], config, actor)
    <3>1. sample \in 1 .. s
      BY <1>1, <2>1
    <3> HIDE DEF prompt, sample, u
    <3> QED
      BY <2>4, <2>5, <3>1 DEF Answer, Fresh
  <2>7. whole["attention_mask"][i] = Kinds(config)
    BY <2>2 DEF GeneratedOf, Attended, Kinds
  <2>8. "loss_mask" \in DOMAIN data => whole["loss_mask"][i] = {"generated"}
    BY <1>5, <2>2 DEF GeneratedOf, Answering
  <2>9. {"responses", "attention_mask"} \subseteq DOMAIN data
    BY <1>5 DEF Answering
  <2>10. \A c \in DOMAIN data \cap {"input_ids", "raw_prompt"} : c \in DOMAIN argument
    BY <1>5 DEF GeneratedOf, Answering, Masks
  <2> HIDE DEF u
  <2> QED
    BY <1>5, <2>3, <2>6, <2>7, <2>8, <2>9, <2>10 DEF AnswersRow, u
<1>7. Rows(data) = N
  BY <1>5, TableRows
<1> QED
  BY <1>6, <1>7, <1>5 DEF Answers

LEMMA GenNow ==
    ASSUME StepInv, Plain, pc \in Generating
    PROVE  /\ config \in Configs /\ Sizes(config) /\ GenInv /\ taken \in Nat \ {0}
           /\ Prompted(gen, config, taken) /\ Promptlike(gen)
           /\ Rows(gen) \in Nat \ {0} /\ Table(gen, Rows(gen)) /\ config.genPrompts <= Rows(gen)
           /\ \A i \in 1 .. config.genPrompts, c \in DOMAIN gen : gen[c][i] = Earlier(config, taken) + i
<1>1. config \in Configs /\ GenInv /\ taken \in Nat
  BY DEF StepInv
<1>2. Sizes(config)
  BY <1>1, SizesOfConfig
<1>3. taken # 0 /\ Prompted(gen, config, taken)
  BY <1>1 DEF GenInv, Generating
<1>4. config.genPrompts \in Nat \ {0}
  BY <1>2 DEF Sizes
<1> QED
  BY <1>1, <1>2, <1>3, <1>4 DEF Prompted, Promptlike

\* A call of generate_sequences, and what it returns.
Rolled(data, s, first, length) ==
    Result([r \in 1 .. config.workers |->
              Own(Generated(Gathered(AsLeft(data), config.workers, config.tp, r), s, first, length), config.tp, r)],
           AsLeft(data), data)
LEMMA RolloutRows ==
    ASSUME NEW data, NEW n, Callable(data, n, {}), Promptlike(data), NEW s \in Nat \ {0}, NEW first, NEW length
    PROVE  \E m \in Nat \ {0}, N \in Nat :
              /\ Pads(AsLeft(data), data, n, m, config.workers)
              /\ GeneratedOf(Generated(AsLeft(data), s, first, length), AsLeft(data), m, s, first, length)
              /\ s * n <= N /\ N <= s * m
              /\ n % config.workers = 0 => N = s * n
              /\ Rolled(data, s, first, length) = FirstRows(Generated(AsLeft(data), s, first, length), N)
<1>1. PICK m, q \in Nat \ {0} : /\ Pads(AsLeft(data), data, n, m, config.workers)
                                /\ Split(m, config.workers, config.tp, q)
  BY CallParts
<1> DEFINE argument == AsLeft(data)
           whole == Generated(argument, s, first, length)
           outputs == [r \in 1 .. config.workers |->
                         Own(Generated(Gathered(argument, config.workers, config.tp, r), s, first, length), config.tp, r)]
<1>2. n \in Nat \ {0} /\ Table(data, n)
  BY DEF Callable
<1>3. Table(argument, m) /\ Promptlike(argument) /\ n <= m
  BY <1>1 DEF Pads, Promptlike
<1>4. Rolled(data, s, first, length) = Result(outputs, argument, data)
  BY DEF Rolled
<1> HIDE DEF argument
<1>5. GeneratedOf(whole, argument, m, s, first, length)
  BY <1>3, GeneratedRows
<1>6. Result(outputs, argument, data) = FirstRows(whole, s * m - (m - n))
  <2> DEFINE k == config.workers
             g == config.tp
  <2>1. Split(m, k, g, q)
    BY <1>1
  <2>2. outputs = [r \in 1 .. k |-> Own(Generated(Gathered(argument, k, g, r), s, first, length), g, r)]
    OBVIOUS
  <2> HIDE DEF k, g, outputs
  <2> QED
    BY <1>2, <1>3, <2>1, <2>2, GeneratedCall
<1> HIDE DEF whole, outputs
<1>7. PICK N \in Int : N = s * m - (m - n)
  BY <1>2
<1>8. s * n <= N /\ N <= s * m /\ N \in Nat /\ (m = n => N = s * n)
  <2>1. PICK t \in Nat : s = t + 1
    <3>1. s = (s - 1) + 1 /\ s - 1 \in Nat
      OBVIOUS
    <3> QED
      BY <3>1
  <2>2. PICK d \in Nat : m = n + d
    <3>1. m = n + (m - n) /\ m - n \in Nat
      BY <1>2, <1>3
    <3> QED
      BY <3>1
  <2>3. PICK x, y, z, v \in Nat : x = s * m /\ y = s * n /\ z = t * d /\ v = s * d
    BY <1>2, <2>1, <2>2
  <2>4. x = y + v
    BY <1>2, <2>2, <2>3
  <2>5. v = z + d
    BY <2>1, <2>2, <2>3
  <2>6. N = x - d
    BY <1>2, <1>7, <2>2, <2>3
  <2>7. y <= N /\ N <= x /\ N \in Nat /\ (d = 0 => N = y)
    BY <2>3, <2>4, <2>5, <2>6
  <2> QED
    BY <1>2, <2>2, <2>3, <2>7
<1>9. Rolled(data, s, first, length) = FirstRows(whole, N)
  BY <1>4, <1>6, <1>7
<1>10. n % config.workers = 0 => N = s * n
  BY <1>1, <1>8 DEF Pads
<1> QED
  BY <1>1, <1>5, <1>8, <1>9, <1>10 DEF argument, whole

\* The answers as they are, when the chat scheduler's they are,
LEMMA GenerateAsync ==
    ASSUME StepInv, Plain, pc = "generate", config.async,
           NEW length \in [ToSet(gen["input_ids"]) \X (1 .. config.samples) -> Lengths],
           out' = Without(Generated(gen, config.samples, 1, length), {"raw_prompt"}),
           pc' = "assemble", UNCHANGED <<config, taken, gen, batch, actor>>
    PROVE  StepInv' /\ ExactRows(gen', out', config)
<1> DEFINE s == config.samples
           n == Rows(gen)
           whole == Generated(gen, s, 1, length)
           P == ToSet(gen["input_ids"])
<1>1. /\ config \in Configs /\ Sizes(config) /\ GenInv /\ taken \in Nat \ {0}
      /\ Prompted(gen, config, taken) /\ Promptlike(gen)
      /\ n \in Nat \ {0} /\ Table(gen, n) /\ config.genPrompts <= n
      /\ \A i \in 1 .. config.genPrompts, c \in DOMAIN gen : gen[c][i] = Earlier(config, taken) + i
  BY GenNow DEF Generating
<1>2. n = config.genPrompts /\ Untouched(batch, config, taken)
  BY <1>1 DEF GenInv
<1>3. s \in Nat \ {0}
  BY <1>1 DEF Sizes
<1>4. GeneratedOf(whole, gen, n, s, 1, length)
  BY <1>1, <1>3, GeneratedRows
<1>5. config.estimator # "REMAX"
  BY <1>1, ConfigsAssumption
<1>6. DOMAIN gen = {"input_ids", "raw_prompt"}
  BY <1>1 DEF Prompted
<1>7. \A i \in 1 .. config.genPrompts : Earlier(config, taken) + i \in P
  <2>1. IsList(gen["input_ids"], n)
    BY <1>1, <1>6 DEF Table
  <2>2. DOMAIN gen["input_ids"] = 1 .. n
    BY <2>1 DEF IsList
  <2> QED
    BY <1>1, <1>2, <1>6, <2>2 DEF ToSet
<1> HIDE DEF whole, P, n
<1>8. PICK N \in Nat : N = s * n
  BY <1>1, <1>3
<1>9. Table(whole, N) /\ DOMAIN whole = {"input_ids", "raw_prompt"} \cup Answering(config)
  BY <1>4, <1>6, <1>8 DEF GeneratedOf
<1>10. ~(DOMAIN whole \subseteq {"raw_prompt"})
  BY <1>9
<1>11. out' = Without(whole, {"raw_prompt"})
  BY DEF whole
<1>12. /\ Table(out', N)
       /\ DOMAIN out' = DOMAIN whole \ {"raw_prompt"}
       /\ \A c \in DOMAIN out' : out'[c] = whole[c]
  <2> DEFINE names == {"raw_prompt"}
             w == Without(whole, names)
  <2>1. ~(DOMAIN whole \subseteq names)
    BY <1>10
  <2> HIDE DEF names
  <2>2. /\ Table(w, N) /\ DOMAIN w = DOMAIN whole \ names
        /\ \A c \in DOMAIN whole \ names : w[c] = whole[c]
    BY <1>9, <2>1, WithoutTable DEF Chosen
  <2> QED
    BY <1>11, <2>2 DEF names
<1>13. BatchSize(config) <= N /\ N = BatchSize(config)
  <2>1. s * config.genPrompts = config.genPrompts * s
    BY <1>1, <1>3 DEF Sizes
  <2>2. BatchSize(config) = N
    BY <1>2, <1>8, <2>1 DEF BatchSize
  <2> QED
    BY <1>8, <2>2
<1>14. DOMAIN out' = {"input_ids"} \cup (IF config.async THEN {} ELSE {"raw_prompt"}) \cup Answering(config)
  <2>1. "raw_prompt" \notin Answering(config)
    BY DEF Answering, Masks
  <2> QED
    BY <1>9, <1>12, <2>1
<1>15. length \in [P \X (1 .. s) -> Lengths]
  BY DEF P
<1>16. \A c \in DOMAIN out', i \in 1 .. BatchSize(config) : out'[c][i] = whole[c][i]
  BY <1>12
<1>17. DOMAIN out' \subseteq DOMAIN whole
  BY <1>12
<1>18. \A i \in 1 .. config.genPrompts : \A c \in DOMAIN gen : gen[c][i] = Earlier(config, taken) + i
  BY <1>1
<1>19. config.genPrompts <= n /\ n \in Nat
  BY <1>1
<1>20. Answers(out', config, taken, actor)
  <2>1. AnswersIn(out', whole, N)
    BY <1>8, <1>12, <1>13, <1>14, <1>16, <1>17 DEF AnswersIn
  <2>2. Asking(gen, n, length)
    BY <1>1, <1>7, <1>15, <1>18, <1>19 DEF Asking
  <2> QED
    BY <1>1, <1>4, <2>1, <2>2, AnswersOf
<1>21. GenInv'
  <2>1. Prompted(gen', config', taken') /\ Untouched(batch', config', taken') /\ taken' # 0
    BY <1>1, <1>2
  <2>2. Answers(out', config', taken', actor')
    BY <1>20
  <2>3. config'.estimator # "REMAX"
    BY <1>5
  <2> QED
    BY <2>1, <2>2, <2>3 DEF GenInv
<1>22. config' = config /\ taken' \in Nat /\ pc' \in Generating
  BY <1>1 DEF Generating
<1>23. Rows(out') = N
  BY <1>12, TableRows
<1>24. ExactRows(gen', out', config)
  BY <1>2, <1>13, <1>23 DEF ExactRows, n
<1> QED
  BY <1>21, <1>22, <1>24, GenStep

\* and with their padding when the workers'.
LEMMA GenerateSync ==
    ASSUME StepInv, Plain, pc = "generate", ~config.async, Accepted(gen),
           NEW length \in [ToSet(gen["input_ids"]) \X (1 .. config.samples) -> Lengths],
           out' = Rolled(gen, config.samples, 1, length), gen' = AsLeft(gen),
           pc' = IF config.estimator = "REMAX" THEN "baseline" ELSE "assemble",
           UNCHANGED <<config, taken, batch, actor>>
    PROVE  StepInv' /\ (Fits(config) => ExactRows(gen', out', config))
<1> DEFINE s == config.samples
           n == Rows(gen)
           argument == AsLeft(gen)
           whole == Generated(argument, s, 1, length)
           P == ToSet(gen["input_ids"])
<1>1. /\ config \in Configs /\ Sizes(config) /\ GenInv /\ taken \in Nat \ {0}
      /\ Prompted(gen, config, taken) /\ Promptlike(gen)
      /\ n \in Nat \ {0} /\ Table(gen, n) /\ config.genPrompts <= n
      /\ \A i \in 1 .. config.genPrompts, c \in DOMAIN gen : gen[c][i] = Earlier(config, taken) + i
  BY GenNow DEF Generating
<1>2. n = config.genPrompts /\ Untouched(batch, config, taken)
  BY <1>1 DEF GenInv
<1>3. s \in Nat \ {0}
  BY <1>1 DEF Sizes
<1>4. DOMAIN gen = {"input_ids", "raw_prompt"}
  BY <1>1 DEF Prompted
<1>5. \A i \in 1 .. config.genPrompts : Earlier(config, taken) + i \in P
  <2>1. IsList(gen["input_ids"], n)
    BY <1>1, <1>4 DEF Table
  <2>2. DOMAIN gen["input_ids"] = 1 .. n
    BY <2>1 DEF IsList
  <2> QED
    BY <1>1, <1>2, <1>4, <2>2 DEF ToSet
<1> HIDE DEF P, n
<1>6. Callable(gen, n, {})
  BY <1>1 DEF Callable
<1>7. PICK m \in Nat \ {0}, N \in Nat :
              /\ Pads(argument, gen, n, m, config.workers)
              /\ GeneratedOf(whole, argument, m, s, 1, length)
              /\ s * n <= N /\ N <= s * m
              /\ n % config.workers = 0 => N = s * n
              /\ Rolled(gen, s, 1, length) = FirstRows(whole, N)
  BY <1>1, <1>3, <1>6, RolloutRows
<1>8. out' = FirstRows(whole, N) /\ gen' = argument
  BY <1>7
<1> HIDE DEF argument, whole
<1>9. /\ m \in Nat \ {0} /\ n <= m /\ m % config.workers = 0 /\ Table(argument, m)
      /\ DOMAIN argument = DOMAIN gen
      /\ \A c \in DOMAIN gen, i \in 1 .. n : argument[c][i] = gen[c][i]
  BY <1>7 DEF Pads
<1>10. PICK M \in Nat : M = s * m
  BY <1>3
<1>11. Table(whole, M) /\ DOMAIN whole = {"input_ids", "raw_prompt"} \cup Answering(config)
  BY <1>4, <1>7, <1>9, <1>10 DEF GeneratedOf
<1>12. /\ Table(out', N) /\ DOMAIN out' = DOMAIN whole
       /\ \A c \in DOMAIN whole, i \in 1 .. N : out'[c][i] = whole[c][i]
  <2>1. N \in Nat /\ M \in Nat /\ N <= M /\ Table(whole, M)
    BY <1>7, <1>10, <1>11
  <2>2. /\ Table(FirstRows(whole, N), N) /\ DOMAIN FirstRows(whole, N) = DOMAIN whole
        /\ \A c \in DOMAIN whole, i \in 1 .. N : FirstRows(whole, N)[c][i] = whole[c][i]
    BY ONLY <2>1, FirstOf
  <2> QED
    BY <1>8, <2>2
<1>13. BatchSize(config) <= N /\ (n % config.workers = 0 => N = BatchSize(config))
  <2>1. s * config.genPrompts = config.genPrompts * s
    BY <1>1, <1>3 DEF Sizes
  <2>2. BatchSize(config) = s * n
    BY <1>2, <2>1 DEF BatchSize
  <2> QED
    BY <1>7, <2>2
<1>14. DOMAIN out' = {"input_ids"} \cup (IF config.async THEN {} ELSE {"raw_prompt"}) \cup Answering(config)
  BY <1>11, <1>12
<1>15. length \in [P \X (1 .. s) -> Lengths]
  BY DEF P
<1>16. BatchSize(config) \in Nat
  BY <1>1 DEF BatchSize, Sizes
<1>17. \A c \in DOMAIN out', i \in 1 .. BatchSize(config) : out'[c][i] = whole[c][i]
  BY <1>12, <1>13, <1>16
<1>18. DOMAIN out' \subseteq DOMAIN whole /\ Promptlike(argument)
  BY <1>1, <1>9, <1>12 DEF Promptlike
<1>19. \A i \in 1 .. config.genPrompts : \A c \in DOMAIN argument : argument[c][i] = Earlier(config, taken) + i
  BY <1>1, <1>2, <1>9
<1>20. config.genPrompts <= m /\ m \in Nat
  BY <1>2, <1>9
<1>21. Answers(out', config, taken, actor)
  <2>1. AnswersIn(out', whole, N)
    BY <1>12, <1>13, <1>14, <1>17, <1>18 DEF AnswersIn
  <2>2. Asking(argument, m, length)
    BY <1>5, <1>15, <1>18, <1>19, <1>20 DEF Asking
  <2> QED
    BY <1>1, <1>7, <2>1, <2>2, AnswersOf
<1>22. Rows(argument) = m
  BY <1>9, TableRows
<1>23. Prompted(argument, config, taken)
  <2>1. DOMAIN argument = {"input_ids", "raw_prompt"}
    BY <1>4, <1>9
  <2>2. \A col \in DOMAIN argument, i \in 1 .. config.genPrompts : argument[col][i] = Earlier(config, taken) + i
    BY <1>19
  <2> QED
    BY <1>9, <1>20, <1>22, <2>1, <2>2 DEF Prompted
<1>24. GenInv'
  <2>1. Prompted(gen', config', taken') /\ Untouched(batch', config', taken') /\ taken' # 0
    BY <1>1, <1>2, <1>8, <1>23
  <2>2. Answers(out', config', taken', actor')
    BY <1>21
  <2>3. Rows(gen') % config'.workers = 0
    BY <1>8, <1>9, <1>22
  <2>4. config' = config
    OBVIOUS
  <2> QED
    BY <2>1, <2>2, <2>3, <2>4 DEF GenInv
<1>25. config' = config /\ taken' \in Nat /\ pc' \in Generating
  BY <1>1 DEF Generating
<1>26. Fits(config) => ExactRows(gen', out', config)
  <2>1. Rows(out') = N
    BY <1>12, TableRows
  <2>2. ASSUME Fits(config) PROVE ExactRows(gen', out', config)
    <3>1. n % config.workers = 0
      BY <1>2, <2>2 DEF Fits
    <3>2. gen' = gen
      BY <1>7, <1>8, <3>1 DEF Pads
    <3> QED
      BY <1>2, <1>13, <2>1, <3>1, <3>2 DEF ExactRows, n
  <2> QED
    BY <2>2
<1> QED
  BY <1>24, <1>25, <1>26, GenStep

LEMMA GenerateStep ==
    ASSUME StepInv, Plain, Generate
    PROVE  /\ StepInv'
           /\ Fits(config) => failed' = failed /\ ExactRows(gen', out', config)
<1>1. pc = "generate"
  BY DEF Generate
<1>2. PICK length \in [ToSet(gen["input_ids"]) \X (1 .. config.samples) -> Lengths] :
         \/ /\ config.async
            /\ out' = Without(Generated(gen, config.samples, 1, length), {"raw_prompt"})
            /\ pc' = "assemble"
            /\ UNCHANGED <<config, taken, step, gen, batch, reward, actor, critic, table, failed>>
         \/ /\ ~config.async /\ Accepted(gen)
            /\ out' = Rolled(gen, config.samples, 1, length)
            /\ gen' = AsLeft(gen)
            /\ pc' = IF config.estimator = "REMAX" THEN "baseline" ELSE "assemble"
            /\ UNCHANGED <<config, taken, step, batch, reward, actor, critic, table, failed>>
         \/ ~config.async /\ ~Accepted(gen) /\ Fail("generate")
  BY DEF Generate, Rollout, Call, Rolled, AsLeft
<1>3. Fits(config) /\ ~config.async => Accepted(gen)
  <2>1. Rows(gen) = config.genPrompts
    BY <1>1 DEF StepInv, GenInv
  <2> QED
    BY <2>1 DEF Fits, Accepted, CanDispatch
<1> QED
  BY <1>1, <1>2, <1>3, GenerateAsync, GenerateSync, FailStep

\* The greedy response of each prompt.
LEMMA GreedyRows ==
    ASSUME StepInv, Plain, pc = "baseline", NEW length, NEW greedy, greedy = Rolled(gen, 1, 0, length)
    PROVE  /\ GeneratedOf(Generated(gen, 1, 0, length), gen, Rows(gen), 1, 0, length)
           /\ greedy = FirstRows(Generated(gen, 1, 0, length), Rows(gen))
           /\ Table(greedy, Rows(gen)) /\ DOMAIN greedy = {"input_ids", "raw_prompt"} \cup Answering(config)
           /\ Table(batch, config.genPrompts) /\ DOMAIN batch = {"data_source"}
           /\ \A i \in 1 .. config.genPrompts : batch["data_source"][i] = Earlier(config, taken) + i
<1> DEFINE n == Rows(gen)
           whole == Generated(gen, 1, 0, length)
<1>1. /\ config \in Configs /\ Sizes(config) /\ GenInv /\ taken \in Nat \ {0}
      /\ Prompted(gen, config, taken) /\ Promptlike(gen)
      /\ n \in Nat \ {0} /\ Table(gen, n) /\ config.genPrompts <= n
      /\ \A i \in 1 .. config.genPrompts, c \in DOMAIN gen : gen[c][i] = Earlier(config, taken) + i
  BY GenNow DEF Generating
<1>2. /\ Untouched(batch, config, taken) /\ n % config.workers = 0 /\ config.estimator = "REMAX"
      /\ Answers(out, config, taken, actor)
  BY <1>1 DEF GenInv
<1>3. DOMAIN gen = {"input_ids", "raw_prompt"}
  BY <1>1 DEF Prompted
<1> HIDE DEF n
<1>4. Callable(gen, n, {})
  BY <1>1, <1>2 DEF Callable, Accepted, CanDispatch, n
<1>5. PICK m \in Nat \ {0}, N \in Nat :
            /\ Pads(AsLeft(gen), gen, n, m, config.workers)
            /\ GeneratedOf(Generated(AsLeft(gen), 1, 0, length), AsLeft(gen), m, 1, 0, length)
            /\ 1 * n <= N /\ N <= 1 * m
            /\ n % config.workers = 0 => N = 1 * n
            /\ Rolled(gen, 1, 0, length) = FirstRows(Generated(AsLeft(gen), 1, 0, length), N)
  BY <1>1, <1>4, RolloutRows
<1>6. m = n /\ AsLeft(gen) = gen /\ N = n
  BY <1>1, <1>2, <1>5 DEF Pads
<1>7. GeneratedOf(whole, gen, n, 1, 0, length) /\ greedy = FirstRows(whole, n)
  BY <1>5, <1>6
<1> HIDE DEF whole
<1>8. Table(whole, n) /\ DOMAIN whole = {"input_ids", "raw_prompt"} \cup Answering(config)
  BY <1>1, <1>3, <1>7 DEF GeneratedOf
<1>9. /\ Table(greedy, n) /\ DOMAIN greedy = DOMAIN whole
      /\ \A c \in DOMAIN whole, i \in 1 .. n : greedy[c][i] = whole[c][i]
  <2>1. n \in Nat /\ n <= n /\ Table(whole, n)
    BY <1>1, <1>8
  <2>2. /\ Table(FirstRows(whole, n), n) /\ DOMAIN FirstRows(whole, n) = DOMAIN whole
        /\ \A c \in DOMAIN whole, i \in 1 .. n : FirstRows(whole, n)[c][i] = whole[c][i]
    BY ONLY <2>1, FirstOf
  <2>3. greedy = FirstRows(whole, n)
    BY <1>7
  <2> QED
    BY <2>2, <2>3
<1>10. /\ Table(batch, config.genPrompts) /\ DOMAIN batch = {"data_source"}
       /\ \A i \in 1 .. config.genPrompts : batch["data_source"][i] = Earlier(config, taken) + i
  <2>1. IsList(Taken(config, taken), config.genPrompts)
    BY DEF Taken, IsList
  <2>2. \A i \in 1 .. config.genPrompts : Taken(config, taken)[i] = Earlier(config, taken) + i
    BY DEF Taken
  <2>3. batch = One("data_source", Taken(config, taken))
    BY <1>2 DEF Untouched, One
  <2> QED
    BY <2>1, <2>2, <2>3, OneTable, OneColumn
<1> QED
  BY <1>7, <1>3, <1>8, <1>9, <1>10 DEF n, whole

LEMMA BaselineStep ==
    ASSUME StepInv, Plain, Baseline
    PROVE  StepInv'
<1> DEFINE n == Rows(gen)
           length == [p \in ToSet(gen["input_ids"]) \X {0} |-> 1]
           greedy == Rolled(gen, 1, 0, length)
           whole == Generated(gen, 1, 0, length)
           joined == Union(batch, greedy)
           left == Without(joined, DOMAIN greedy \ {"raw_prompt"})
           baselines == [i \in 1 .. Rows(joined) |-> [of |-> joined["responses"][i]]]
<1>1. pc = "baseline"
  BY DEF Baseline
<1>2. \/ /\ CanUnion(batch, greedy)
         /\ batch' = Put(left, "reward_baselines", baselines)
         /\ pc' = "assemble"
         /\ UNCHANGED <<config, taken, step, gen, out, reward, actor, critic, table, failed>>
      \/ Fail("baseline")
  BY DEF Baseline, Rollout, Call, Rolled, AsLeft
<1>3. ASSUME CanUnion(batch, greedy), batch' = Put(left, "reward_baselines", baselines), pc' = "assemble",
             UNCHANGED <<config, taken, gen, out, actor>>
      PROVE  StepInv'
  <2>1. /\ config \in Configs /\ Sizes(config) /\ GenInv /\ taken \in Nat \ {0}
        /\ Prompted(gen, config, taken) /\ Promptlike(gen)
        /\ n \in Nat \ {0} /\ Table(gen, n) /\ config.genPrompts <= n
        /\ \A i \in 1 .. config.genPrompts, c \in DOMAIN gen : gen[c][i] = Earlier(config, taken) + i
    BY <1>1, GenNow DEF Generating
  <2>2. /\ Untouched(batch, config, taken) /\ n % config.workers = 0 /\ config.estimator = "REMAX"
        /\ Answers(out, config, taken, actor)
    BY <1>1, <2>1 DEF GenInv
  <2>3. DOMAIN gen = {"input_ids", "raw_prompt"}
    BY <2>1 DEF Prompted
  <2>4. /\ GeneratedOf(whole, gen, n, 1, 0, length) /\ greedy = FirstRows(whole, n)
        /\ Table(greedy, n) /\ DOMAIN greedy = {"input_ids", "raw_prompt"} \cup Answering(config)
        /\ Table(batch, config.genPrompts) /\ DOMAIN batch = {"data_source"}
        /\ \A i \in 1 .. config.genPrompts : batch["data_source"][i] = Earlier(config, taken) + i
    BY <1>1, GreedyRows
  <2> HIDE DEF n, length, whole
  <2>5. Table(whole, n) /\ DOMAIN whole = {"input_ids", "raw_prompt"} \cup Answering(config)
    BY <2>1, <2>3, <2>4 DEF GeneratedOf
  <2>6. /\ Table(greedy, n) /\ DOMAIN greedy = DOMAIN whole
        /\ \A c \in DOMAIN whole, i \in 1 .. n : greedy[c][i] = whole[c][i]
    BY <2>1, <2>4, <2>5, FirstOf
  <2> HIDE DEF greedy
  <2>7. /\ Table(batch, config.genPrompts) /\ DOMAIN batch = {"data_source"}
         /\ \A i \in 1 .. config.genPrompts : batch["data_source"][i] = Earlier(config, taken) + i
    BY <2>4
  <2>8. n = config.genPrompts
    <3>1. Rows(greedy) = n /\ Rows(batch) = config.genPrompts
      BY <2>1, <2>6, <2>7, TableRows DEF Sizes
    <3> QED
      BY <1>3, <3>1 DEF CanUnion
  <2>9. Table(batch, n)
    BY <2>7, <2>8
  <2>10. /\ Table(joined, n) /\ DOMAIN joined = DOMAIN batch \cup DOMAIN greedy
         /\ \A c \in DOMAIN greedy : joined[c] = greedy[c]
         /\ \A c \in DOMAIN batch \ DOMAIN greedy : joined[c] = batch[c]
    <3>1. Joint(joined, batch, greedy, n)
      BY <2>6, <2>9, UnionTable
    <3> QED
      BY <3>1 DEF Joint
  <2>11. {"responses", "raw_prompt"} \subseteq DOMAIN greedy /\ "data_source" \notin DOMAIN greedy
    BY <2>5, <2>6 DEF Answering, Masks
  <2>12. IsList(baselines, n) /\ \A i \in 1 .. n : baselines[i] = [of |-> greedy["responses"][i]]
    <3>1. Rows(joined) = n
      BY <2>1, <2>10, TableRows
    <3>2. joined["responses"] = greedy["responses"]
      BY <2>10, <2>11
    <3> HIDE DEF joined
    <3> QED
      BY <3>1, <3>2 DEF IsList
  <2> HIDE DEF baselines, joined
  <2>13. /\ Table(left, n) /\ DOMAIN left = {"data_source", "raw_prompt"}
         /\ left["data_source"] = batch["data_source"] /\ left["raw_prompt"] = greedy["raw_prompt"]
    <3> DEFINE names == DOMAIN greedy \ {"raw_prompt"}
    <3>1. ~(DOMAIN joined \subseteq names) /\ DOMAIN joined \ names = {"data_source", "raw_prompt"}
      BY <2>7, <2>10, <2>11
    <3> HIDE DEF names
    <3>2. Chosen(Without(joined, names), joined, DOMAIN joined \ names, n)
      BY <2>10, <3>1, WithoutTable
    <3> USE DEF names
    <3>3. left = Without(joined, names)
      OBVIOUS
    <3>4. joined["data_source"] = batch["data_source"] /\ joined["raw_prompt"] = greedy["raw_prompt"]
      BY <2>7, <2>10, <2>11
    <3> HIDE DEF names, left
    <3> QED
      BY <3>1, <3>2, <3>3, <3>4 DEF Chosen
  <2> HIDE DEF left
  <2>14. Extended(batch', left, n, "reward_baselines", baselines)
    <3>1. Extended(Put(left, "reward_baselines", baselines), left, n, "reward_baselines", baselines)
      BY <2>12, <2>13, PutTable
    <3> QED
      BY <1>3, <3>1
  <2>15. /\ Table(batch', n) /\ DOMAIN batch' = {"data_source", "raw_prompt", "reward_baselines"}
         /\ batch'["data_source"] = batch["data_source"] /\ batch'["raw_prompt"] = greedy["raw_prompt"]
         /\ batch'["reward_baselines"] = baselines
    BY <2>13, <2>14 DEF Extended
  <2>16. ASSUME NEW i \in 1 .. n
         PROVE  /\ greedy["raw_prompt"][i] = Earlier(config, taken) + i
                /\ Greedy(baselines[i], Earlier(config, taken) + i, actor)
    <3>1. PICK a \in Nat : i = a + 1
      <4>1. i = (i - 1) + 1 /\ i - 1 \in Nat
        BY <2>1
      <4> QED
        BY <4>1
    <3>2. i = a * 1 + 1
      BY <3>1
    <3>3. SourceRow(i, 1) = a + 1 /\ (i - 1) % 1 = 1 - 1
      BY <3>2, SourceRowOf
    <3>4. SourceRow(i, 1) = i /\ 0 + ((i - 1) % 1) = 0
      BY <3>1, <3>3
    <3>5. /\ whole["raw_prompt"][i] = gen["raw_prompt"][i]
          /\ whole["responses"][i] = Answer(gen["input_ids"][i], 0, length)
      BY <2>1, <2>3, <2>4, <3>4 DEF GeneratedOf
    <3>6. gen["raw_prompt"][i] = Earlier(config, taken) + i /\ gen["input_ids"][i] = Earlier(config, taken) + i
      BY <2>1, <2>3, <2>8
    <3>7. greedy["raw_prompt"][i] = whole["raw_prompt"][i] /\ greedy["responses"][i] = whole["responses"][i]
      BY <2>6, <2>11
    <3> QED
      <4>1. baselines[i] = [of |-> whole["responses"][i]]
        BY <2>12, <3>7
      <4>2. whole["responses"][i].prompt = Earlier(config, taken) + i
            /\ whole["responses"][i].sample = 0 /\ whole["responses"][i].by = actor
        BY <3>5, <3>6 DEF Answer
      <4> QED
        BY <3>5, <3>6, <3>7, <4>1, <4>2 DEF Greedy
  <2>17. Baselined(batch', config, taken, actor)
    <3>1. Table(batch', config.genPrompts)
      BY <2>8, <2>15
    <3>2. ASSUME NEW i \in 1 .. config.genPrompts
          PROVE  /\ batch'["data_source"][i] = Earlier(config, taken) + i
                 /\ batch'["raw_prompt"][i] = Earlier(config, taken) + i
                 /\ Greedy(batch'["reward_baselines"][i], Earlier(config, taken) + i, actor)
      BY <2>7, <2>8, <2>15, <2>16
    <3> QED
      BY <2>15, <3>1, <3>2 DEF Baselined
  <2>18. GenInv'
    <3>1. Prompted(gen', config', taken') /\ taken' # 0 /\ Answers(out', config', taken', actor')
      BY <1>3, <2>1, <2>2
    <3>2. Baselined(batch', config', taken', actor')
      BY <1>3, <2>17
    <3>3. config'.estimator = "REMAX" /\ pc' = "assemble"
      BY <1>3, <2>2
    <3> QED
      BY <3>1, <3>2, <3>3 DEF GenInv
  <2>19. config' = config /\ taken' \in Nat /\ pc' \in Generating
    BY <1>3, <2>1 DEF Generating
  <2> QED
    BY <2>18, <2>19, GenStep
<1> QED
  BY <1>2, <1>3, FailStep

\* The batch as it is put together: each row an answer of its prompt.
Assembled(data, c, t, a) ==
    /\ Table(data, BatchSize(c))
    /\ {"responses", "data_source", "uid", "attention_mask"} \cup (Masks(c) \ {"response_mask"}) \subseteq DOMAIN data
    /\ DOMAIN data \subseteq {"data_source", "uid", "raw_prompt", "reward_baselines", "input_ids",
                              "responses", "attention_mask", "loss_mask", "response_mask"}
    /\ "reward_baselines" \in DOMAIN data <=> c.estimator = "REMAX"
    /\ c.teacher \/ c.gopdRef => "raw_prompt" \in DOMAIN data
    /\ \A i \in 1 .. BatchSize(c) :
         LET prompt == Earlier(c, t) + SourceRow(i, c.samples) IN
         /\ AnswersRow(data, c, t, a, i)
         /\ data["data_source"][i] = prompt
         /\ data["uid"][i] = <<t, SourceRow(i, c.samples)>>
         /\ "reward_baselines" \in DOMAIN data => Greedy(data["reward_baselines"][i], prompt, a)

PlaceAt(i, s, x, k) == i = x * s + k /\ SourceRow(i, s) = x + 1 /\ (i - 1) % s = k - 1
LEMMA PlaceNumbers ==
    ASSUME NEW s \in Nat \ {0}, NEW q \in Nat, NEW i \in 1 .. q * s
    PROVE  \E x \in Nat, k \in 1 .. s : PlaceAt(i, s, x, k)
<1>1. PICK y \in 1 .. q, k \in 1 .. s : i = (y - 1) * s + k
  BY RowNumber
<1>2. PICK x \in Nat : x = y - 1
  OBVIOUS
<1>3. i = x * s + k
  BY <1>1, <1>2
<1>4. SourceRow(i, s) = x + 1 /\ (i - 1) % s = k - 1
  BY <1>3, SourceRowOf
<1>5. PlaceAt(i, s, x, k)
  BY <1>3, <1>4 DEF PlaceAt
<1> QED
  BY <1>5

LEMMA SamePlace ==
    ASSUME NEW s \in Nat \ {0}, NEW q \in Nat, NEW i \in 1 .. q * s, NEW j \in 1 .. q * s,
           SourceRow(i, s) = SourceRow(j, s), (i - 1) % s = (j - 1) % s
    PROVE  i = j
<1>1. PICK x \in Nat, k \in 1 .. s : PlaceAt(i, s, x, k)
  BY PlaceNumbers, Zenon
<1>2. PICK y \in Nat, l \in 1 .. s : PlaceAt(j, s, y, l)
  BY PlaceNumbers, Zenon
<1>3. x + 1 = y + 1 /\ k - 1 = l - 1
  BY <1>1, <1>2, Zenon DEF PlaceAt
<1>4. x = y /\ k = l
  BY ONLY <1>3, x \in Nat, y \in Nat, k \in 1 .. s, l \in 1 .. s, s \in Nat
<1> QED
  BY <1>1, <1>2, <1>4, Zenon DEF PlaceAt

LEMMA AssembledRows ==
    ASSUME NEW c, Sizes(c), NEW t \in Nat, NEW a, NEW data, Assembled(data, c, t, a),
           NEW phase \in BeforeScores, Size(c, phase) = BatchSize(c), Sampled(c) => phase = "reward"
    PROVE  RowsInv(data, phase, c, a)
<1> DEFINE s == c.samples
           n == BatchSize(c)
           responses == data["responses"]
           uid == data["uid"]
           source(i) == SourceRow(i, s)
           b == Earlier(c, t)
<1>1. s \in Nat \ {0} /\ c.genPrompts \in Nat \ {0}
  BY DEF Sizes
<1>2. n = s * c.genPrompts /\ b \in Int
  BY <1>1 DEF BatchSize, Earlier
<1>3. \A i \in 1 .. n : source(i) \in 1 .. c.genPrompts /\ (i - 1) % s \in 0 .. s - 1
  BY <1>1, <1>2, SourceInRange
<1>4. \A i \in 1 .. n :
         /\ AnswersRow(data, c, t, a, i)
         /\ data["data_source"][i] = b + source(i)
         /\ uid[i] = <<t, source(i)>>
         /\ "reward_baselines" \in DOMAIN data => Greedy(data["reward_baselines"][i], b + source(i), a)
  BY DEF Assembled
<1>5. \A i \in 1 .. n : /\ responses[i].prompt = b + source(i)
                        /\ responses[i].sample = 1 + ((i - 1) % s)
  BY <1>4 DEF AnswersRow
<1>6. Told(data, n, c, a)
  <2>1. ASSUME NEW col \in DOMAIN data, NEW i \in 1 .. n
        PROVE  CellTold(col, data[col][i], responses[i], c, a)
    <3> DEFINE prompt == b + source(i)
    <3>1. responses[i].prompt = prompt /\ data["data_source"][i] = prompt
      BY <1>4, <1>5
    <3>2. /\ \A x \in DOMAIN data \cap {"input_ids", "raw_prompt"} : data[x][i] = prompt
          /\ Fresh(responses[i], c, a)
          /\ data["attention_mask"][i] = Kinds(c)
          /\ "loss_mask" \in DOMAIN data => data["loss_mask"][i] = {"generated"}
      BY <1>4 DEF AnswersRow
    <3>3. "reward_baselines" \in DOMAIN data => Greedy(data["reward_baselines"][i], prompt, a)
      BY <1>4
    <3>4. col \in {"data_source", "uid", "raw_prompt", "reward_baselines", "input_ids",
                   "responses", "attention_mask", "loss_mask", "response_mask"}
      BY DEF Assembled
    <3> HIDE DEF prompt, source, b, n
    <3> QED
      BY <3>1, <3>2, <3>3, <3>4 DEF CellTold, AboutResponse
  <2> QED
    BY <2>1 DEF Told, Assembled
<1>7. ASSUME NEW i \in 1 .. n, NEW j \in 1 .. n PROVE Alone(responses, uid, i, j)
  <2>1. responses[i].prompt = responses[j].prompt <=> source(i) = source(j)
    <3>1. source(i) \in Int /\ source(j) \in Int
      BY <1>3
    <3> HIDE DEF source, b
    <3> QED
      BY <1>2, <1>5, <3>1
  <2>2. uid[i] = uid[j] <=> source(i) = source(j)
    <3>1. uid[i] = <<t, source(i)>> /\ uid[j] = <<t, source(j)>>
      BY <1>4
    <3> HIDE DEF source, uid
    <3> QED
      BY <3>1
  <2>3. ASSUME source(i) = source(j), responses[i].sample = responses[j].sample
        PROVE  i = j
    <3>1. (i - 1) % s \in Int /\ (j - 1) % s \in Int
      BY <1>3
    <3>2. 1 + ((i - 1) % s) = 1 + ((j - 1) % s)
      BY <1>5, <2>3
    <3>3. (i - 1) % s = (j - 1) % s
      BY <3>1, <3>2
    <3>4. PICK q \in Nat : q = c.genPrompts
      BY <1>1
    <3>5. i \in 1 .. q * s /\ j \in 1 .. q * s
      BY <1>1, <1>2, <3>4
    <3>6. SourceRow(i, s) = SourceRow(j, s)
      BY <2>3
    <3> HIDE DEF s
    <3> QED
      BY <1>1, <3>3, <3>5, <3>6, SamePlace
  <2> HIDE DEF source, responses, uid
  <2> QED
    BY <2>1, <2>2, <2>3 DEF Alone
<1>8. ASSUME NEW i \in 1 .. n, NEW x \in 1 .. s PROVE HasSample(responses, n, i, x)
  <2>1. PICK u \in 1 .. c.genPrompts : u = source(i)
    BY <1>3
  <2>2. PICK v \in Nat : v = u - 1
    BY <1>1
  <2>3. PICK j \in 1 .. c.genPrompts * s : j = (u - 1) * s + x
    BY <1>1, RowInRange
  <2>4. j \in 1 .. n /\ j = v * s + x
    BY <1>1, <1>2, <2>2, <2>3
  <2>5. source(j) = v + 1 /\ (j - 1) % s = x - 1
    BY <1>1, <2>4, SourceRowOf
  <2>6. responses[j].prompt = responses[i].prompt
    BY <1>5, <2>1, <2>2, <2>4, <2>5
  <2>7. responses[j].sample = x
    BY <1>5, <2>4, <2>5
  <2> HIDE DEF source, responses, n
  <2> QED
    BY <2>4, <2>6, <2>7 DEF HasSample
<1>9. Whole(responses, uid, n, s)
  <2> HIDE DEF responses, uid, n, s
  <2> QED
    BY <1>7, <1>8 DEF Whole
<1>10. Present(DOMAIN data, phase, c)
  BY DEF Present, ScoresCome, Assembled, RowPhases, BeforeValues, BeforeGopd, BeforeTeacher, BeforeReference, BeforeOld, BeforeScores, Later
<1> QED
  BY <1>6, <1>9, <1>10 DEF RowsInv

\* The batch that is generated for, with the baseline or without.
Waiting(data, c, t, a) ==
    /\ Table(data, c.genPrompts)
    /\ DOMAIN data = IF c.estimator = "REMAX" THEN {"data_source", "raw_prompt", "reward_baselines"}
                     ELSE {"data_source"}
    /\ \A i \in 1 .. c.genPrompts :
         /\ \A col \in DOMAIN data \cap {"data_source", "raw_prompt"} : data[col][i] = Earlier(c, t) + i
         /\ "reward_baselines" \in DOMAIN data => Greedy(data["reward_baselines"][i], Earlier(c, t) + i, a)

LEMMA WaitingNow ==
    ASSUME StepInv, Plain, pc = "assemble"
    PROVE  Waiting(batch, config, taken, actor) /\ Answers(out, config, taken, actor)
<1>1. GenInv
  BY GenNow DEF Generating
<1>2. CASE config.estimator = "REMAX"
  BY <1>1, <1>2 DEF GenInv, Baselined, Waiting
<1>3. CASE config.estimator # "REMAX"
  <2> DEFINE g == config.genPrompts
  <2>1. Untouched(batch, config, taken) /\ Answers(out, config, taken, actor)
    BY <1>1, <1>3 DEF GenInv
  <2>2. IsList(Taken(config, taken), g)
    BY DEF Taken, IsList
  <2>3. \A i \in 1 .. g : Taken(config, taken)[i] = Earlier(config, taken) + i
    BY DEF Taken
  <2>4. batch = One("data_source", Taken(config, taken))
    BY <2>1 DEF Untouched, One
  <2>5. Table(batch, g) /\ DOMAIN batch = {"data_source"} /\ batch["data_source"] = Taken(config, taken)
    BY <2>2, <2>4, OneTable, OneColumn
  <2> QED
    BY <1>3, <2>1, <2>3, <2>5 DEF Waiting
<1> QED
  BY <1>2, <1>3

\* Each prompt with its uid, repeated.
RepeatedRows(rows, c, t, a) ==
    /\ Table(rows, BatchSize(c))
    /\ DOMAIN rows = {"uid"} \cup IF c.estimator = "REMAX" THEN {"data_source", "raw_prompt", "reward_baselines"}
                                  ELSE {"data_source"}
    /\ \A i \in 1 .. BatchSize(c) :
         LET prompt == Earlier(c, t) + SourceRow(i, c.samples) IN
         /\ \A col \in DOMAIN rows \cap {"data_source", "raw_prompt"} : rows[col][i] = prompt
         /\ rows["uid"][i] = <<t, SourceRow(i, c.samples)>>
         /\ "reward_baselines" \in DOMAIN rows => Greedy(rows["reward_baselines"][i], prompt, a)

LEMMA RepeatedNow ==
    ASSUME StepInv, Plain, pc = "assemble"
    PROVE  RepeatedRows(Repeated, config, taken, actor)
<1> DEFINE g == config.genPrompts
           s == config.samples
           uids == [i \in 1 .. Rows(batch) |-> <<taken, i>>]
           named == Put(batch, "uid", uids)
           rows == Repeat(named, s)
           b == Earlier(config, taken)
<1>1. Sizes(config)
  BY GenNow DEF Generating
<1>2. g \in Nat \ {0} /\ s \in Nat \ {0}
  BY <1>1 DEF Sizes
<1>3. /\ Table(batch, g)
      /\ DOMAIN batch = IF config.estimator = "REMAX" THEN {"data_source", "raw_prompt", "reward_baselines"}
                        ELSE {"data_source"}
      /\ \A i \in 1 .. g :
           /\ \A col \in DOMAIN batch \cap {"data_source", "raw_prompt"} : batch[col][i] = b + i
           /\ "reward_baselines" \in DOMAIN batch => Greedy(batch["reward_baselines"][i], b + i, actor)
  BY WaitingNow DEF Waiting
<1>4. IsList(uids, g) /\ \A i \in 1 .. g : uids[i] = <<taken, i>>
  <2>1. Rows(batch) = g
    BY <1>2, <1>3, TableRows
  <2> QED
    BY <2>1 DEF IsList
<1> HIDE DEF uids
<1>5. Extended(named, batch, g, "uid", uids)
  BY <1>3, <1>4, PutTable
<1>6. Repeated = rows
  BY DEF Repeated, uids
<1> HIDE DEF named
<1>7. /\ Table(named, g) /\ DOMAIN named = DOMAIN batch \cup {"uid"} /\ named["uid"] = uids
      /\ \A c \in DOMAIN batch : named[c] = batch[c]
  BY <1>3, <1>5 DEF Extended
<1>8. /\ Table(rows, s * g) /\ DOMAIN rows = DOMAIN named
      /\ \A c \in DOMAIN named, i \in 1 .. s * g : rows[c][i] = named[c][SourceRow(i, s)]
  <2> HIDE DEF g, s
  <2> QED
    <3>1. RepeatOf(rows, named, g, s)
      BY <1>2, <1>7, RepeatRows
    <3> QED
      BY <3>1 DEF RepeatOf
<1>9. s * g = BatchSize(config)
  BY <1>2 DEF BatchSize
<1> HIDE DEF rows
<1>10. ASSUME NEW i \in 1 .. BatchSize(config)
       PROVE  /\ \A col \in DOMAIN rows \cap {"data_source", "raw_prompt"} : rows[col][i] = b + SourceRow(i, s)
              /\ rows["uid"][i] = <<taken, SourceRow(i, s)>>
              /\ "reward_baselines" \in DOMAIN rows => Greedy(rows["reward_baselines"][i], b + SourceRow(i, s), actor)
  <2>1. i \in 1 .. s * g
    BY <1>9
  <2>2. PICK u \in 1 .. g : u = SourceRow(i, s)
    BY <1>2, <2>1, SourceInRange
  <2>3. \A c \in DOMAIN named : rows[c][i] = named[c][u]
    BY <1>8, <2>1, <2>2
  <2>4. rows["uid"][i] = <<taken, u>>
    BY <1>4, <1>7, <2>3
  <2>5. \A col \in DOMAIN rows \cap {"data_source", "raw_prompt"} : rows[col][i] = b + u
    BY <1>3, <1>7, <1>8, <2>3
  <2>6. "reward_baselines" \in DOMAIN rows => Greedy(rows["reward_baselines"][i], b + u, actor)
    BY <1>3, <1>7, <1>8, <2>3
  <2> HIDE DEF b, s
  <2> QED
    BY <2>2, <2>4, <2>5, <2>6
<1> QED
  BY <1>3, <1>6, <1>7, <1>8, <1>9, <1>10 DEF RepeatedRows

LEMMA AssembleStep ==
    ASSUME StepInv, Plain, ~Sampled(config), Assemble
    PROVE  StepInv'
<1> DEFINE n == BatchSize(config)
           rows == Repeated
           joined == Union(rows, out)
           prompts == Repeat(Columns(gen, {"raw_prompt"}), config.samples)
           asked == IF Privileged THEN Union(joined, prompts) ELSE joined
           b == Earlier(config, taken)
           s == config.samples
<1>1. pc = "assemble"
  BY DEF Assemble
<1>2. \/ /\ CanUnion(rows, out) /\ (Privileged => Rows(prompts) = Rows(joined))
         /\ batch' = Put(asked, "response_mask", asked["attention_mask"])
         /\ pc' = "balance"
         /\ UNCHANGED <<config, taken, step, gen, out, reward, actor, critic, table, failed>>
      \/ Fail("assemble")
  BY DEF Assemble
<1>3. ASSUME CanUnion(rows, out), Privileged => Rows(prompts) = Rows(joined),
             batch' = Put(asked, "response_mask", asked["attention_mask"]), pc' = "balance",
             UNCHANGED <<config, taken, reward, actor>>
      PROVE  StepInv'
  <2>1. /\ config \in Configs /\ Sizes(config) /\ taken \in Nat
        /\ Table(gen, Rows(gen)) /\ Rows(gen) \in Nat \ {0} /\ config.genPrompts <= Rows(gen)
        /\ \A i \in 1 .. config.genPrompts, c \in DOMAIN gen : gen[c][i] = b + i
        /\ DOMAIN gen = {"input_ids", "raw_prompt"}
    BY <1>1, GenNow DEF Generating, Prompted
  <2>2. n \in Nat \ {0} /\ s \in Nat \ {0} /\ config.genPrompts \in Nat \ {0} /\ n = s * config.genPrompts
    BY <2>1 DEF Sizes, BatchSize
  <2>3. RepeatedRows(rows, config, taken, actor) /\ Answers(out, config, taken, actor)
    BY <1>1, RepeatedNow, WaitingNow
  <2> HIDE DEF rows, n
  <2>4. Table(rows, n) /\ Table(out, n)
    <3>1. Table(rows, n) /\ Rows(out) \in Nat /\ Table(out, Rows(out))
      BY <2>3 DEF RepeatedRows, Answers, n
    <3>2. Rows(rows) = n
      BY <2>2, <3>1, TableRows
    <3> QED
      BY <1>3, <3>1, <3>2 DEF CanUnion
  <2>5. Joint(joined, rows, out, n)
    BY <2>4, UnionTable
  <2> HIDE DEF joined
  <2>6. /\ DOMAIN out = {"input_ids"} \cup (IF config.async THEN {} ELSE {"raw_prompt"}) \cup Answering(config)
        /\ \A i \in 1 .. n : AnswersRow(out, config, taken, actor, i)
    BY <2>3 DEF Answers, n
  <2>7. /\ DOMAIN rows = {"uid"} \cup IF config.estimator = "REMAX" THEN {"data_source", "raw_prompt", "reward_baselines"}
                                      ELSE {"data_source"}
        /\ \A i \in 1 .. n :
             /\ \A col \in DOMAIN rows \cap {"data_source", "raw_prompt"} : rows[col][i] = b + SourceRow(i, s)
             /\ rows["uid"][i] = <<taken, SourceRow(i, s)>>
             /\ "reward_baselines" \in DOMAIN rows => Greedy(rows["reward_baselines"][i], b + SourceRow(i, s), actor)
    BY <2>3 DEF RepeatedRows, n
  <2>8. /\ Table(asked, n)
        /\ DOMAIN asked = DOMAIN joined \cup (IF Privileged THEN {"raw_prompt"} ELSE {})
        /\ \A c \in DOMAIN joined \ {"raw_prompt"} : asked[c] = joined[c]
        /\ "raw_prompt" \in DOMAIN asked => \A i \in 1 .. n : asked["raw_prompt"][i] = b + SourceRow(i, s)
    <3>1. CASE ~Privileged
      <4>1. asked = joined
        BY <3>1
      <4>2. ASSUME "raw_prompt" \in DOMAIN joined, NEW i \in 1 .. n
            PROVE  joined["raw_prompt"][i] = b + SourceRow(i, s)
        <5>1. CASE "raw_prompt" \in DOMAIN out
          <6>1. out["raw_prompt"][i] = b + SourceRow(i, s)
            BY <2>6, <5>1 DEF AnswersRow
          <6> QED
            BY <2>5, <5>1, <6>1 DEF Joint
        <5>2. CASE "raw_prompt" \notin DOMAIN out
          BY <2>5, <2>7, <4>2, <5>2 DEF Joint
        <5> QED
          BY <5>1, <5>2
      <4> QED
        BY <2>5, <3>1, <4>1, <4>2 DEF Joint
    <3>2. CASE Privileged
      <4> DEFINE own == Columns(gen, {"raw_prompt"})
                 w == Rows(gen)
      <4>1. Chosen(own, gen, {"raw_prompt"}, w)
        BY <2>1, ColumnsTable
      <4> HIDE DEF own, w
      <4>2. /\ Table(prompts, s * w) /\ DOMAIN prompts = DOMAIN own
            /\ \A c \in DOMAIN own, i \in 1 .. s * w : prompts[c][i] = own[c][SourceRow(i, s)]
        <5>1. RepeatOf(prompts, own, w, s)
          BY <2>1, <2>2, <4>1, RepeatRows DEF Chosen, own, w
        <5> QED
          BY <5>1 DEF RepeatOf
      <4>3. s * w = n
        <5>1. s * w \in Nat
          BY <2>1, <2>2 DEF w
        <5>2. Rows(prompts) = s * w
          BY <4>2, <5>1, TableRows
        <5>3. Rows(joined) = n
          BY <2>2, <2>5, TableRows DEF Joint
        <5> QED
          BY <1>3, <3>2, <5>2, <5>3
      <4> HIDE DEF prompts
      <4>4. Joint(Union(joined, prompts), joined, prompts, n)
        <5>1. Table(prompts, n) /\ Table(joined, n)
          BY <2>5, <4>2, <4>3 DEF Joint
        <5> QED
          BY <5>1, UnionTable
      <4>5. asked = Union(joined, prompts)
        BY <3>2
      <4>6. DOMAIN prompts = {"raw_prompt"}
        BY <4>1, <4>2 DEF Chosen
      <4>7. ASSUME NEW i \in 1 .. n PROVE prompts["raw_prompt"][i] = b + SourceRow(i, s)
        <5>1. PICK u \in 1 .. config.genPrompts : u = SourceRow(i, s)
          BY <2>2, SourceInRange
        <5>2. prompts["raw_prompt"][i] = own["raw_prompt"][u]
          BY <4>1, <4>2, <4>3, <5>1 DEF Chosen
        <5>3. own["raw_prompt"] = gen["raw_prompt"]
          BY <4>1 DEF Chosen
        <5>4. gen["raw_prompt"][u] = b + u
          BY <2>1
        <5> QED
          BY <5>1, <5>2, <5>3, <5>4
      <4> HIDE DEF asked, b, s
      <4> QED
        BY <3>2, <4>4, <4>5, <4>6, <4>7 DEF Joint
    <3> QED
      BY <3>1, <3>2
  <2> HIDE DEF asked, prompts
  <2>9. {"attention_mask", "responses", "uid", "data_source"} \subseteq DOMAIN asked
    BY <2>5, <2>6, <2>7, <2>8 DEF Joint, Answering
  <2>10. IsList(asked["attention_mask"], n)
    BY <2>8, <2>9 DEF Table
  <2>11. Extended(batch', asked, n, "response_mask", asked["attention_mask"])
    <3>1. Extended(Put(asked, "response_mask", asked["attention_mask"]), asked, n, "response_mask", asked["attention_mask"])
      BY <2>8, <2>10, PutTable
    <3> QED
      BY <1>3, <3>1
  <2>12. Assembled(batch', config, taken, actor)
    <3> DEFINE p == batch'
    <3>1. Extended(p, asked, n, "response_mask", asked["attention_mask"])
      BY <2>11
    <3> HIDE DEF p
    <3>2. DOMAIN joined = DOMAIN rows \cup DOMAIN out
      BY <2>5 DEF Joint
    <3>3. DOMAIN p = DOMAIN rows \cup DOMAIN out \cup (IF Privileged THEN {"raw_prompt"} ELSE {}) \cup {"response_mask"}
      BY <2>8, <3>1, <3>2 DEF Extended
    <3>4. \A c \in DOMAIN out \ {"raw_prompt", "response_mask"} : p[c] = out[c]
      BY <2>5, <2>8, <3>1, <3>2 DEF Extended, Joint
    <3>5. DOMAIN out \cap {"uid", "data_source", "reward_baselines"} = {}
      BY <2>6 DEF Answering, Masks
    <3>6. \A c \in DOMAIN rows \cap {"uid", "data_source", "reward_baselines"} : p[c] = rows[c]
      BY <2>5, <2>8, <3>1, <3>2, <3>5 DEF Extended, Joint
    <3>7. "raw_prompt" \in DOMAIN p => "raw_prompt" \in DOMAIN asked /\ p["raw_prompt"] = asked["raw_prompt"]
      BY <3>1 DEF Extended
    <3>8. Table(p, n)
      BY <3>1 DEF Extended
    <3>9. ASSUME NEW i \in 1 .. n
          PROVE  /\ AnswersRow(p, config, taken, actor, i)
                 /\ p["data_source"][i] = b + SourceRow(i, s)
                 /\ p["uid"][i] = <<taken, SourceRow(i, s)>>
                 /\ "reward_baselines" \in DOMAIN p => Greedy(p["reward_baselines"][i], b + SourceRow(i, s), actor)
      <4>1. AnswersRow(out, config, taken, actor, i)
        BY <2>6
      <4>2. {"input_ids", "responses", "attention_mask"} \subseteq DOMAIN out
        BY <2>6 DEF Answering
      <4>3. /\ p["input_ids"] = out["input_ids"] /\ p["responses"] = out["responses"]
            /\ p["attention_mask"] = out["attention_mask"]
        BY <3>4, <4>2
      <4>4. "loss_mask" \in DOMAIN p => "loss_mask" \in DOMAIN out /\ p["loss_mask"] = out["loss_mask"]
        BY <2>7, <3>3, <3>4
      <4>5. AnswersRow(p, config, taken, actor, i)
        <5>1. "raw_prompt" \in DOMAIN p => p["raw_prompt"][i] = b + SourceRow(i, s)
          BY <2>8, <3>7
        <5> QED
          BY <4>1, <4>2, <4>3, <4>4, <5>1 DEF AnswersRow
      <4>6. {"uid", "data_source"} \subseteq DOMAIN rows
        BY <2>7
      <4>7. "reward_baselines" \in DOMAIN p => "reward_baselines" \in DOMAIN rows
        BY <2>6, <3>3 DEF Answering, Masks
      <4> HIDE DEF b, s
      <4> QED
        BY <2>7, <3>6, <4>5, <4>6, <4>7
    <3>10. DOMAIN p \subseteq {"data_source", "uid", "raw_prompt", "reward_baselines", "input_ids",
                               "responses", "attention_mask", "loss_mask", "response_mask"}
      BY <2>6, <2>7, <3>3 DEF Answering, Masks
    <3>11. {"responses", "data_source", "uid", "attention_mask"} \cup (Masks(config) \ {"response_mask"}) \subseteq DOMAIN p
      BY <2>6, <2>7, <3>3 DEF Answering
    <3>12. "reward_baselines" \in DOMAIN p <=> config.estimator = "REMAX"
      BY <2>6, <2>7, <3>3 DEF Answering, Masks
    <3>13. config.teacher \/ config.gopdRef => "raw_prompt" \in DOMAIN p
      BY <3>3 DEF Privileged
    <3>14. Assembled(p, config, taken, actor)
      BY <3>8, <3>9, <3>10, <3>11, <3>12, <3>13 DEF Assembled, n
    <3> QED
      BY <3>14 DEF p
  <2>13. RowsInv(batch', "balance", config, actor)
    <3>1. Size(config, "balance") = BatchSize(config)
      BY <2>1, OneSize
    <3> QED
      BY <2>1, <2>12, <3>1, AssembledRows DEF BeforeScores
  <2>14. /\ config' = config /\ taken' = taken /\ actor' = actor /\ pc' \in RowPhases
         /\ pc' \in BeforeScores \cup {"score"}
    BY <1>3 DEF RowPhases, BeforeValues, BeforeGopd, BeforeTeacher, BeforeReference, BeforeOld, BeforeScores
  <2> QED
    BY <1>3, <2>13, <2>14, RowsStep
<1> QED
  BY <1>2, <1>3, FailStep

-----------------------------------------------------------------------------
(* The steps from the balanced batch to its advantages.                      *)

\* Partitions of one size, one after the other, are an order of the items.
InTurn(order, parts, k, q) ==
    \A r \in 1 .. k : /\ Len(parts[r]) = q
                       /\ \A j \in 1 .. q : order[(r - 1) * q + j] = parts[r][j]
LEMMA FlatOrder ==
    ASSUME NEW n \in Nat \ {0}, NEW k \in Nat \ {0}, NEW L, Len(L) = n, DOMAIN L = 1 .. n,
           NEW parts, PartitionsOf(parts, L, k), \A i, j \in 1 .. k : Len(parts[i]) = Len(parts[j])
    PROVE  /\ Order(FlattenSeq(parts), n)
           /\ \E q \in Nat \ {0} : n = k * q /\ InTurn(FlattenSeq(parts), parts, k, q)
<1> DEFINE order == FlattenSeq(parts)
<1>1. /\ parts \in Seq(Seq(1 .. n)) /\ Len(parts) = k /\ DOMAIN parts = 1 .. k
      /\ Once(parts)
      /\ \A v \in 1 .. n : \E i \in DOMAIN parts : \E x \in DOMAIN parts[i] : parts[i][x] = v
  BY DEF PartitionsOf, Partition
<1>2. PICK q \in Nat \ {0} : \A r \in 1 .. k : Len(parts[r]) = q /\ DOMAIN parts[r] = 1 .. q
  <2>1. PICK i \in 1 .. k : \E x \in DOMAIN parts[i] : parts[i][x] = 1
    <3>1. 1 \in 1 .. n
      OBVIOUS
    <3> QED
      BY <1>1, <3>1
  <2>2. \A r \in 1 .. k : parts[r] \in Seq(1 .. n)
    BY <1>1
  <2>3. Len(parts[i]) \in Nat /\ DOMAIN parts[i] = 1 .. Len(parts[i])
    BY <2>2
  <2>4. Len(parts[i]) # 0
    BY <2>1, <2>3
  <2>5. \A r \in 1 .. k : Len(parts[r]) = Len(parts[i]) /\ DOMAIN parts[r] = 1 .. Len(parts[r])
    BY <2>2
  <2> QED
    BY <2>3, <2>4, <2>5
<1>3. EqualPieces(parts, k, q, 1 .. n)
  BY <1>1, <1>2 DEF EqualPieces
<1>4. PICK m \in Nat : m = k * q
  OBVIOUS
<1>5. /\ order \in Seq(1 .. n) /\ Len(order) = m
      /\ \A r \in 1 .. k, j \in 1 .. q : order[(r - 1) * q + j] = parts[r][j]
  <2>1. FlatOf(order, parts, k, q, 1 .. n)
    BY <1>3, FlattenPieces
  <2> HIDE DEF order
  <2> QED
    BY <1>4, <2>1 DEF FlatOf
<1> HIDE DEF order
<1>6. order \in [1 .. m -> 1 .. n]
  <2>1. order \in [1 .. Len(order) -> 1 .. n]
    BY <1>5, LenProperties
  <2> QED
    BY <1>5, <2>1
<1>7. ASSUME NEW x \in 1 .. m
       PROVE  \E r \in 1 .. k, j \in 1 .. q : x = (r - 1) * q + j /\ order[x] = parts[r][j]
  <2>1. x \in 1 .. k * q
    BY <1>4
  <2>2. PICK r \in 1 .. k, j \in 1 .. q : x = (r - 1) * q + j
    <3>1. q \in Nat \ {0}
      BY <1>2
    <3> QED
      BY <2>1, <3>1, RowNumber, Zenon
  <2>3. order[(r - 1) * q + j] = parts[r][j]
    BY <1>5
  <2> QED
    BY <2>2, <2>3
<1>8. ASSUME NEW x \in 1 .. m, NEW y \in 1 .. m, order[x] = order[y]
       PROVE  x = y
  <2>1. PICK r \in 1 .. k, j \in 1 .. q : x = (r - 1) * q + j /\ order[x] = parts[r][j]
    BY <1>7
  <2>2. PICK s \in 1 .. k, l \in 1 .. q : y = (s - 1) * q + l /\ order[y] = parts[s][l]
    BY <1>7
  <2>3. r = s /\ j = l
    <3>1. j \in DOMAIN parts[r] /\ l \in DOMAIN parts[s] /\ r \in DOMAIN parts /\ s \in DOMAIN parts
      BY <1>1, <1>2
    <3>2. parts[r][j] = parts[s][l]
      BY <1>8, <2>1, <2>2
    <3>3. Once(parts)
      BY <1>1
    <3> QED
      BY <3>1, <3>2, <3>3 DEF Once
  <2> QED
    BY <2>1, <2>2, <2>3
<1>9. ASSUME NEW v \in 1 .. n
       PROVE  \E x \in 1 .. m : order[x] = v
  <2>1. PICK r \in 1 .. k : \E j \in DOMAIN parts[r] : parts[r][j] = v
    BY <1>1
  <2>2. PICK j \in 1 .. q : parts[r][j] = v
    BY <1>2, <2>1
  <2>3. (r - 1) * q + j \in 1 .. k * q
    BY <1>2, RowInRange
  <2>4. order[(r - 1) * q + j] = v
    BY <1>5, <2>2
  <2> QED
    BY <1>4, <2>3, <2>4
<1>10. m = n
  <2>1. order \in Bijection(1 .. m, 1 .. n)
    BY <1>6, <1>8, <1>9 DEF Bijection, Injection, Surjection, IsInjective
  <2>2. ExistsBijection(1 .. m, 1 .. n)
    BY <2>1 DEF ExistsBijection
  <2>3. IsFiniteSet(1 .. m) /\ Cardinality(1 .. m) = m /\ Cardinality(1 .. n) = n
    <3>1. 1 \in Int /\ m \in Int /\ n \in Int /\ m >= 0 /\ n > 0
      BY <1>4
    <3>2. /\ IsFiniteSet(1 .. m) /\ Cardinality(1 .. m) = IF 1 > m THEN 0 ELSE m - 1 + 1
          /\ Cardinality(1 .. n) = IF 1 > n THEN 0 ELSE n - 1 + 1
      BY <3>1, FS_Interval
    <3> QED
      BY <3>1, <3>2
  <2> QED
    BY <2>2, <2>3, FS_Bijection
<1>11. Selects(order, n, n)
  BY <1>6, <1>10 DEF Selects
<1>12. Order(order, n)
  BY <1>8, <1>9, <1>10, <1>11 DEF Order
<1>13. n = k * q /\ InTurn(order, parts, k, q)
  BY <1>2, <1>4, <1>5, <1>10 DEF InTurn
<1> QED
  BY <1>12, <1>13 DEF order

\* _balance_batch gives the rows another order.
Divided(n, k) == n % k = 0
LEMMA EvenOrder ==
    ASSUME NEW L \in Seq(Nat), L # <<>>, NEW k \in Nat \ {0}, Divided(Len(L), k)
    PROVE  Order(FlattenSeq(BalancedPartitions(L, k, TRUE)), Len(L))
<1>1. PICK spread \in Nat : \A i, j \in DOMAIN L : L[i] <= L[j] + spread
  <2>1. PICK longest \in Nat : \A i \in DOMAIN L : L[i] <= longest
    BY Longest
  <2>2. \A i \in DOMAIN L : L[i] \in Nat
    OBVIOUS
  <2>3. \A i, j \in DOMAIN L : L[i] <= L[j] + longest
    BY <2>1, <2>2
  <2> QED
    BY <2>3
<1>2. PICK parts : parts = BalancedPartitions(L, k, TRUE)
  OBVIOUS
<1>3. Len(L) % k = 0
  BY DEF Divided
<1>4. BalancedInto(parts, L, k, spread, TRUE)
  BY <1>1, <1>2, <1>3, EqualPartitions
<1>5. PartitionsOf(parts, L, k) /\ \A i, j \in 1 .. k : Len(parts[i]) = Len(parts[j])
  BY <1>4 DEF BalancedInto
<1>6. Len(L) \in Nat \ {0} /\ DOMAIN L = 1 .. Len(L)
  OBVIOUS
<1>7. Order(FlattenSeq(parts), Len(L))
  BY <1>5, <1>6, FlatOrder
<1> QED
  BY <1>2, <1>7

BalanceOrder ==
    FlattenSeq(BalanceBatch([i \in 1 .. Rows(batch) |-> batch["responses"][i].length]))
LEMMA BalanceMoves ==
    ASSUME StepInv, Plain, pc = "balance", Rows(batch) % config.workers = 0, batch' = Take(batch, BalanceOrder)
    PROVE  /\ Order(BalanceOrder, Size(config, "balance"))
           /\ RowsAt(batch', batch, BalanceOrder, Size(config, "balance"))
<1> DEFINE n == Size(config, "balance")
           lengths == [i \in 1 .. Rows(batch) |-> batch["responses"][i].length]
<1>1. /\ config \in Configs /\ Sizes(config) /\ n \in Nat \ {0}
      /\ Told(batch, n, config, actor) /\ Table(batch, n)
  BY RowsNow DEF RowPhases, BeforeValues, BeforeGopd, BeforeTeacher, BeforeReference, BeforeOld, BeforeScores
<1>2. Rows(batch) = n
  BY <1>1, TableRows
<1> HIDE DEF n
<1>3. lengths \in Seq(Nat) /\ Len(lengths) = n /\ lengths # <<>>
  <2>1. ASSUME NEW i \in 1 .. n PROVE batch["responses"][i].length \in Nat
    <3>1. CellTold("responses", batch["responses"][i], batch["responses"][i], config, actor)
      BY <1>1 DEF Told
    <3> QED
      BY <3>1, BoundsAssumption DEF CellTold, Fresh
  <2>2. lengths \in [1 .. n -> Nat]
    BY <1>2, <2>1
  <2>3. DOMAIN lengths = 1 .. n /\ lengths \in Seq(Nat)
    <3> HIDE DEF lengths
    <3> QED
      BY <1>1, <2>2
  <2> HIDE DEF lengths
  <2>4. Len(lengths) = n
    BY <1>1, <2>3
  <2> QED
    BY <1>1, <2>3, <2>4
<1> DEFINE k == config.workers
<1>4. k \in Nat \ {0} /\ Divided(Len(lengths), k)
  BY <1>1, <1>2, <1>3 DEF Sizes, Divided
<1>5. BalanceOrder = FlattenSeq(BalancedPartitions(lengths, k, TRUE))
  BY DEF BalanceOrder, BalanceBatch
<1> HIDE DEF lengths, k
<1>6. Order(BalanceOrder, n)
  <2>1. Order(FlattenSeq(BalancedPartitions(lengths, k, TRUE)), Len(lengths))
    BY <1>3, <1>4, EvenOrder
  <2> QED
    BY <1>3, <1>5, <2>1
<1>7. RowsAt(batch', batch, BalanceOrder, n)
  BY <1>1, <1>6, TakeTable DEF Order
<1> QED
  BY <1>6, <1>7 DEF n

LEMMA BalanceStep ==
    ASSUME StepInv, Plain, NEW there,
           there = IF Sampled(config) THEN "old_log_prob" ELSE "reward", BalanceOrSkip(there)
    PROVE  StepInv'
<1> DEFINE n == Size(config, "balance")
           order == BalanceOrder
<1>1. \/ /\ pc = "balance" /\ Rows(batch) % config.workers = 0
         /\ batch' = Take(batch, order) /\ pc' = there
         /\ UNCHANGED <<config, taken, step, gen, out, reward, actor, critic, table, failed>>
      \/ Fail("balance")
      \/ Skip("balance", there)
  BY DEF BalanceOrSkip, BalanceThen, BalanceOrder
<1>2. /\ "balance" \in RowPhases /\ there \in RowPhases
      /\ (there \in BeforeScores \cup {"score"} \/ Sampled(config))
  BY DEF RowPhases, BeforeValues, BeforeGopd, BeforeTeacher, BeforeReference, BeforeOld, BeforeScores
<1>3. ASSUME NEW columns, Present(columns, "balance", config)
      PROVE  Present(columns, there, config)
  BY <1>3 DEF Present, ScoresCome, RowPhases, BeforeValues, BeforeGopd, BeforeTeacher, BeforeReference, BeforeOld, BeforeScores
<1>4. Size(config, there) = Size(config, "balance")
  <2>1. config \in Configs
    BY DEF StepInv
  <2>2. CASE Sampled(config)
    BY <2>2 DEF Size, NewPhases
  <2>3. CASE ~Sampled(config)
    BY <2>1, <2>3, OneSize
  <2> QED
    BY <2>2, <2>3
<1>5. ASSUME Skip("balance", there) PROVE StepInv'
  <2>1. Present(DOMAIN batch, "balance", config) => Present(DOMAIN batch, there, config)
    BY <1>3
  <2>2. Size(config, there) = Size(config, "balance")
    BY <1>4
  <2> QED
    BY <1>2, <1>5, <2>1, <2>2, SkipStep
<1>6. ASSUME pc = "balance", Rows(batch) % config.workers = 0,
             batch' = Take(batch, order), pc' = there,
             UNCHANGED <<config, taken, actor>>
      PROVE  StepInv'
  <2>1. /\ config \in Configs /\ Sizes(config) /\ n \in Nat \ {0}
        /\ Told(batch, n, config, actor) /\ Table(batch, n)
        /\ RowsInv(batch, "balance", config, actor)
        /\ {"responses", "data_source", "uid", "attention_mask"} \subseteq DOMAIN batch
    BY <1>2, <1>6, RowsNow
  <2> HIDE DEF n, order
  <2>3. Order(order, n) /\ RowsAt(batch', batch, order, n)
    BY <1>6, BalanceMoves DEF n, order
  <2>4. Selects(order, n, n)
    BY <2>3 DEF Order
  <2>5. Told(batch', n, config, actor)
    BY <1>6, <2>1, <2>4, TakeTold
  <2>6. Whole(batch["responses"], batch["uid"], n, config.samples)
    BY <2>1 DEF RowsInv, n
  <2>7. \A i \in 1 .. n : /\ batch'["responses"][i] = batch["responses"][order[i]]
                          /\ batch'["uid"][i] = batch["uid"][order[i]]
    BY <2>1, <2>3 DEF RowsAt
  <2>8. Whole(batch'["responses"], batch'["uid"], n, config.samples)
    BY <2>3, <2>6, <2>7, ReorderedWhole
  <2>9. Present(DOMAIN batch', there, config)
    BY <1>3, <2>1, <2>3 DEF RowsInv, RowsAt
  <2>10. RowsInv(batch', there, config, actor)
    BY <1>4, <2>5, <2>8, <2>9 DEF RowsInv, n
  <2>11. config' = config /\ taken' = taken /\ actor' = actor /\ pc' \in RowPhases
         /\ (pc' \in BeforeScores \cup {"score"} \/ Sampled(config))
    BY <1>2, <1>6
  <2> QED
    BY <1>6, <2>10, <2>11, RowsStep
<1> QED
  BY <1>1, <1>5, <1>6, FailStep

-----------------------------------------------------------------------------
(* The phases between, and those that only some configurations have.         *)

LEMMA ScoreStep ==
    ASSUME StepInv, Plain, ~Sampled(config), Score
    PROVE  StepInv'
<1> DEFINE n == BatchSize(config)
           cell(i) == [of |-> batch["responses"][i]]
<1>1. /\ pc = "score" /\ pc' = "old_log_prob" /\ UNCHANGED <<config, taken, batch, actor>>
      /\ reward' = [i \in 1 .. Rows(batch) |-> cell(i)]
  BY DEF Score
<1>2. "score" \in RowPhases /\ "old_log_prob" \in RowPhases
  BY DEF RowPhases, BeforeValues, BeforeGopd, BeforeTeacher, BeforeReference, BeforeOld, BeforeScores
<1>3. n \in Nat \ {0} /\ Table(batch, n) /\ RowsInv(batch, "score", config, actor)
      /\ Size(config, "score") = n /\ Size(config, "old_log_prob") = n
  BY <1>1, <1>2, RowsNow, OneSize
<1>4. Rows(batch) = n
  BY <1>3, TableRows
<1>5. ASSUME NEW columns, Present(columns, "score", config)
      PROVE  Present(columns, "old_log_prob", config)
  BY <1>5 DEF Present, ScoresCome, RowPhases, BeforeValues, BeforeGopd, BeforeTeacher, BeforeReference, BeforeOld, BeforeScores
<1>6. RowsInv(batch', "old_log_prob", config, actor)
  BY <1>1, <1>3, <1>5 DEF RowsInv
<1>7. \A i : cell(i).of = batch["responses"][i]
  OBVIOUS
<1> HIDE DEF cell, n
<1>8. IsList(reward', n) /\ \A i \in 1 .. n : reward'[i] = cell(i)
  BY <1>1, <1>4 DEF IsList
<1>9. Rewarded(reward', batch'["responses"], BatchSize(config))
  BY <1>1, <1>7, <1>8 DEF Rewarded, n
<1> QED
  BY <1>1, <1>2, <1>6, <1>9, RowsStep

LEMMA PassOver ==
    ASSUME StepInv, Plain,
           NEW here, NEW there,
           \/ here = "reward" /\ there = "score" /\ ~config.rewardModel
           \/ here = "ref" /\ there = "teacher" /\ ~config.reference
           \/ here = "ref" /\ there = "adv" /\ ~config.reference /\ config.trainer = "sppo"
           \/ here = "teacher" /\ there = "gopd_ref" /\ ~config.teacher
           \/ here = "gopd_ref" /\ there = "values" /\ config.estimator # "GOPD"
           \/ here = "values" /\ there = "adv" /\ config.estimator # "GAE",
           Skip(here, there)
    PROVE  StepInv'
<1>1. config \in Configs
  BY DEF StepInv
<1>2. config.trainer = "sppo" => ~config.teacher /\ config.estimator = "null"
  BY <1>1, SppoAssumption, ConfigsAssumption
<1>3. here \in RowPhases /\ there \in RowPhases
  BY DEF RowPhases, BeforeValues, BeforeGopd, BeforeTeacher, BeforeReference, BeforeOld, BeforeScores
<1>4. /\ there \notin BeforeScores \cup {"score"} => here \notin BeforeScores \cup {"score"}
      /\ Size(config, there) = Size(config, here)
  BY DEF BeforeScores, Size, NewPhases
<1>5. Present(DOMAIN batch, here, config) => Present(DOMAIN batch, there, config)
  BY <1>2 DEF Present, ScoresCome, RowPhases, BeforeValues, BeforeGopd, BeforeTeacher, BeforeReference, BeforeOld, BeforeScores
<1> QED
  BY <1>3, <1>4, <1>5, SkipStep

LEMMA RewardModelStep ==
    ASSUME StepInv, Plain, RewardModel
    PROVE  StepInv'
<1>1. CASE config.rewardModel
  BY <1>1, RewardModelJoins
<1>2. CASE ~config.rewardModel
  <2>1. Skip("reward", "score")
    BY <1>2 DEF RewardModel
  <2> QED
    BY <1>2, <2>1, PassOver
<1> QED
  BY <1>1, <1>2

LEMMA ReferenceStep ==
    ASSUME StepInv, Plain, NEW there \in {"teacher", "adv"}, there = "adv" => config.trainer = "sppo",
           ReferenceThen(there)
    PROVE  StepInv'
<1>1. CASE config.reference
  BY <1>1, ReferenceJoins
<1>2. CASE ~config.reference
  <2>1. Skip("ref", there)
    BY <1>2 DEF ReferenceThen
  <2> QED
    BY <1>2, <2>1, PassOver
<1> QED
  BY <1>1, <1>2

LEMMA TeacherStep ==
    ASSUME StepInv, Plain, Teacher
    PROVE  StepInv'
<1>1. CASE config.teacher
  BY <1>1, TeacherJoins
<1>2. CASE ~config.teacher
  <2>1. Skip("teacher", "gopd_ref")
    BY <1>2 DEF Teacher
  <2> QED
    BY <1>2, <2>1, PassOver
<1> QED
  BY <1>1, <1>2

LEMMA GopdReferenceStep ==
    ASSUME StepInv, Plain, GopdReference
    PROVE  StepInv'
<1>1. CASE config.gopdRef
  BY <1>1, GopdPrivileged
<1>2. CASE config.estimator = "GOPD" /\ ~config.gopdRef
  BY <1>2, GopdJoins
<1>3. CASE config.estimator # "GOPD" /\ ~config.gopdRef
  <2>1. Skip("gopd_ref", "values")
    BY <1>3 DEF GopdReference
  <2> QED
    BY <1>3, <2>1, PassOver
<1> QED
  BY <1>1, <1>2, <1>3

LEMMA ValuesStep ==
    ASSUME StepInv, Plain, Values
    PROVE  StepInv'
<1>1. CASE UseCritic
  BY <1>1, ValuesJoin
<1>2. CASE ~UseCritic
  <2>1. Skip("values", "adv")
    BY <1>2 DEF Values
  <2>2. config.estimator # "GAE"
    BY <1>2 DEF UseCritic
  <2> QED
    BY <2>1, <2>2, PassOver
<1> QED
  BY <1>1, <1>2
-----------------------------------------------------------------------------
(* Advantages.                                                               *)

\* The batch with its scores.
Ready(data, c, a) ==
    /\ Told(data, StepSize(c), c, a)
    /\ Whole(data["responses"], data["uid"], StepSize(c), c.samples)
    /\ Scored(DOMAIN data, c)

LEMMA ScoresPut ==
    ASSUME NEW c, NEW a, NEW data, NEW scores, Told(data, StepSize(c), c, a),
           Whole(data["responses"], data["uid"], StepSize(c), c.samples),
           Scored(DOMAIN data \cup {"token_level_scores"}, c),
           Rewarded(scores, data["responses"], StepSize(c))
    PROVE  Ready(Put(data, "token_level_scores", scores), c, a)
<1> DEFINE n == StepSize(c)
           p == Put(data, "token_level_scores", scores)
<1>1. IsList(scores, n) /\ \A i \in 1 .. n : scores[i].of = data["responses"][i]
  BY DEF Rewarded
<1>2. \A i \in 1 .. n : CellTold("token_level_scores", scores[i], data["responses"][i], c, a)
  BY <1>1 DEF CellTold, AboutResponse
<1>3. Told(p, n, c, a)
  BY <1>1, <1>2, PutTold
<1>4. Extended(p, data, n, "token_level_scores", scores)
  BY <1>1, PutTable DEF Told
<1> HIDE DEF p
<1>5. {"responses", "uid"} \subseteq DOMAIN data
  BY DEF Told
<1>6. /\ DOMAIN p = DOMAIN data \cup {"token_level_scores"}
      /\ p["responses"] = data["responses"] /\ p["uid"] = data["uid"]
  BY <1>4, <1>5 DEF Extended
<1>7. Ready(p, c, a)
  BY <1>3, <1>6 DEF Ready
<1> QED
  BY <1>7 DEF p

LEMMA ReadyForAdvantage ==
    ASSUME StepInv, Plain, ~Sampled(config), pc = "adv", NEW asked \in {{}, {"raw_prompt"}}
    PROVE  /\ Ready(Put(Without(batch, asked), "token_level_scores", reward), config, actor)
           /\ Ready(Put(batch, "token_level_scores", reward), config, actor)
           /\ config \in Configs /\ Sizes(config) /\ StepSize(config) \in Nat \ {0}
<1> DEFINE n == StepSize(config)
           data == Without(batch, asked)
<1>1. "adv" \in RowPhases /\ "adv" \notin BeforeScores \cup {"score"}
  BY DEF RowPhases, BeforeValues, BeforeGopd, BeforeTeacher, BeforeReference, BeforeOld, BeforeScores
<1>2. /\ config \in Configs /\ Sizes(config) /\ n \in Nat \ {0}
      /\ Told(batch, n, config, actor)
      /\ RowsInv(batch, "adv", config, actor)
      /\ Size(config, "adv") = n /\ Rewarded(reward, batch["responses"], n)
  BY <1>1, RowsNow, OneSize
<1>3. ASSUME NEW columns, Present(columns, "adv", config)
      PROVE  /\ Scored(columns \cup {"token_level_scores"}, config)
             /\ Scored((columns \ asked) \cup {"token_level_scores"}, config)
  BY <1>3 DEF Scored, Present, ScoresCome, Later, BeforeValues, BeforeGopd, BeforeTeacher, BeforeReference, BeforeOld, BeforeScores
<1>4. /\ Whole(batch["responses"], batch["uid"], n, config.samples)
      /\ Scored(DOMAIN batch \cup {"token_level_scores"}, config)
      /\ Scored((DOMAIN batch \ asked) \cup {"token_level_scores"}, config)
  BY <1>2, <1>3 DEF RowsInv
<1>5. Ready(Put(batch, "token_level_scores", reward), config, actor)
  BY <1>2, <1>4, ScoresPut
<1>6. asked \cap {"responses", "data_source", "uid", "attention_mask", "loss_mask"} = {}
  OBVIOUS
<1>7. Told(data, n, config, actor)
  BY <1>2, <1>6, WithoutTold
<1>8. {"responses", "uid"} \subseteq DOMAIN batch \ asked
  BY <1>2 DEF Told
<1>9. Chosen(data, batch, DOMAIN batch \ asked, n)
  <2>1. ~(DOMAIN batch \subseteq asked)
    BY <1>8
  <2> QED
    BY <1>2, <2>1, WithoutTable DEF Told
<1>10. /\ DOMAIN data = DOMAIN batch \ asked
       /\ data["responses"] = batch["responses"] /\ data["uid"] = batch["uid"]
  BY <1>8, <1>9 DEF Chosen
<1> HIDE DEF data
<1>11. Ready(Put(data, "token_level_scores", reward), config, actor)
  BY <1>2, <1>4, <1>7, <1>10, ScoresPut
<1> QED
  BY <1>2, <1>5, <1>11 DEF data

LEMMA ReadyAlready ==
    ASSUME StepInv, Plain, Sampled(config), pc = "adv"
    PROVE  Ready(batch, config, actor) /\ config \in Configs /\ Sizes(config) /\ StepSize(config) \in Nat \ {0}
<1>1. "adv" \in RowPhases /\ Size(config, "adv") = StepSize(config)
  BY DEF Size, NewPhases, RowPhases
<1>2. config \in Configs /\ Sizes(config) /\ StepSize(config) \in Nat \ {0} /\ RowsInv(batch, "adv", config, actor)
  BY <1>1, RowsNow
<1>3. Present(DOMAIN batch, "adv", config)
  BY <1>2 DEF RowsInv
<1>4. Scored(DOMAIN batch, config)
  BY <1>3 DEF Scored, Present, Later, BeforeValues, BeforeGopd, BeforeTeacher, BeforeReference, BeforeOld, BeforeScores
<1> QED
  BY <1>1, <1>2, <1>4 DEF RowsInv, Ready

\* The rows with a row's uid are those of its prompt.
LEMMA GroupIsSiblings ==
    ASSUME NEW n \in Nat, NEW data, Table(data, n), NEW s, Whole(data["responses"], data["uid"], n, s),
           NEW i \in 1 .. n
    PROVE  Group(data, i) = Siblings(data["responses"], n, i)
<1>1. Rows(data) = n
  BY TableRows
<1>2. \A j \in 1 .. n : data["uid"][j] = data["uid"][i] <=> data["responses"][j].prompt = data["responses"][i].prompt
  BY DEF Whole, Alone
<1> QED
  BY <1>1, <1>2 DEF Group, Siblings

\* There are as many responses to a prompt as samples,
LEMMA SamplesEach ==
    ASSUME NEW n \in Nat, NEW s \in Nat, NEW responses, NEW uid, Whole(responses, uid, n, s),
           \A j \in 1 .. n : responses[j].sample \in 1 .. s, NEW i \in 1 .. n
    PROVE  Cardinality(ResponsesTo(responses, n, i)) = s
<1> DEFINE own == ResponsesTo(responses, n, i)
           pick(x) == CHOOSE j \in Siblings(responses, n, i) : responses[j].sample = x
           f == [x \in 1 .. s |-> responses[pick(x)]]
<1>1. \A x \in 1 .. s : pick(x) \in Siblings(responses, n, i) /\ responses[pick(x)].sample = x
  <2>1. \A x \in 1 .. s : \E j \in Siblings(responses, n, i) : responses[j].sample = x
    <3> SUFFICES ASSUME NEW x \in 1 .. s PROVE \E j \in Siblings(responses, n, i) : responses[j].sample = x
      OBVIOUS
    <3>1. HasSample(responses, n, i, x)
      BY DEF Whole
    <3>2. PICK j \in 1 .. n : responses[j].prompt = responses[i].prompt /\ responses[j].sample = x
      BY <3>1 DEF HasSample
    <3>3. j \in Siblings(responses, n, i)
      BY <3>2 DEF Siblings
    <3> QED
      BY <3>2, <3>3
  <2> QED
    BY <2>1
<1>2. \A j \in Siblings(responses, n, i) : j \in 1 .. n /\ responses[j].prompt = responses[i].prompt
  BY DEF Siblings
<1> HIDE DEF pick
<1>3. f \in [1 .. s -> own]
  BY <1>1 DEF ResponsesTo
<1>4. \A x, y \in 1 .. s : f[x] = f[y] => x = y
  BY <1>1
<1>5. \A r \in own : \E x \in 1 .. s : f[x] = r
  <2> SUFFICES ASSUME NEW j \in Siblings(responses, n, i) PROVE \E x \in 1 .. s : f[x] = responses[j]
    BY DEF ResponsesTo
  <2>1. responses[j].sample \in 1 .. s
    BY <1>2
  <2>2. PICK x \in 1 .. s : x = responses[j].sample
    BY <2>1
  <2>3. responses[pick(x)].sample = responses[j].sample /\ responses[pick(x)].prompt = responses[j].prompt
    BY <1>1, <1>2, <2>2
  <2>4. pick(x) \in 1 .. n /\ j \in 1 .. n
    BY <1>1, <1>2
  <2>5. pick(x) = j
    BY <2>3, <2>4 DEF Whole, Alone
  <2> QED
    BY <2>5
<1>6. f \in Bijection(1 .. s, own)
  <2> HIDE DEF f, own
  <2> QED
    BY <1>3, <1>4, <1>5 DEF Bijection, Injection, Surjection, IsInjective
<1>7. ExistsBijection(1 .. s, own)
  BY <1>6 DEF ExistsBijection
<1> HIDE DEF own
<1>8. Cardinality(own) = s
  BY <1>7, FS_CountingElements
<1> QED
  BY <1>8 DEF own
-----------------------------------------------------------------------------
(* What an advantage is made of.                                             *)

LEMMA SubjectsOf ==
    ASSUME NEW A, NEW B
    PROVE  Subjects(A \cup B) = Subjects(A) \cup Subjects(B)
  BY DEF Subjects
LEMMA SubjectOf ==
    ASSUME NEW e
    PROVE  Subjects({e}) = {e.of}
  BY DEF Subjects

LEMMA CellOf ==
    ASSUME NEW n, NEW c, NEW a, NEW data, Told(data, n, c, a), NEW col \in AboutResponse, col \in DOMAIN data,
           NEW i \in 1 .. n
    PROVE  data[col][i].of = data["responses"][i]
  BY DEF Told, CellTold

LEMMA RewardSubjects ==
    ASSUME config \in Configs, NEW data, Ready(data, config, actor), NEW i \in 1 .. StepSize(config)
    PROVE  Subjects(Rewards(data, i)) = {data["responses"][i]}
<1>1. config.kl => config.reference
  BY ConfigsAssumption
<1>2. Told(data, StepSize(config), config, actor) /\ Scored(DOMAIN data, config)
  BY DEF Ready
<1>3. "token_level_scores" \in DOMAIN data /\ (config.kl => "ref_log_prob" \in DOMAIN data)
  BY <1>1, <1>2 DEF Scored
<1>4. "token_level_scores" \in AboutResponse /\ "ref_log_prob" \in AboutResponse
  BY DEF AboutResponse
<1>5. data["token_level_scores"][i].of = data["responses"][i]
  BY <1>2, <1>3, <1>4, CellOf
<1>6. CASE config.kl
  <2>1. data["ref_log_prob"][i].of = data["responses"][i]
    BY <1>2, <1>3, <1>4, <1>6, CellOf
  <2>2. Rewards(data, i) = {data["token_level_scores"][i]} \cup {data["ref_log_prob"][i]}
    BY <1>6 DEF Rewards
  <2>3. /\ Subjects({data["token_level_scores"][i]}) = {data["token_level_scores"][i].of}
        /\ Subjects({data["ref_log_prob"][i]}) = {data["ref_log_prob"][i].of}
    BY SubjectOf
  <2> QED
    BY <1>5, <2>1, <2>2, <2>3, SubjectsOf
<1>7. CASE ~config.kl
  <2>1. Rewards(data, i) = {data["token_level_scores"][i]}
    BY <1>7 DEF Rewards
  <2> QED
    BY <1>5, <2>1, SubjectOf
<1> QED
  BY <1>6, <1>7

\* Of a group, all its responses.
LEMMA GroupSubjects ==
    ASSUME config \in Configs, StepSize(config) \in Nat, NEW data, Ready(data, config, actor),
           NEW i \in 1 .. StepSize(config)
    PROVE  /\ Group(data, i) = Siblings(data["responses"], StepSize(config), i)
           /\ Subjects(GroupRewards(data, i)) = ResponsesTo(data["responses"], StepSize(config), i)
           /\ Subjects({[of |-> data["responses"][j]] : j \in Group(data, i)}) =
                ResponsesTo(data["responses"], StepSize(config), i)
<1> DEFINE n == StepSize(config)
           G == Group(data, i)
<1>1. G = Siblings(data["responses"], n, i)
  BY GroupIsSiblings DEF Ready, Told
<1>2. G \subseteq 1 .. n /\ ResponsesTo(data["responses"], n, i) = {data["responses"][j] : j \in G}
  BY <1>1 DEF Siblings, ResponsesTo
<1>3. \A j \in G : Subjects(Rewards(data, j)) = {data["responses"][j]}
  BY <1>2, RewardSubjects
<1>4. Subjects(GroupRewards(data, i)) = UNION {Subjects(Rewards(data, j)) : j \in G}
  BY DEF Subjects, GroupRewards
<1>5. Subjects({[of |-> data["responses"][j]] : j \in G}) = {data["responses"][j] : j \in G}
  <2> DEFINE entry(j) == [of |-> data["responses"][j]]
  <2>1. \A j : entry(j).of = data["responses"][j]
    OBVIOUS
  <2>2. {entry(j) : j \in G} = {[of |-> data["responses"][j]] : j \in G}
    OBVIOUS
  <2> HIDE DEF entry, G
  <2>3. Subjects({entry(j) : j \in G}) = {data["responses"][j] : j \in G}
    BY <2>1 DEF Subjects
  <2> QED
    BY <2>2, <2>3
<1> HIDE DEF G
<1>6. UNION {Subjects(Rewards(data, j)) : j \in G} = {data["responses"][j] : j \in G}
  BY <1>3
<1> QED
  BY <1>1, <1>2, <1>4, <1>5, <1>6 DEF G
LEMMA AdvantageOfRow ==
    ASSUME config \in Configs, config.trainer # "sppo", Sizes(config), StepSize(config) \in Nat,
           NEW data, Ready(data, config, actor),
           NEW best, config.estimator = "GRPO_PASSK" => best \in Best(data),
           NEW advantage, \A j \in 1 .. StepSize(config) : advantage[j] = Advantage(data, j, best),
           NEW i \in 1 .. StepSize(config)
    PROVE  AdvantageTold(advantage, data["responses"], config, StepSize(config), i)
<1> DEFINE n == StepSize(config)
           r == data["responses"]
           own == ResponsesTo(r, n, i)
           adv == advantage[i]
<1>1. /\ Told(data, n, config, actor) /\ Table(data, n) /\ Whole(r, data["uid"], n, config.samples)
      /\ Scored(DOMAIN data, config) /\ "responses" \in DOMAIN data
  BY DEF Ready, Told
<1>2. adv = Advantage(data, i, best)
  OBVIOUS
<1>3. Subjects(Rewards(data, i)) = {r[i]}
  BY RewardSubjects
<1>4. /\ Group(data, i) = Siblings(r, n, i)
      /\ Subjects(GroupRewards(data, i)) = own
      /\ Subjects({[of |-> r[j]] : j \in Group(data, i)}) = own
  BY GroupSubjects
<1>5. \A j \in 1 .. n : Fresh(r[j], config, actor)
  BY <1>1 DEF Told, CellTold
<1>6. Cardinality(own) = config.samples
  <2>1. \A j \in 1 .. n : r[j].sample \in 1 .. config.samples
    BY <1>5 DEF Fresh
  <2> QED
    BY <1>1, <2>1, SamplesEach DEF Sizes
<1>7. /\ config.estimator \in AdvantageEstimator
      /\ config.estimator \in {"RSOPD", "GOPD"} => config.reference
  BY ConfigsAssumption DEF Config
<1>8. CASE config.estimator \in GroupEstimators
  <2>1. CASE config.estimator = "OPO"
    <3>1. adv = GroupRewards(data, i) \cup {[of |-> r[j]] : j \in Group(data, i)}
      BY <1>2, <2>1 DEF Advantage, Opo
    <3>2. PICK A : A = GroupRewards(data, i)
      OBVIOUS
    <3>3. PICK B : B = {[of |-> r[j]] : j \in Group(data, i)}
      OBVIOUS
    <3>4. Subjects(A \cup B) = Subjects(A) \cup Subjects(B)
      BY SubjectsOf
    <3>5. Subjects(A) = own /\ Subjects(B) = own
      BY <1>4, <3>2, <3>3
    <3>6. adv = A \cup B
      BY <3>1, <3>2, <3>3
    <3>7. Subjects(adv) = own
      BY <3>4, <3>5, <3>6
    <3> QED
      BY <1>6, <1>8, <3>7 DEF AdvantageTold, GroupEstimators, OwnEstimators, InGroup, BestOfGroup, AgainstGreedy
  <2>2. CASE config.estimator # "OPO"
    <3>1. adv = GroupRewards(data, i)
      BY <1>2, <1>8, <2>2 DEF Advantage, Grpo, ReinforcePlusPlusBaseline, Rloo, GroupEstimators
    <3> QED
      BY <1>4, <1>6, <1>8, <3>1 DEF AdvantageTold, GroupEstimators, OwnEstimators, InGroup, BestOfGroup, AgainstGreedy
  <2> QED
    BY <2>1, <2>2
<1>9. CASE config.estimator = "GRPO_PASSK"
  <2>1. best \in SUBSET (1 .. n) /\ \A j \in 1 .. n : Cardinality(best \cap Group(data, j)) = 1
    BY <1>1, <1>9, TableRows DEF Best
  <2>2. \A j \in 1 .. n : advantage[j] = IF j \in best THEN GroupRewards(data, j) ELSE {}
    BY <1>9 DEF Advantage, GrpoPassK
  <2>3. Subjects(adv) \in {{}, own}
    BY <1>4, <2>2 DEF Subjects
  <2>4. \A j \in 1 .. n : GroupRewards(data, j) # {}
    <3> SUFFICES ASSUME NEW j \in 1 .. n PROVE GroupRewards(data, j) # {}
      OBVIOUS
    <3>1. Subjects(GroupRewards(data, j)) = ResponsesTo(r, n, j)
      BY GroupSubjects
    <3>2. r[j] \in ResponsesTo(r, n, j)
      BY DEF ResponsesTo, Siblings
    <3> QED
      BY <3>1, <3>2 DEF Subjects
  <2>5. {j \in Siblings(r, n, i) : advantage[j] # {}} = best \cap Group(data, i)
    <3>1. Siblings(r, n, i) \subseteq 1 .. n
      BY DEF Siblings
    <3> QED
      BY <1>4, <2>2, <2>4, <3>1
  <2> QED
    BY <1>6, <1>9, <2>1, <2>3, <2>5 DEF AdvantageTold, GroupEstimators, OwnEstimators, InGroup, BestOfGroup, AgainstGreedy
<1>10. CASE config.estimator = "REMAX"
  <2>1. adv = Rewards(data, i) \cup {data["reward_baselines"][i]}
    BY <1>2, <1>10 DEF Advantage, Remax
  <2>2. "reward_baselines" \in DOMAIN data
    BY <1>1, <1>10 DEF Scored
  <2>3. Greedy(data["reward_baselines"][i], r[i].prompt, actor)
    BY <1>1, <2>2 DEF Told, CellTold
  <2>4. PICK e : e = data["reward_baselines"][i].of
    OBVIOUS
  <2>5. Subjects({data["reward_baselines"][i]}) = {e}
    BY <2>4, SubjectOf
  <2>6. Subjects(adv) = {e, r[i]}
    BY <1>3, <2>1, <2>5, SubjectsOf
  <2>7. e.prompt = r[i].prompt /\ e.sample = 0 /\ e.by = r[i].by
    BY <1>5, <2>3, <2>4 DEF Greedy, Fresh
  <2> QED
    BY <1>10, <2>6, <2>7 DEF AdvantageTold, GroupEstimators, OwnEstimators, InGroup, BestOfGroup, AgainstGreedy
<1>11. ASSUME NEW col \in AboutResponse, col \in DOMAIN data
       PROVE  Subjects({data[col][i]}) = {r[i]}
  BY <1>1, <1>11, CellOf, SubjectOf
<1>12. CASE config.estimator \in OwnEstimators
  <2>1. Subjects(adv) = {r[i]}
    <3>1. CASE config.estimator = "GAE"
      <4>1. adv = Rewards(data, i) \cup {data["values"][i]}
        BY <1>2, <3>1 DEF Advantage, Gae
      <4>2. Subjects({data["values"][i]}) = {r[i]}
        BY <1>1, <1>11, <3>1 DEF Scored, AboutResponse
      <4> QED
        BY <1>3, <4>1, <4>2, SubjectsOf
    <3>2. CASE config.estimator = "REINFORCE_PLUS_PLUS"
      <4>1. adv = Rewards(data, i)
        BY <1>2, <3>2 DEF Advantage, ReinforcePlusPlus
      <4> QED
        BY <1>3, <4>1
    <3>3. ASSUME config.estimator \in {"RSOPD", "GOPD"} PROVE Subjects(Rsopd(data, i)) = {r[i]}
      <4>1. Subjects({data["old_log_probs"][i]}) = {r[i]}
        BY <1>1, <1>11 DEF Scored, AboutResponse
      <4>2. Subjects({TeacherLogProb(data, i)}) = {r[i]}
        <5>1. CASE "teacher_log_prob" \in DOMAIN data
          BY <1>11, <5>1 DEF TeacherLogProb, AboutResponse
        <5>2. CASE "teacher_log_prob" \notin DOMAIN data
          BY <1>1, <1>7, <1>11, <3>3, <5>2 DEF TeacherLogProb, AboutResponse, Scored
        <5> QED
          BY <5>1, <5>2
      <4>3. Rsopd(data, i) = {data["old_log_probs"][i]} \cup {TeacherLogProb(data, i)}
        BY DEF Rsopd
      <4> QED
        BY <4>1, <4>2, <4>3, SubjectsOf
    <3>4. CASE config.estimator = "RSOPD"
      BY <1>2, <3>3, <3>4 DEF Advantage
    <3>5. CASE config.estimator = "GOPD"
      <4>1. adv = Rsopd(data, i) \cup {data["gopd_ref_log_prob"][i]}
        BY <1>2, <3>5 DEF Advantage, Gopd
      <4>2. Subjects({data["gopd_ref_log_prob"][i]}) = {r[i]}
        BY <1>1, <1>11, <3>5 DEF Scored, AboutResponse
      <4> QED
        BY <3>3, <3>5, <4>1, <4>2, SubjectsOf
    <3> QED
      BY <1>12, <3>1, <3>2, <3>4, <3>5 DEF OwnEstimators
  <2> QED
    BY <1>12, <2>1 DEF AdvantageTold, GroupEstimators, OwnEstimators, InGroup, BestOfGroup, AgainstGreedy
<1> QED
  BY <1>7, <1>8, <1>9, <1>10, <1>12 DEF AdvantageEstimator, GroupEstimators, OwnEstimators

\* Another column leaves the batch to learn from.
LEMMA ColumnPut ==
    ASSUME NEW data, NEW c, NEW a, Ready(data, c, a), NEW name \in {"advantages", "seq_level_rewards"},
           NEW column, IsList(column, StepSize(c)), name = IF c.trainer = "sppo" THEN "seq_level_rewards" ELSE "advantages",
           \A i \in 1 .. StepSize(c) : AdvantageTold(column, data["responses"], c, StepSize(c), i)
    PROVE  LearnRows(Put(data, name, column), c, a)
<1> DEFINE n == StepSize(c)
           p == Put(data, name, column)
<1>1. /\ Told(data, n, c, a) /\ Table(data, n) /\ {"responses", "uid"} \subseteq DOMAIN data
      /\ Whole(data["responses"], data["uid"], n, c.samples) /\ Scored(DOMAIN data, c)
  BY DEF Ready, Told
<1>2. \A i \in 1 .. n : CellTold(name, column[i], data["responses"][i], c, a)
  BY DEF CellTold, AboutResponse
<1>3. Told(p, n, c, a)
  BY <1>1, <1>2, PutTold
<1>4. Extended(p, data, n, name, column)
  BY <1>1, PutTable
<1> HIDE DEF p
<1>5. /\ DOMAIN p = DOMAIN data \cup {name} /\ p[name] = column
      /\ p["responses"] = data["responses"] /\ p["uid"] = data["uid"]
  BY <1>1, <1>4 DEF Extended
<1>6. Scored(DOMAIN p, c)
  BY <1>1, <1>5 DEF Scored
<1>7. Advantages(p, c) = column
  BY <1>5 DEF Advantages
<1>8. LearnRows(p, c, a)
  BY <1>1, <1>3, <1>5, <1>6, <1>7 DEF LearnRows
<1> QED
  BY <1>8 DEF p

\* Rows drawn again, for an advantage that is of the row alone.
LEMMA Resampled ==
    ASSUME NEW c \in Configs, c.pfPpo, NEW a, NEW data, LearnRows(data, c, a), "advantages" \in DOMAIN data,
           StepSize(c) \in Nat, NEW index \in [1 .. StepSize(c) -> 1 .. StepSize(c)]
    PROVE  LearnRows(Take(data, index), c, a)
<1> DEFINE n == StepSize(c)
           p == Take(data, index)
<1>1. c.estimator = "GAE" /\ c.trainer # "sppo"
  BY ConfigsAssumption
<1>2. Told(data, n, c, a) /\ Table(data, n) /\ Scored(DOMAIN data, c) /\ "responses" \in DOMAIN data
  BY DEF LearnRows, Told
<1>3. Selects(index, n, n)
  BY DEF Selects
<1>4. Told(p, n, c, a)
  BY <1>2, <1>3, TakeTold
<1>5. RowsAt(p, data, index, n)
  BY <1>2, <1>3, TakeTable
<1> HIDE DEF p
<1>6. DOMAIN p = DOMAIN data
  BY <1>5 DEF RowsAt
<1>7. \A i \in 1 .. n : AdvantageTold(Advantages(p, c), p["responses"], c, n, i)
  <2> SUFFICES ASSUME NEW i \in 1 .. n PROVE AdvantageTold(Advantages(p, c), p["responses"], c, n, i)
    OBVIOUS
  <2>1. index[i] \in 1 .. n
    OBVIOUS
  <2>2. AdvantageTold(Advantages(data, c), data["responses"], c, n, index[i])
    BY <2>1 DEF LearnRows
  <2>3. Subjects(data["advantages"][index[i]]) = {data["responses"][index[i]]}
    BY <1>1, <2>2 DEF AdvantageTold, Advantages, GroupEstimators, OwnEstimators
  <2>4. p["advantages"][i] = data["advantages"][index[i]] /\ p["responses"][i] = data["responses"][index[i]]
    BY <1>2, <1>5 DEF RowsAt
  <2> QED
    BY <1>1, <2>3, <2>4 DEF AdvantageTold, Advantages, GroupEstimators, OwnEstimators
<1>8. LearnRows(p, c, a)
  BY <1>2, <1>4, <1>6, <1>7 DEF LearnRows
<1> QED
  BY <1>8 DEF p

\* Advantages are put to the batch with its scores.
LEMMA WithAdvantagesStep ==
    ASSUME StepInv, NEW data, Ready(data, config, actor), config.trainer # "sppo", batch' \in WithAdvantages(data),
           pc' \in {"update_critic", "update_actor", "test"}, UNCHANGED <<config, taken, actor>>
    PROVE  StepInv'
<1> DEFINE n == StepSize(config)
<1>1. config \in Configs /\ Sizes(config) /\ n \in Nat \ {0}
  <2>1. config \in Configs
    BY DEF StepInv
  <2> QED
    BY <2>1, SizesOfConfig, SizeNumber
<1>3. Ready(data, config, actor) /\ config \in Configs /\ Sizes(config) /\ n \in Nat \ {0}
  BY <1>1
<1>4. Told(data, n, config, actor) /\ Table(data, n)
  BY <1>3 DEF Ready, Told
<1>5. Rows(data) = n
  BY <1>3, <1>4, TableRows
<1>6. PICK best \in (IF config.estimator = "GRPO_PASSK" THEN Best(data) ELSE {{}}) :
        batch' \in Reweighted(Put(data, "advantages", [i \in 1 .. Rows(data) |-> Advantage(data, i, best)]))
  BY DEF WithAdvantages
<1> DEFINE column == [i \in 1 .. n |-> Advantage(data, i, best)]
           p == Put(data, "advantages", column)
<1>7. batch' \in Reweighted(p)
  BY <1>5, <1>6
<1>8. \A i \in 1 .. n : column[i] = Advantage(data, i, best)
  OBVIOUS
<1>9. IsList(column, n)
  BY DEF IsList
<1> HIDE DEF column, n
<1>10. \A i \in 1 .. n : AdvantageTold(column, data["responses"], config, n, i)
  BY <1>3, <1>6, <1>8, AdvantageOfRow DEF n
<1>11. LearnRows(p, config, actor)
  BY <1>3, <1>9, <1>10, ColumnPut DEF n
<1>12. Extended(p, data, n, "advantages", column)
  BY <1>4, <1>9, PutTable
<1> HIDE DEF p
<1>13. LearnRows(batch', config, actor)
  <2>1. CASE config.pfPpo
    <3>1. Table(p, n) /\ "advantages" \in DOMAIN p
      BY <1>12 DEF Extended
    <3>2. Rows(p) = n
      BY <1>3, <3>1, TableRows
    <3>3. PICK index \in [1 .. n -> 1 .. n] : batch' = Take(p, index)
      BY <1>7, <2>1, <3>2 DEF Reweighted
    <3>4. StepSize(config) \in Nat
      BY <1>3 DEF n
    <3>5. index \in [1 .. StepSize(config) -> 1 .. StepSize(config)]
      BY <3>3 DEF n
    <3> QED
      BY <1>3, <1>11, <2>1, <3>1, <3>3, <3>4, <3>5, Resampled
  <2>2. CASE ~config.pfPpo
    BY <1>7, <1>11, <2>2 DEF Reweighted
  <2> QED
    BY <2>1, <2>2
<1>14. pc' \notin Generating \cup RowPhases
  BY DEF Generating, RowPhases, BeforeValues, BeforeGopd, BeforeTeacher, BeforeReference, BeforeOld, BeforeScores
<1>15. LearnInv'
  BY <1>13 DEF LearnInv
<1> QED
  BY <1>14, <1>15, LearnStep

LEMMA ComputeAdvantageStep ==
    ASSUME StepInv, Plain, ~Sampled(config), config.trainer # "sppo", ComputeAdvantage
    PROVE  StepInv'
<1> DEFINE asked == IF Privileged THEN {"raw_prompt"} ELSE {}
           data == Put(Without(batch, asked), "token_level_scores", reward)
<1>1. /\ pc = "adv" /\ batch' \in WithAdvantages(data)
      /\ pc' \in {"update_critic", "update_actor", "test"}
      /\ UNCHANGED <<config, taken, actor>>
  BY DEF ComputeAdvantage, Warm
<1>2. asked \in {{}, {"raw_prompt"}}
  OBVIOUS
<1> HIDE DEF asked
<1>3. Ready(data, config, actor)
  BY <1>1, <1>2, ReadyForAdvantage
<1> HIDE DEF data
<1> QED
  BY <1>1, <1>3, WithAdvantagesStep

LEMMA ComputeDapoAdvantageStep ==
    ASSUME StepInv, Plain, Sampled(config), ComputeDapoAdvantage
    PROVE  StepInv'
<1>1. /\ pc = "adv" /\ batch' \in WithAdvantages(batch)
      /\ pc' \in {"update_critic", "update_actor", "test"}
      /\ UNCHANGED <<config, taken, actor>>
  BY DEF ComputeDapoAdvantage, Warm
<1>2. Ready(batch, config, actor) /\ config.trainer # "sppo"
  BY <1>1, ReadyAlready DEF Sampled
<1> QED
  BY <1>1, <1>2, WithAdvantagesStep

\* A row's reward is held against those of all rows.
LEMMA SppoAdvantageStep ==
    ASSUME StepInv, Plain, config.trainer = "sppo", ComputeSppoAdvantage
    PROVE  StepInv'
<1> DEFINE n == StepSize(config)
           data == Put(batch, "token_level_scores", reward)
           cell(i) == Rewards(data, i) \cup SoftMean(data)
           column == [i \in 1 .. n |-> cell(i)]
<1>1. /\ pc = "adv" /\ batch' = Put(data, "seq_level_rewards", [i \in 1 .. Rows(data) |-> cell(i)])
      /\ pc' \in {"update_actor", "test"}
      /\ UNCHANGED <<config, taken, actor>>
  BY DEF ComputeSppoAdvantage, Warm
<1>2. Ready(data, config, actor) /\ config \in Configs /\ n \in Nat \ {0}
  BY <1>1, ReadyForAdvantage DEF Sampled
<1> HIDE DEF data
<1>3. Table(data, n)
  BY <1>2 DEF Ready, Told
<1>4. Rows(data) = n
  BY <1>2, <1>3, TableRows
<1>5. batch' = Put(data, "seq_level_rewards", column)
  BY <1>1, <1>4
<1>6. \A i \in 1 .. n : Subjects(Rewards(data, i)) = {data["responses"][i]}
  BY <1>2, RewardSubjects
<1>7. Subjects(SoftMean(data)) = EveryResponse(data["responses"], n)
  <2>1. Subjects(SoftMean(data)) = UNION {Subjects(Rewards(data, j)) : j \in 1 .. n}
    BY <1>4 DEF Subjects, SoftMean
  <2> QED
    BY <1>6, <2>1 DEF EveryResponse
<1>8. \A i \in 1 .. n : Subjects(cell(i)) = EveryResponse(data["responses"], n)
  <2> SUFFICES ASSUME NEW i \in 1 .. n PROVE Subjects(cell(i)) = EveryResponse(data["responses"], n)
    OBVIOUS
  <2>1. Subjects(cell(i)) = Subjects(Rewards(data, i)) \cup Subjects(SoftMean(data))
    BY SubjectsOf
  <2>2. data["responses"][i] \in EveryResponse(data["responses"], n)
    BY DEF EveryResponse
  <2> QED
    BY <1>6, <1>7, <2>1, <2>2
<1> HIDE DEF cell
<1>9. IsList(column, n) /\ \A i \in 1 .. n : column[i] = cell(i)
  BY DEF IsList
<1>10. config.estimator = "null"
  BY <1>2, ConfigsAssumption
<1> HIDE DEF column, n
<1>11. \A i \in 1 .. n : AdvantageTold(column, data["responses"], config, n, i)
  BY <1>8, <1>9, <1>10 DEF AdvantageTold, GroupEstimators, OwnEstimators, InGroup, BestOfGroup, AgainstGreedy
<1>12. LearnRows(batch', config, actor)
  BY <1>2, <1>5, <1>9, <1>11, ColumnPut DEF n
<1>13. pc' \notin Generating \cup RowPhases
  BY <1>1 DEF Generating, RowPhases, BeforeValues, BeforeGopd, BeforeTeacher, BeforeReference, BeforeOld, BeforeScores
<1>14. LearnInv'
  BY <1>1, <1>12 DEF LearnInv
<1> QED
  BY <1>1, <1>13, <1>14, LearnStep

LEMMA UpdateCriticStep ==
    ASSUME StepInv, Plain, UpdateCritic
    PROVE  StepInv'
<1>1. /\ pc = "update_critic" /\ pc' \in {"update_actor", "test"}
      /\ UNCHANGED <<config, taken, batch, actor>>
  BY DEF UpdateCritic, Warm
<1>2. LearnRows(batch, config, actor)
  BY <1>1 DEF StepInv, LearnInv, Learning
<1>3. LearnInv'
  BY <1>1, <1>2 DEF LearnInv
<1>4. pc' \notin Generating \cup RowPhases
  BY <1>1 DEF Generating, RowPhases, BeforeValues, BeforeGopd, BeforeTeacher, BeforeReference, BeforeOld, BeforeScores
<1> QED
  BY <1>1, <1>3, <1>4, LearnStep

LEMMA RestStep ==
    ASSUME StepInv, Plain, UpdateActor \/ Validate \/ EndStep \/ EndOfBatch
    PROVE  StepInv'
<1>1. UNCHANGED <<config, taken>> /\ pc' \in {"test", "batch", "end", "done"}
  BY DEF UpdateActor, Validate, ValidateThen, EndStep, EndOfBatch, GiveUpBatch
<1>2. pc' \notin Generating \cup RowPhases \cup LearningPhases
  BY <1>1 DEF Generating, LearningPhases, RowPhases, BeforeValues, BeforeGopd, BeforeTeacher, BeforeReference,
              BeforeOld, BeforeScores
<1> QED
  BY <1>1, <1>2, IdleStep DEF StepInv

-----------------------------------------------------------------------------
(* What the steps leave as it is in the batch.                               *)

KeepsColumn(col) == batch'[col] = batch[col]
KeepsResponses == KeepsColumn("responses")

\* An answer that is joined to the batch as the call left it leaves its columns.
AnswersJoin(left, answers) ==
    /\ left = batch \/ (left = AsLeft(batch) /\ Accepted(batch))
    /\ CanUnion(left, answers)
    /\ batch' = Union(left, answers)

LEMMA JoinKeeps ==
    ASSUME StepInv, StepInv', Plain, config' = config, pc \in RowPhases, pc' \in RowPhases,
           Size(config, pc') = Size(config, pc), NEW col \in DOMAIN batch,
           NEW left, NEW answers, AnswersJoin(left, answers)
    PROVE  KeepsColumn(col)
<1> DEFINE n == Size(config, pc)
<1>1. config \in Configs /\ n \in Nat \ {0} /\ Table(batch, n)
  BY RowsNow
<1>2. Table(batch', n)
  <2>1. Plain' /\ BatchInv'
    BY DEF Plain, StepInv
  <2>2. Told(batch', n, config, actor')
    BY <2>1 DEF BatchInv, RowsInv
  <2> QED
    BY <2>2 DEF Told
<1> HIDE DEF n
<1>3. \E m \in Nat : /\ Table(left, m) /\ DOMAIN left = DOMAIN batch
                     /\ m = n => left = batch
  <2>1. CASE left = batch
    BY <1>1, <2>1
  <2>2. CASE left = AsLeft(batch) /\ Accepted(batch)
    <3>1. Callable(batch, n, {})
      BY <1>1, <2>2 DEF Callable
    <3>2. PICK m \in Nat \ {0} : \E q \in Nat \ {0} : Pads(AsLeft(batch), batch, n, m, config.workers)
                                                      /\ Split(m, config.workers, config.sp, q)
      BY <3>1, CallParts
    <3> QED
      BY <2>2, <3>2 DEF Pads
  <2> QED
    BY <2>1, <2>2 DEF AnswersJoin
<1>4. PICK m \in Nat : /\ Table(left, m) /\ DOMAIN left = DOMAIN batch
                       /\ m = n => left = batch
  BY <1>3
<1>5. batch'[col] = left[col] /\ col \in DOMAIN batch'
  BY <1>1, <1>4 DEF AnswersJoin, CanUnion, Union
<1>6. DOMAIN left[col] = 1 .. m /\ DOMAIN batch'[col] = 1 .. n
  BY <1>1, <1>2, <1>4, <1>5 DEF Table, IsList
<1>7. m = n
  BY <1>1, <1>4, <1>5, <1>6
<1> QED
  BY <1>4, <1>5, <1>7 DEF KeepsColumn

\* What the actions that ask a worker group may do.
LEMMA Asks ==
    ASSUME StepInv, Plain,
           \/ RewardModel \/ OldLogProb \/ Teacher \/ GopdReference \/ Values
           \/ \E there \in {"teacher", "adv"} : ReferenceThen(there)
    PROVE  \/ pc' = "failed"
           \/ /\ pc \in RowPhases \ {"balance"} /\ pc' \in RowPhases /\ (pc' \in NewPhases <=> pc \in NewPhases)
              /\ UNCHANGED <<config, taken, actor>>
              /\ batch' = batch \/ \E left, answers : AnswersJoin(left, answers)
<1> USE DEF RowPhases, BeforeValues, BeforeGopd, BeforeTeacher, BeforeReference, BeforeOld, BeforeScores
<1>1. CASE OldLogProb
  <2> DEFINE answers == Rename(Called(batch, LogProb), "old_log_probs", "old_log_probs")
  <2>1. \/ pc' = "failed"
        \/ /\ pc = "old_log_prob" /\ pc' = "ref" /\ UNCHANGED <<config, taken, actor>>
           /\ Accepted(batch) /\ CanUnion(AsLeft(batch), answers) /\ batch' = Union(AsLeft(batch), answers)
    BY <1>1 DEF OldLogProb, Join, Fail
  <2> HIDE DEF answers
  <2> QED
    BY <2>1 DEF AnswersJoin, NewPhases
<1>2. CASE RewardModel
  <2> DEFINE answers == Rename(Called(batch, RmScores), "rm_scores", "rm_scores")
  <2>1. \/ pc' = "failed"
        \/ /\ pc = "reward" /\ pc' = "score" /\ UNCHANGED <<config, taken, actor>>
           /\ \/ batch' = batch
              \/ Accepted(batch) /\ CanUnion(AsLeft(batch), answers) /\ batch' = Union(AsLeft(batch), answers)
    BY <1>2 DEF RewardModel, Join, Skip, Fail
  <2> HIDE DEF answers
  <2> QED
    BY <2>1 DEF AnswersJoin, NewPhases
<1>3. CASE Values
  <2> DEFINE answers == Rename(Called(batch, CriticValues), "values", "values")
  <2>1. \/ pc' = "failed"
        \/ /\ pc = "values" /\ pc' = "adv" /\ UNCHANGED <<config, taken, actor>>
           /\ \/ batch' = batch
              \/ Accepted(batch) /\ CanUnion(AsLeft(batch), answers) /\ batch' = Union(AsLeft(batch), answers)
    BY <1>3 DEF Values, Join, Skip, Fail
  <2> HIDE DEF answers
  <2> QED
    BY <2>1 DEF AnswersJoin, NewPhases
<1>4. CASE \E there \in {"teacher", "adv"} : ReferenceThen(there)
  <2> DEFINE answers == Rename(Called(batch, RefLogProb), "ref_log_prob", "ref_log_prob")
  <2>1. PICK there \in {"teacher", "adv"} : ReferenceThen(there)
    BY <1>4
  <2>2. \/ pc' = "failed"
        \/ /\ pc = "ref" /\ pc' = there /\ UNCHANGED <<config, taken, actor>>
           /\ \/ batch' = batch
              \/ Accepted(batch) /\ CanUnion(AsLeft(batch), answers) /\ batch' = Union(AsLeft(batch), answers)
    BY <2>1 DEF ReferenceThen, Join, Skip, Fail
  <2> HIDE DEF answers
  <2> QED
    BY <2>1, <2>2 DEF AnswersJoin, NewPhases
<1>5. CASE Teacher
  <2> DEFINE answers == Rename(Called(PrivilegedBatch, PrivilegedLogProb), "ref_log_prob", "teacher_log_prob")
  <2>1. \/ pc' = "failed"
        \/ /\ pc = "teacher" /\ pc' = "gopd_ref" /\ UNCHANGED <<config, taken, actor>>
           /\ batch' = batch \/ (CanUnion(batch, answers) /\ batch' = Union(batch, answers))
    BY <1>5 DEF Teacher, Join, Skip, Fail
  <2> HIDE DEF answers
  <2> QED
    BY <2>1 DEF AnswersJoin, NewPhases
<1>6. CASE GopdReference
  <2> DEFINE privileged == Rename(Called(PrivilegedBatch, PrivilegedLogProb), "ref_log_prob", "gopd_ref_log_prob")
             answers == Rename(Called(batch, RefLogProb), "ref_log_prob", "gopd_ref_log_prob")
  <2>1. \/ pc' = "failed"
        \/ /\ pc = "gopd_ref" /\ pc' = "values" /\ UNCHANGED <<config, taken, actor>>
           /\ \/ batch' = batch
              \/ CanUnion(batch, privileged) /\ batch' = Union(batch, privileged)
              \/ Accepted(batch) /\ CanUnion(AsLeft(batch), answers) /\ batch' = Union(AsLeft(batch), answers)
    <3>1. CASE config.gopdRef
      BY <1>6, <3>1 DEF GopdReference, Join, Fail
    <3>2. CASE config.estimator = "GOPD" /\ ~config.gopdRef
      BY <1>6, <3>2 DEF GopdReference, Join, Fail
    <3>3. CASE config.estimator # "GOPD" /\ ~config.gopdRef
      BY <1>6, <3>3 DEF GopdReference, Skip
    <3> QED
      BY <3>1, <3>2, <3>3
  <2> HIDE DEF privileged, answers
  <2> QED
    BY <2>1 DEF AnswersJoin, NewPhases
<1> QED
  BY <1>1, <1>2, <1>3, <1>4, <1>5, <1>6

LEMMA AdvantageKeeps ==
    ASSUME StepInv, Plain, ~config.pfPpo, pc = "adv",
           \/ config.trainer # "sppo" /\ ComputeAdvantage
           \/ config.trainer = "sppo" /\ ComputeSppoAdvantage
    PROVE  KeepsResponses
<1>1. "responses" \in DOMAIN batch
  BY RowsNow DEF RowPhases
<1>2. CASE ComputeAdvantage
  <2> DEFINE asked == IF Privileged THEN {"raw_prompt"} ELSE {}
             data == Put(Without(batch, asked), "token_level_scores", reward)
             column(best) == [i \in 1 .. Rows(data) |-> Advantage(data, i, best)]
  <2>1. batch' \in WithAdvantages(data) /\ asked \subseteq {"raw_prompt"}
    BY <1>2 DEF ComputeAdvantage
  <2> HIDE DEF asked
  <2>2. "responses" \in DOMAIN data /\ data["responses"] = batch["responses"]
    BY <1>1, <2>1 DEF Put, Without
  <2> HIDE DEF data
  <2>3. PICK best : batch' \in Reweighted(Put(data, "advantages", column(best)))
    BY <2>1 DEF WithAdvantages
  <2>4. batch' = Put(data, "advantages", column(best))
    BY <2>3 DEF Reweighted
  <2> HIDE DEF column
  <2> QED
    BY <2>2, <2>4 DEF Put, KeepsResponses, KeepsColumn
<1>3. CASE ComputeSppoAdvantage
  <2> DEFINE data == Put(batch, "token_level_scores", reward)
             column == [i \in 1 .. Rows(data) |-> Rewards(data, i) \cup SoftMean(data)]
  <2>1. batch' = Put(data, "seq_level_rewards", column)
    BY <1>3 DEF ComputeSppoAdvantage
  <2>2. "responses" \in DOMAIN data /\ data["responses"] = batch["responses"]
    BY <1>1 DEF Put
  <2> HIDE DEF data, column
  <2> QED
    BY <2>1, <2>2 DEF Put, KeepsResponses, KeepsColumn
<1> QED
  BY <1>2, <1>3

LEMMA DapoAdvantageKeeps ==
    ASSUME StepInv, Plain, Sampled(config), ComputeDapoAdvantage, NEW col \in DOMAIN batch, col # "advantages"
    PROVE  KeepsColumn(col)
<1> DEFINE column(best) == [i \in 1 .. Rows(batch) |-> Advantage(batch, i, best)]
<1>1. ~config.pfPpo
  <2>1. config \in Configs
    BY DEF StepInv
  <2> QED
    BY <2>1, ConfigsAssumption, DapoAssumption DEF Sampled
<1>2. batch' \in WithAdvantages(batch)
  BY DEF ComputeDapoAdvantage
<1>3. PICK best : batch' \in Reweighted(Put(batch, "advantages", column(best)))
  BY <1>2 DEF WithAdvantages
<1>4. batch' = Put(batch, "advantages", column(best))
  BY <1>1, <1>3 DEF Reweighted
<1> HIDE DEF column
<1> QED
  BY <1>4 DEF Put, KeepsColumn

-----------------------------------------------------------------------------
(* Dynamic sampling: batches are generated until enough prompts are left.    *)

\* The columns of a batch that was generated, in its phases.
NewColumns(c, phase) ==
    {"data_source", "uid", "input_ids", "raw_prompt"} \cup Answering(c)
        \cup (IF c.estimator = "REMAX" THEN {"reward_baselines"} ELSE {})
        \cup (IF c.rewardModel /\ phase # "reward" THEN {"rm_scores"} ELSE {})
        \cup (IF phase = "filter" THEN {"token_level_scores"} ELSE {})

\* The responses to n prompts, those to one side by side; the uids of their
\* prompts, by their places in the batches of g; the batches they are of.
OneRun(responses, i, j, s) == responses[i].prompt = responses[j].prompt <=> SourceRow(i, s) = SourceRow(j, s)
Runs(responses, n, s) ==
    /\ \A i \in 1 .. n * s : responses[i].sample = 1 + ((i - 1) % s)
    /\ \A i, j \in 1 .. n * s : OneRun(responses, i, j, s)
UidOf(prompt, g) == <<SourceRow(prompt, g), 1 + ((prompt - 1) % g)>>
Named(uid, responses, m, g) == \A i \in 1 .. m : uid[i] = UidOf(responses[i].prompt, g)
OfBatches(responses, m, g, first, last) ==
    \A i \in 1 .. m : responses[i].prompt \in first * g + 1 .. last * g
Grouped(data, n, c, first, last) ==
    /\ Runs(data["responses"], n, c.samples)
    /\ Named(data["uid"], data["responses"], n * c.samples, c.genPrompts)
    /\ OfBatches(data["responses"], n * c.samples, c.genPrompts, first, last)

\* No response has all the other responses to its prompt score like it.
Differs(responses, scores, m, i) ==
    \E j \in 1 .. m : responses[j].prompt = responses[i].prompt /\ scores[j].score # scores[i].score
AllDiffer(data, m) == \A i \in 1 .. m : Differs(data["responses"], data["token_level_scores"], m, i)

\* The new batch, n prompts that are kept, and a step's batch.
NewInv(data, phase, c, t) == DOMAIN data = NewColumns(c, phase) /\ Grouped(data, c.genPrompts, c, t - 1, t)
KeptInv(data, n, c, first, last, a) ==
    /\ Told(data, n * c.samples, c, a) /\ DOMAIN data = NewColumns(c, "filter")
    /\ Grouped(data, n, c, first, last)
    /\ c.filterGroups /\ c.samples > 1 => AllDiffer(data, n * c.samples)
Qualifies(data, c, first) ==
    /\ c.samples > 1 => AllDiffer(data, StepSize(c))
    /\ \A i \in 1 .. StepSize(c) : data["responses"][i].prompt > first * c.genPrompts

First == taken - num_gen_batches
Between == {"first", "batch"}
CollectPhases == Between \cup Generating \cup NewPhases
StepPhases == (RowPhases \ NewPhases) \cup LearningPhases
SampInv ==
    Sampled(config) =>
        /\ num_gen_batches \in Nat /\ num_gen_batches <= taken
        /\ pc \in Generating \cup NewPhases => num_gen_batches # 0
        /\ pc \in NewPhases => NewInv(batch, pc, config, taken)
        /\ pc \in CollectPhases =>
             /\ num_prompt_in_batch \in Nat /\ num_prompt_in_batch < config.prompts
             /\ IF kept = Empty THEN num_prompt_in_batch = 0
                ELSE KeptInv(kept, num_prompt_in_batch, config, First,
                             IF pc \in Between THEN taken ELSE taken - 1, actor)
        /\ pc = "align" =>
             KeptInv(kept, IF config.filterGroups THEN num_prompt_in_batch ELSE config.genPrompts, config, First,
                     taken, actor)
        /\ pc = "align" /\ config.filterGroups =>
             num_prompt_in_batch \in Nat /\ config.prompts <= num_prompt_in_batch
        /\ pc \in {"align"} \cup StepPhases /\ config.filterGroups =>
             num_prompt_in_batch - config.prompts < config.genPrompts
        /\ pc \in StepPhases /\ config.filterGroups => Qualifies(batch, config, First)

\* The batch is put together as it was asked for,
LEMMA AssembledNew ==
    ASSUME StepInv, Plain, Sampled(config), pc = "assemble", CanUnion(Repeated, out), batch' = Union(Repeated, out)
    PROVE  Assembled(batch', config, taken, actor) /\ DOMAIN batch' = NewColumns(config, "reward")
<1> DEFINE n == BatchSize(config)
           rows == Repeated
           p == batch'
           s == config.samples
           b == Earlier(config, taken)
<1>1. config \in Configs /\ n \in Nat \ {0}
  BY GenNow, SizeNumber DEF Generating
<1>2. RepeatedRows(rows, config, taken, actor) /\ Answers(out, config, taken, actor)
  BY RepeatedNow, WaitingNow
<1>3. ~config.async /\ ~config.teacher /\ ~config.gopdRef
  BY <1>1, ConfigsAssumption, DapoAssumption DEF Sampled
<1> HIDE DEF rows, n
<1>4. Table(rows, n) /\ Table(out, n)
  <2>1. Table(rows, n) /\ Rows(out) \in Nat /\ Table(out, Rows(out))
    BY <1>2 DEF RepeatedRows, Answers, n
  <2>2. Rows(rows) = n
    BY <1>1, <2>1, TableRows
  <2>3. Rows(rows) = Rows(out)
    BY DEF CanUnion, rows
  <2> QED
    BY <2>1, <2>2, <2>3
<1>5. Joint(p, rows, out, n)
  BY <1>4, UnionTable DEF rows
<1> HIDE DEF p
<1>6. /\ DOMAIN out = {"input_ids", "raw_prompt"} \cup Answering(config)
      /\ \A i \in 1 .. n : AnswersRow(out, config, taken, actor, i)
  BY <1>2, <1>3 DEF Answers, n
<1>7. /\ DOMAIN rows = {"uid"} \cup IF config.estimator = "REMAX" THEN {"data_source", "raw_prompt", "reward_baselines"}
                                    ELSE {"data_source"}
      /\ \A i \in 1 .. n :
           /\ \A col \in DOMAIN rows \cap {"data_source", "raw_prompt"} : rows[col][i] = b + SourceRow(i, s)
           /\ rows["uid"][i] = <<taken, SourceRow(i, s)>>
           /\ "reward_baselines" \in DOMAIN rows => Greedy(rows["reward_baselines"][i], b + SourceRow(i, s), actor)
  BY <1>2 DEF RepeatedRows, n
<1>8. DOMAIN p = DOMAIN rows \cup DOMAIN out /\ Table(p, n)
  BY <1>5 DEF Joint
<1>9. \A c \in DOMAIN out : p[c] = out[c]
  BY <1>5 DEF Joint
<1>10. DOMAIN out \cap {"uid", "data_source", "reward_baselines"} = {}
  BY <1>6 DEF Answering, Masks
<1>11. \A c \in DOMAIN rows \cap {"uid", "data_source", "reward_baselines"} : p[c] = rows[c]
  BY <1>5, <1>10 DEF Joint
<1>12. ASSUME NEW i \in 1 .. n
       PROVE  /\ AnswersRow(p, config, taken, actor, i)
              /\ p["data_source"][i] = b + SourceRow(i, s)
              /\ p["uid"][i] = <<taken, SourceRow(i, s)>>
              /\ "reward_baselines" \in DOMAIN p => Greedy(p["reward_baselines"][i], b + SourceRow(i, s), actor)
  <2>1. AnswersRow(out, config, taken, actor, i)
    BY <1>6
  <2>2. {"input_ids", "raw_prompt", "responses", "attention_mask"} \subseteq DOMAIN out
    BY <1>6 DEF Answering
  <2>3. "loss_mask" \in DOMAIN p => "loss_mask" \in DOMAIN out /\ p["loss_mask"] = out["loss_mask"]
    BY <1>7, <1>8, <1>9
  <2>4. AnswersRow(p, config, taken, actor, i)
    BY <1>9, <2>1, <2>2, <2>3 DEF AnswersRow
  <2>5. {"uid", "data_source"} \subseteq DOMAIN rows
    BY <1>7
  <2>6. "reward_baselines" \in DOMAIN p => "reward_baselines" \in DOMAIN rows
    BY <1>8, <1>10
  <2> HIDE DEF b, s
  <2> QED
    BY <1>7, <1>11, <2>4, <2>5, <2>6
<1>13. DOMAIN p \subseteq {"data_source", "uid", "raw_prompt", "reward_baselines", "input_ids",
                            "responses", "attention_mask", "loss_mask", "response_mask"}
  BY <1>6, <1>7, <1>8 DEF Answering, Masks
<1>14. {"responses", "data_source", "uid", "attention_mask"} \cup (Masks(config) \ {"response_mask"}) \subseteq DOMAIN p
  BY <1>6, <1>7, <1>8 DEF Answering
<1>15. "reward_baselines" \in DOMAIN p <=> config.estimator = "REMAX"
  BY <1>6, <1>7, <1>8 DEF Answering, Masks
<1>16. Assembled(p, config, taken, actor)
  BY <1>3, <1>8, <1>12, <1>13, <1>14, <1>15 DEF Assembled, n
<1>17. DOMAIN p = NewColumns(config, "reward")
  BY <1>6, <1>7, <1>8 DEF NewColumns
<1> QED
  BY <1>16, <1>17 DEF p

LEMMA AssembleNewStep ==
    ASSUME StepInv, Plain, Sampled(config), AssembleNew
    PROVE  StepInv'
<1>1. \/ /\ pc = "assemble" /\ CanUnion(Repeated, out) /\ batch' = Union(Repeated, out) /\ pc' = "reward"
         /\ UNCHANGED <<config, taken, reward, actor>>
      \/ Fail("assemble")
  BY DEF AssembleNew, AssembleThen
<1>2. ASSUME pc = "assemble", CanUnion(Repeated, out), batch' = Union(Repeated, out), pc' = "reward",
             UNCHANGED <<config, taken, reward, actor>>
      PROVE  StepInv'
  <2>1. Assembled(batch', config, taken, actor)
    BY <1>2, AssembledNew
  <2>2. Sizes(config) /\ taken \in Nat
    BY <1>2, GenNow DEF Generating
  <2>3. Size(config, "reward") = BatchSize(config) /\ "reward" \in BeforeScores
    BY DEF Size, NewPhases, BeforeScores
  <2>4. RowsInv(batch', "reward", config, actor)
    BY <2>1, <2>2, <2>3, AssembledRows
  <2>5. pc' \in RowPhases
    BY <1>2 DEF RowPhases, BeforeValues, BeforeGopd, BeforeTeacher, BeforeReference, BeforeOld, BeforeScores
  <2> QED
    BY <1>2, <2>4, <2>5, RowsStep
<1> QED
  BY <1>1, <1>2, FailStep

\* each prompt with its responses.
LEMMA AssembledGroups ==
    ASSUME NEW c, Sizes(c), NEW t \in Nat \ {0}, NEW a, NEW data, Assembled(data, c, t, a)
    PROVE  Grouped(data, c.genPrompts, c, t - 1, t)
<1> DEFINE n == BatchSize(c)
           responses == data["responses"]
           uid == data["uid"]
<1>0. PICK s, g \in Nat \ {0} : s = c.samples /\ g = c.genPrompts /\ n = g * s
  BY DEF Sizes, BatchSize
<1>1. PICK b \in Nat : b = (t - 1) * g /\ b = Earlier(c, t)
  <2>1. (t - 1) * g \in Nat
    <3>1. PICK x \in Nat : x = t - 1
      OBVIOUS
    <3>2. x * g \in Nat
      OBVIOUS
    <3> QED
      BY <3>1, <3>2
  <2> QED
    BY <1>0, <2>1 DEF Earlier
<1>2. \A i \in 1 .. n : SourceRow(i, s) \in 1 .. g /\ (i - 1) % s \in 0 .. s - 1
  <2>1. n = s * g
    BY <1>0
  <2> QED
    BY <2>1, SourceInRange
<1>3. \A i \in 1 .. n : /\ responses[i].prompt = b + SourceRow(i, s) /\ responses[i].sample = 1 + ((i - 1) % s)
                        /\ uid[i] = <<t, SourceRow(i, s)>>
  BY <1>0, <1>1 DEF Assembled, AnswersRow
<1> HIDE DEF n, responses, uid
<1>4. Runs(responses, g, s)
  <2>1. ASSUME NEW i \in 1 .. n, NEW j \in 1 .. n PROVE OneRun(responses, i, j, s)
    <3>1. PICK x, y \in 1 .. g : x = SourceRow(i, s) /\ y = SourceRow(j, s)
      BY <1>2
    <3>2. responses[i].prompt = b + x /\ responses[j].prompt = b + y
      BY <1>3, <3>1
    <3>3. responses[i].prompt = responses[j].prompt <=> x = y
      BY <3>2
    <3> QED
      BY <3>1, <3>3 DEF OneRun
  <2> QED
    BY <1>0, <1>3, <2>1 DEF Runs
<1>5. Named(uid, responses, n, g)
  <2>1. ASSUME NEW i \in 1 .. n PROVE uid[i] = UidOf(responses[i].prompt, g)
    <3>1. PICK x \in 1 .. g : x = SourceRow(i, s)
      BY <1>2
    <3>2. PICK e \in Nat : e = t - 1
      OBVIOUS
    <3>3. PICK p : p = responses[i].prompt /\ p = e * g + x
      BY <1>1, <1>3, <3>1, <3>2
    <3>4. SourceRow(p, g) = e + 1 /\ (p - 1) % g = x - 1
      BY <3>3, SourceRowOf
    <3>5. SourceRow(p, g) = t /\ 1 + ((p - 1) % g) = x
      BY <3>2, <3>4
    <3> QED
      BY <1>3, <3>1, <3>3, <3>5 DEF UidOf
  <2> QED
    BY <2>1 DEF Named
<1>6. OfBatches(responses, n, g, t - 1, t)
  <2>1. t * g = b + g
    BY <1>1
  <2>2. \A i \in 1 .. n : responses[i].prompt \in b + 1 .. b + g
    BY <1>2, <1>3
  <2> QED
    BY <1>1, <2>1, <2>2 DEF OfBatches
<1> QED
  BY <1>0, <1>4, <1>5, <1>6 DEF Grouped, responses, uid

\* Its scores,
LEMMA ScoreNewStep ==
    ASSUME StepInv, Plain, Sampled(config), ScoreNew
    PROVE  StepInv' /\ \E column : IsList(column, Size(config, "score"))
                                   /\ batch' = Put(batch, "token_level_scores", column)
<1> DEFINE n == Size(config, "score")
<1>1. PICK score : /\ pc = "score" /\ pc' = "filter" /\ UNCHANGED <<config, taken, reward, actor>>
                   /\ batch' = Put(batch, "token_level_scores",
                                   [i \in 1 .. Rows(batch) |-> [of |-> batch["responses"][i], score |-> score[i]]])
  BY DEF ScoreNew
<1>2. "score" \in RowPhases /\ "filter" \in RowPhases /\ Size(config, "filter") = n
  BY DEF RowPhases, BeforeValues, BeforeGopd, BeforeTeacher, BeforeReference, BeforeOld, BeforeScores, Size, NewPhases
<1>3. n \in Nat \ {0} /\ RowsInv(batch, "score", config, actor) /\ Table(batch, n)
  BY <1>1, <1>2, RowsNow
<1> HIDE DEF n
<1> DEFINE column == [i \in 1 .. n |-> [of |-> batch["responses"][i], score |-> score[i]]]
<1>4. batch' = Put(batch, "token_level_scores", column)
  BY <1>1, <1>3, TableRows
<1>5. IsList(column, n) /\ \A i \in 1 .. n : column[i].of = batch["responses"][i]
  BY DEF IsList
<1> HIDE DEF column
<1>6. \A i \in 1 .. n : CellTold("token_level_scores", column[i], batch["responses"][i], config, actor)
  BY <1>5 DEF CellTold, AboutResponse
<1>7. Present(DOMAIN batch \cup {"token_level_scores"}, "filter", config)
  <2>1. Present(DOMAIN batch, "score", config)
    BY <1>3 DEF RowsInv
  <2> QED
    BY <2>1 DEF Present, ScoresCome, RowPhases, BeforeValues, BeforeGopd, BeforeTeacher, BeforeReference, BeforeOld,
                BeforeScores, Later
<1>8. RowsInv(batch', "filter", config, actor)
  BY <1>2, <1>3, <1>4, <1>5, <1>6, <1>7, PutRows DEF n
<1>9. StepInv'
  BY <1>1, <1>2, <1>8, RowsStep
<1> QED
  BY <1>4, <1>5, <1>9 DEF n

\* and what is done between two batches.
LEMMA CollectStep ==
    ASSUME StepInv, NoFilter \/ FilterGroups \/ Exhausted \/ DapoEndStep
    PROVE  StepInv'
<1>1. UNCHANGED <<config, taken>> /\ pc' \in {"align", "batch", "raised", "exhausted"}
  BY DEF NoFilter, FilterGroups, Exhausted, DapoEndStep, EndStep, GiveUpBatch
<1>2. pc' \notin Generating \cup RowPhases \cup LearningPhases
  BY <1>1 DEF Generating, LearningPhases, RowPhases, BeforeValues, BeforeGopd, BeforeTeacher, BeforeReference,
              BeforeOld, BeforeScores
<1> QED
  BY <1>1, <1>2, IdleStep DEF StepInv

\* Whole groups are at the beginning of whole groups,
LEMMA RunsWhole ==
    ASSUME NEW n \in Nat, NEW s \in Nat \ {0}, NEW g \in Nat \ {0}, NEW m \in Nat, n <= m, NEW responses, NEW uid,
           NEW first \in Nat, NEW last \in Nat,
           Runs(responses, m, s), Named(uid, responses, m * s, g), OfBatches(responses, m * s, g, first, last)
    PROVE  Whole(responses, uid, n * s, s)
<1>0. PICK l, k \in Nat : l = n * s /\ k = m * s
  OBVIOUS
<1>1. \A i \in 1 .. l : i \in 1 .. k
  <2>1. l <= k
    <3>1. PICK d \in Nat : m = n + d
      <4>1. m - n \in Nat /\ m = n + (m - n)
        OBVIOUS
      <4> QED
        BY <4>1
    <3>2. m * s = n * s + d * s /\ d * s \in Nat
      BY <3>1
    <3> QED
      BY <1>0, <3>2
  <2> QED
    BY <1>0, <2>1
<1>2. PICK p : p = [i \in 1 .. k |-> responses[i].prompt]
  OBVIOUS
<1>3. PICK x, y \in Nat : x = first * g /\ y = last * g
  OBVIOUS
<1>4. \A i \in 1 .. k : p[i] \in x + 1 .. y /\ p[i] \in 1 .. last * g /\ uid[i] = UidOf(p[i], g)
  <2>1. \A i \in 1 .. k : p[i] \in x + 1 .. y /\ uid[i] = UidOf(p[i], g)
    BY <1>0, <1>2, <1>3 DEF OfBatches, Named
  <2> QED
    BY <1>3, <2>1
<1>5. ASSUME NEW i \in 1 .. k, NEW j \in 1 .. k PROVE Alone(responses, uid, i, j)
  <2>1. p[i] = responses[i].prompt /\ p[j] = responses[j].prompt
    BY <1>2
  <2>2. uid[i] = uid[j] => p[i] = p[j]
    <3>1. SUFFICES ASSUME uid[i] = uid[j] PROVE p[i] = p[j]
      OBVIOUS
    <3>2. PICK u \in 1 .. last * g : u = p[i]
      BY <1>4
    <3>3. PICK v \in 1 .. last * g : v = p[j]
      BY <1>4
    <3>4. UidOf(u, g) = UidOf(v, g)
      BY <1>4, <3>1, <3>2, <3>3
    <3>5. SourceRow(u, g) = SourceRow(v, g) /\ 1 + ((u - 1) % g) = 1 + ((v - 1) % g)
      BY <3>4 DEF UidOf
    <3>6. \A z \in 1 .. last * g : (z - 1) % g \in 0 .. g - 1
      <4>1. last * g = g * last
        OBVIOUS
      <4> QED
        BY <4>1, SourceInRange
    <3>7. (u - 1) % g = (v - 1) % g
      BY <3>5, <3>6
    <3>8. u = v
      BY <3>5, <3>7, SamePlace
    <3> QED
      BY <3>2, <3>3, <3>8
  <2>3. p[i] = p[j] => uid[i] = uid[j]
    BY <1>4
  <2>4. ASSUME p[i] = p[j], responses[i].sample = responses[j].sample PROVE i = j
    <3>1. SourceRow(i, s) = SourceRow(j, s)
      BY <1>0, <2>1, <2>4 DEF Runs, OneRun
    <3>2. 1 + ((i - 1) % s) = 1 + ((j - 1) % s)
      BY <1>0, <2>4 DEF Runs
    <3>3. (i - 1) % s \in 0 .. s - 1 /\ (j - 1) % s \in 0 .. s - 1
      <4>1. k = s * m
        BY <1>0
      <4> QED
        BY <4>1, SourceInRange
    <3>4. (i - 1) % s = (j - 1) % s
      BY <3>2, <3>3
    <3>5. i \in 1 .. m * s /\ j \in 1 .. m * s
      BY <1>0
    <3> QED
      BY <3>1, <3>4, <3>5, SamePlace
  <2> QED
    BY <2>1, <2>2, <2>3, <2>4 DEF Alone
<1>6. ASSUME NEW i \in 1 .. l, NEW z \in 1 .. s PROVE HasSample(responses, l, i, z)
  <2>1. PICK x1 \in Nat, k1 \in 1 .. s : PlaceAt(i, s, x1, k1)
    <3>1. i \in 1 .. n * s
      BY <1>0
    <3> QED
      BY <3>1, PlaceNumbers, Zenon
  <2>2. SourceRow(i, s) = x1 + 1 /\ x1 + 1 \in 1 .. n
    <3>1. i \in 1 .. s * n
      BY <1>0
    <3>2. SourceRow(i, s) \in 1 .. n
      BY <3>1, SourceInRange
    <3> QED
      BY <2>1, <3>2, Zenon DEF PlaceAt
  <2>3. PICK j : j = x1 * s + z
    OBVIOUS
  <2>4. SourceRow(j, s) = x1 + 1 /\ (j - 1) % s = z - 1
    BY <2>3, SourceRowOf
  <2>5. j \in 1 .. l
    <3>1. PICK q \in 1 .. n : q = x1 + 1
      BY <2>2
    <3>2. (q - 1) * s + z \in 1 .. n * s
      BY RowInRange
    <3>3. q - 1 = x1
      BY <3>1
    <3> QED
      BY <1>0, <2>3, <3>2, <3>3
  <2>6. i \in 1 .. k /\ j \in 1 .. k
    BY <1>1, <2>5
  <2>7. responses[j].prompt = responses[i].prompt
    BY <1>0, <2>2, <2>4, <2>6 DEF Runs, OneRun
  <2>8. responses[j].sample = z
    <3>1. responses[j].sample = 1 + ((j - 1) % s)
      BY <1>0, <2>6 DEF Runs
    <3> QED
      BY <2>4, <3>1
  <2> QED
    BY <2>5, <2>7, <2>8 DEF HasSample
<1>7. Whole(responses, uid, l, s)
  BY <1>1, <1>5, <1>6 DEF Whole
<1> QED
  BY <1>0, <1>7

\* where their responses still differ.
LEMMA RunEnd ==
    ASSUME NEW n \in Nat, NEW s \in Nat \ {0}, NEW m \in Nat, NEW j \in 1 .. m * s, SourceRow(j, s) \in 1 .. n
    PROVE  j \in 1 .. n * s
<1>1. PICK x \in Nat, k \in 1 .. s : PlaceAt(j, s, x, k)
  BY PlaceNumbers, Zenon
<1>2. PICK q \in 1 .. n : q = x + 1
  BY <1>1, Zenon DEF PlaceAt
<1>3. (q - 1) * s + k \in 1 .. n * s
  BY RowInRange
<1>4. q - 1 = x
  BY <1>2
<1>5. j = x * s + k
  BY <1>1, Zenon DEF PlaceAt
<1> QED
  BY <1>3, <1>4, <1>5

LEMMA FirstDiffer ==
    ASSUME NEW n \in Nat, NEW s \in Nat \ {0}, NEW m \in Nat, NEW responses, NEW scores, Runs(responses, m, s),
           NEW i \in 1 .. n * s, i \in 1 .. m * s, Differs(responses, scores, m * s, i)
    PROVE  Differs(responses, scores, n * s, i)
<1>1. PICK j \in 1 .. m * s : responses[j].prompt = responses[i].prompt /\ scores[j].score # scores[i].score
  BY DEF Differs
<1>2. SourceRow(j, s) = SourceRow(i, s)
  BY <1>1 DEF Runs, OneRun
<1>3. SourceRow(i, s) \in 1 .. n
  <2>1. n * s = s * n
    OBVIOUS
  <2> QED
    BY <2>1, SourceInRange
<1>4. j \in 1 .. n * s
  BY <1>2, <1>3, RunEnd
<1> QED
  BY <1>1, <1>4 DEF Differs

\* What the step's batch is cut from.
LEMMA AlignedKept ==
    ASSUME NEW c, Sizes(c), NEW n \in Nat, NEW a, NEW first \in Nat, NEW last \in Nat, NEW all,
           KeptInv(all, n, c, first, last, a), c.filterGroups => c.prompts <= n, ~c.filterGroups => n = c.genPrompts,
           NEW data, data = IF c.filterGroups THEN FirstRows(all, c.prompts * c.samples) ELSE all
    PROVE  /\ Told(data, StepSize(c), c, a) /\ DOMAIN data = NewColumns(c, "filter")
           /\ Whole(data["responses"], data["uid"], StepSize(c), c.samples)
           /\ c.filterGroups => Qualifies(data, c, first)
<1>1. PICK s, g \in Nat \ {0} : s = c.samples /\ g = c.genPrompts
  BY DEF Sizes
<1>2. PICK w \in Nat : w = (IF c.filterGroups THEN c.prompts ELSE c.genPrompts) /\ w <= n /\ StepSize(c) = w * s
  BY <1>1 DEF Sizes, StepSize, BatchSize
<1>3. PICK m, z \in Nat : m = n * s /\ z = w * s
  OBVIOUS
<1>4. z <= m
  <2>1. PICK d \in Nat : n = w + d
    <3>1. n - w \in Nat /\ n = w + (n - w)
      BY <1>2
    <3> QED
      BY <3>1
  <2>2. n * s = w * s + d * s /\ d * s \in Nat
    BY <2>1
  <2> QED
    BY <1>3, <2>2
<1>5. /\ Told(all, m, c, a) /\ Table(all, m) /\ DOMAIN all = NewColumns(c, "filter")
      /\ {"responses", "uid", "token_level_scores"} \subseteq DOMAIN all
  BY <1>1, <1>3 DEF KeptInv, Told, NewColumns
<1>6. /\ Told(data, z, c, a) /\ DOMAIN data = DOMAIN all
      /\ \A col \in DOMAIN all, i \in 1 .. z : data[col][i] = all[col][i]
  <2>1. CASE c.filterGroups
    <3> DEFINE index == [i \in 1 .. z |-> i]
    <3>1. Selects(index, z, m) /\ \A i \in 1 .. z : index[i] = i
      BY <1>4 DEF Selects
    <3>2. data = Take(all, index)
      <4>1. z = c.prompts * c.samples
        BY <1>1, <1>2, <1>3, <2>1
      <4> QED
        BY <2>1, <4>1 DEF FirstRows
    <3> HIDE DEF index
    <3>3. Told(data, z, c, a)
      BY <1>5, <3>1, <3>2, TakeTold
    <3>4. RowsAt(data, all, index, z)
      BY <1>5, <3>1, <3>2, TakeTable
    <3> QED
      BY <3>1, <3>3, <3>4 DEF RowsAt
  <2>2. CASE ~c.filterGroups
    <3>1. data = all /\ z = m
      BY <1>2, <1>3, <2>2
    <3> QED
      BY <1>5, <3>1
  <2> QED
    BY <2>1, <2>2
<1>7. /\ Runs(all["responses"], n, s) /\ Named(all["uid"], all["responses"], n * s, g)
      /\ OfBatches(all["responses"], n * s, g, first, last)
  BY <1>1 DEF KeptInv, Grouped
<1>8. Whole(all["responses"], all["uid"], w * s, s)
  BY <1>2, <1>7, RunsWhole
<1>9. Whole(data["responses"], data["uid"], z, s)
  <2> DEFINE index == [i \in 1 .. z |-> i]
  <2>1. Order(index, z) /\ \A i \in 1 .. z : index[i] = i
    BY DEF Order, Selects
  <2> HIDE DEF index
  <2>2. \A i \in 1 .. z : /\ data["responses"][i] = all["responses"][index[i]]
                          /\ data["uid"][i] = all["uid"][index[i]]
    BY <1>5, <1>6, <2>1
  <2>3. Whole(all["responses"], all["uid"], z, s)
    BY <1>3, <1>8
  <2> QED
    BY <2>1, <2>2, <2>3, ReorderedWhole
<1>10. ASSUME c.filterGroups PROVE Qualifies(data, c, first)
  <2>1. ASSUME s > 1, NEW i \in 1 .. z PROVE Differs(data["responses"], data["token_level_scores"], z, i)
    <3>1. i \in 1 .. m
      BY <1>4
    <3>2. c.samples > 1
      BY <1>1, <2>1
    <3>3. AllDiffer(all, n * c.samples)
      BY <1>10, <3>2 DEF KeptInv
    <3>4. i \in 1 .. n * s /\ i \in 1 .. w * s
      BY <1>3, <3>1
    <3>5. Differs(all["responses"], all["token_level_scores"], n * s, i)
      BY <1>1, <3>3, <3>4 DEF AllDiffer
    <3>6. Differs(all["responses"], all["token_level_scores"], w * s, i)
      BY <1>7, <3>4, <3>5, FirstDiffer
    <3>7. PICK j \in 1 .. z : /\ all["responses"][j].prompt = all["responses"][i].prompt
                              /\ all["token_level_scores"][j].score # all["token_level_scores"][i].score
      BY <1>3, <3>6 DEF Differs
    <3> QED
      BY <1>5, <1>6, <3>7 DEF Differs
  <2>2. ASSUME NEW i \in 1 .. z PROVE data["responses"][i].prompt > first * g
    <3>1. i \in 1 .. n * s
      BY <1>3, <1>4
    <3>2. all["responses"][i].prompt \in first * g + 1 .. last * g
      BY <1>7, <3>1 DEF OfBatches
    <3>3. PICK x, y \in Nat : x = first * g /\ y = last * g
      OBVIOUS
    <3>4. all["responses"][i].prompt > x
      BY <3>2, <3>3
    <3> QED
      BY <1>5, <1>6, <3>3, <3>4
  <2> QED
    BY <1>1, <1>2, <1>3, <2>1, <2>2 DEF Qualifies, AllDiffer
<1> QED
  BY <1>1, <1>2, <1>3, <1>5, <1>6, <1>9, <1>10

LEMMA AlignNow ==
    ASSUME StepInv, SampInv, Plain, Sampled(config), Align, NEW data, data = Aligned(kept)
    PROVE  /\ config \in Configs /\ Sizes(config) /\ StepSize(config) \in Nat \ {0}
           /\ Told(data, StepSize(config), config, actor) /\ DOMAIN data = NewColumns(config, "filter")
           /\ Whole(data["responses"], data["uid"], StepSize(config), config.samples)
           /\ config.filterGroups => Qualifies(data, config, First)
           /\ Extended(batch', data, StepSize(config), "response_mask", data["attention_mask"])
           /\ batch' = Put(data, "response_mask", data["attention_mask"])
<1>1. config \in Configs /\ taken \in Nat /\ pc = "align" /\ batch' = Put(data, "response_mask", data["attention_mask"])
  BY DEF StepInv, Align
<1>2. Sizes(config) /\ StepSize(config) \in Nat \ {0}
  BY <1>1, SizesOfConfig, SizeNumber
<1>3. First \in Nat
  BY <1>1 DEF SampInv, First
<1>4. PICK n \in Nat : /\ n = IF config.filterGroups THEN num_prompt_in_batch ELSE config.genPrompts
                       /\ config.filterGroups => config.prompts <= n
  BY <1>1, <1>2 DEF SampInv, Sizes
<1>5. KeptInv(kept, n, config, First, taken, actor)
  BY <1>1, <1>4 DEF SampInv
<1>6. data = IF config.filterGroups THEN FirstRows(kept, config.prompts * config.samples) ELSE kept
  BY DEF Aligned
<1>7. /\ Told(data, StepSize(config), config, actor) /\ DOMAIN data = NewColumns(config, "filter")
      /\ Whole(data["responses"], data["uid"], StepSize(config), config.samples)
      /\ config.filterGroups => Qualifies(data, config, First)
  <2>1. ~config.filterGroups => n = config.genPrompts
    BY <1>4
  <2> QED
    BY <1>1, <1>2, <1>3, <1>4, <1>5, <1>6, <2>1, AlignedKept
<1>8. Table(data, StepSize(config)) /\ IsList(data["attention_mask"], StepSize(config))
  BY <1>7 DEF Told, Table
<1>9. Extended(Put(data, "response_mask", data["attention_mask"]), data, StepSize(config), "response_mask",
               data["attention_mask"])
  BY <1>8, PutTable
<1> QED
  BY <1>1, <1>2, <1>7, <1>9

LEMMA AlignStep ==
    ASSUME StepInv, SampInv, Plain, Sampled(config), Align
    PROVE  StepInv'
<1>1. PICK data : data = Aligned(kept)
  OBVIOUS
<1> DEFINE n == StepSize(config)
<1>2. /\ config \in Configs /\ Told(data, n, config, actor) /\ DOMAIN data = NewColumns(config, "filter")
      /\ Whole(data["responses"], data["uid"], n, config.samples)
      /\ Extended(batch', data, n, "response_mask", data["attention_mask"])
      /\ batch' = Put(data, "response_mask", data["attention_mask"])
  BY <1>1, AlignNow
<1>3. pc' = "balance" /\ UNCHANGED <<config, taken, reward, actor>>
  BY DEF Align
<1>4. IsList(data["attention_mask"], n)
  BY <1>2 DEF Told, Table
<1>5. \A i \in 1 .. n : CellTold("response_mask", data["attention_mask"][i], data["responses"][i], config, actor)
  BY DEF CellTold, AboutResponse
<1>6. Told(batch', n, config, actor)
  BY <1>2, <1>4, <1>5, PutTold
<1>7. {"responses", "uid"} \subseteq DOMAIN data
  BY <1>2 DEF Told
<1>8. Whole(batch'["responses"], batch'["uid"], n, config.samples)
  BY <1>2, <1>7 DEF Extended
<1>9. Present(DOMAIN batch', "balance", config)
  <2>1. ~config.teacher /\ ~config.gopdRef /\ config.estimator \notin {"GAE", "GOPD"}
    BY <1>2, ConfigsAssumption, DapoAssumption DEF Sampled
  <2>2. DOMAIN batch' = NewColumns(config, "filter") \cup {"response_mask"}
    BY <1>2 DEF Extended
  <2> QED
    BY <2>1, <2>2 DEF NewColumns, Answering, Masks, Present, ScoresCome, Later, BeforeValues, BeforeGopd, BeforeTeacher,
                      BeforeReference, BeforeOld, BeforeScores
<1>10. Size(config, "balance") = n
  BY DEF Size, NewPhases
<1>11. RowsInv(batch', "balance", config, actor)
  BY <1>6, <1>8, <1>9, <1>10 DEF RowsInv
<1>12. pc' \in RowPhases
  BY <1>3 DEF RowPhases, BeforeValues, BeforeGopd, BeforeTeacher, BeforeReference, BeforeOld, BeforeScores
<1> QED
  BY <1>3, <1>11, <1>12, RowsStep

\* Whole groups chosen of g, one after the other: the x-th is the e[x]-th.
ChosenRuns(index, e, q, s) == index = [i \in 1 .. q * s |-> (e[SourceRow(i, s)] - 1) * s + 1 + ((i - 1) % s)]
RunAt(index, e, q, s, g, i) ==
    /\ SourceRow(i, s) \in 1 .. q /\ e[SourceRow(i, s)] \in 1 .. g
    /\ index[i] \in 1 .. g * s
    /\ SourceRow(index[i], s) = e[SourceRow(i, s)]
    /\ (index[i] - 1) % s = (i - 1) % s
LEMMA ChosenRunAt ==
    ASSUME NEW s \in Nat \ {0}, NEW g \in Nat, NEW q \in Nat, NEW e, \A x \in 1 .. q : e[x] \in 1 .. g,
           NEW index, ChosenRuns(index, e, q, s), NEW i \in 1 .. q * s
    PROVE  RunAt(index, e, q, s, g, i)
<1>1. SourceRow(i, s) \in 1 .. q /\ (i - 1) % s \in 0 .. s - 1
  <2>1. q * s = s * q
    OBVIOUS
  <2> QED
    BY <2>1, SourceInRange
<1>2. PICK x \in 1 .. g : x = e[SourceRow(i, s)]
  BY <1>1
<1>3. PICK k \in 1 .. s : k = 1 + ((i - 1) % s)
  BY <1>1
<1>4. PICK a \in Nat : a = x - 1
  OBVIOUS
<1>5. PICK v : v = a * s + k
  OBVIOUS
<1>6. v \in 1 .. g * s
  <2>1. (x - 1) * s + k \in 1 .. g * s
    BY RowInRange
  <2> QED
    BY <1>4, <1>5, <2>1
<1>7. SourceRow(v, s) = a + 1 /\ (v - 1) % s = k - 1
  BY <1>5, SourceRowOf
<1>8. index[i] = v
  <2>1. index[i] = (e[SourceRow(i, s)] - 1) * s + 1 + ((i - 1) % s)
    BY DEF ChosenRuns
  <2>2. PICK p \in Nat : p = (i - 1) % s
    BY <1>1
  <2>3. PICK z \in Nat : z = a * s
    OBVIOUS
  <2>4. index[i] = z + 1 + p
    BY <1>2, <1>4, <2>1, <2>2, <2>3
  <2>5. v = z + k /\ k = 1 + p
    BY <1>3, <1>5, <2>2, <2>3
  <2> QED
    BY <2>4, <2>5
<1>9. SourceRow(v, s) = x /\ (v - 1) % s = (i - 1) % s
  <2>1. a + 1 = x
    BY <1>4
  <2>2. k - 1 = (i - 1) % s
    BY <1>1, <1>3
  <2> QED
    BY <1>7, <2>1, <2>2
<1> QED
  BY <1>1, <1>2, <1>6, <1>8, <1>9 DEF RunAt

\* A loop that goes over the rows appends them so, where all of a group or none
\* of it is in S.
RunsIn(S, s, m) == \A i, j \in 1 .. m : SourceRow(i, s) = SourceRow(j, s) => (i \in S <=> j \in S)
HeadsIn(S, s, g) == {x \in 1 .. g : (x - 1) * s + 1 \in S}
LEMMA ChosenRises ==
    ASSUME NEW s \in Nat \ {0}, NEW g \in Nat, NEW q \in Nat, NEW e, \A x \in 1 .. q : e[x] \in 1 .. g,
           \A x, y \in 1 .. q : x < y => e[x] < e[y],
           NEW index, ChosenRuns(index, e, q, s), NEW i \in 1 .. q * s, NEW j \in 1 .. q * s, i < j
    PROVE  index[i] < index[j]
<1>1. RunAt(index, e, q, s, g, i) /\ RunAt(index, e, q, s, g, j)
  BY ChosenRunAt
<1>2. PICK a \in Nat, k \in 1 .. s : PlaceAt(i, s, a, k)
  BY PlaceNumbers, Zenon
<1>3. PICK b \in Nat, l \in 1 .. s : PlaceAt(j, s, b, l)
  BY PlaceNumbers, Zenon
<1>4. PICK v \in 1 .. g * s : v = index[i] /\ SourceRow(v, s) = e[a + 1] /\ (v - 1) % s = k - 1
  BY <1>1, <1>2, Zenon DEF RunAt, PlaceAt
<1>5. PICK w \in 1 .. g * s : w = index[j] /\ SourceRow(w, s) = e[b + 1] /\ (w - 1) % s = l - 1
  BY <1>1, <1>3, Zenon DEF RunAt, PlaceAt
<1>6. PICK c \in Nat, k1 \in 1 .. s : PlaceAt(v, s, c, k1)
  BY PlaceNumbers, Zenon
<1>7. PICK d \in Nat, l1 \in 1 .. s : PlaceAt(w, s, d, l1)
  BY PlaceNumbers, Zenon
<1>8. c + 1 = e[a + 1] /\ k1 - 1 = k - 1 /\ d + 1 = e[b + 1] /\ l1 - 1 = l - 1
  BY <1>4, <1>5, <1>6, <1>7, Zenon DEF PlaceAt
<1>9. k1 = k /\ l1 = l
  BY <1>8
<1>10. a + 1 \in 1 .. q /\ b + 1 \in 1 .. q
  BY <1>1, <1>2, <1>3, Zenon DEF RunAt, PlaceAt
<1>11. i = a * s + k /\ j = b * s + l
  BY <1>2, <1>3, Zenon DEF PlaceAt
<1>12. v = c * s + k /\ w = d * s + l
  BY <1>6, <1>7, <1>9, Zenon DEF PlaceAt
<1>13. ASSUME NEW x \in Nat, NEW y \in Nat, x < y PROVE x * s + s <= y * s
  <2>1. PICK z \in Nat : y = x + 1 + z
    <3>1. y - x - 1 \in Nat /\ y = x + 1 + (y - x - 1)
      BY <1>13
    <3> QED
      BY <3>1
  <2>2. y * s = x * s + s + z * s /\ z * s \in Nat /\ x * s \in Nat
    BY <2>1
  <2> QED
    BY <2>2
<1>14. PICK as, bs, cs, ds \in Nat : as = a * s /\ bs = b * s /\ cs = c * s /\ ds = d * s
  OBVIOUS
<1>15. ~(b < a)
  BY <1>11, <1>13, <1>14
<1>16. CASE a = b
  <2>1. k < l
    BY <1>11, <1>14, <1>16
  <2>2. c = d
    BY <1>8, <1>16
  <2> QED
    BY <1>4, <1>5, <1>12, <1>14, <2>1, <2>2
<1>17. CASE a < b
  <2>1. e[a + 1] < e[b + 1]
    <3>1. a + 1 < b + 1
      BY <1>17
    <3> QED
      BY <1>10, <3>1
  <2>2. c < d
    BY <1>8, <2>1
  <2>3. cs + s <= ds
    BY <1>13, <1>14, <2>2
  <2> QED
    BY <1>4, <1>5, <1>12, <1>14, <2>3
<1> QED
  BY <1>15, <1>16, <1>17

LEMMA ChosenInOrder ==
    ASSUME NEW s \in Nat \ {0}, NEW g \in Nat, NEW S, RunsIn(S, s, g * s),
           NEW q \in Nat, NEW e, Enumerates(e, q, HeadsIn(S, s, g), g), NEW index, ChosenRuns(index, e, q, s)
    PROVE  InOrder(S, g * s) = index /\ Enumerates(index, q * s, S, g * s)
<1>1. PICK m \in Nat : m = g * s
  OBVIOUS
<1>2. PICK l \in Nat : l = q * s
  OBVIOUS
<1>3. /\ \A x \in 1 .. q : e[x] \in 1 .. g /\ e[x] \in HeadsIn(S, s, g)
      /\ \A x, y \in 1 .. q : x < y => e[x] < e[y]
      /\ \A x \in 1 .. g : x \in HeadsIn(S, s, g) => \E y \in 1 .. q : e[y] = x
  BY DEF Enumerates
<1>4. \A i \in 1 .. l : RunAt(index, e, q, s, g, i)
  BY <1>2, <1>3, ChosenRunAt
<1>5. ASSUME NEW x \in 1 .. g, NEW v \in 1 .. m, SourceRow(v, s) = x PROVE v \in S <=> x \in HeadsIn(S, s, g)
  <2>1. PICK a \in Nat : a = x - 1
    OBVIOUS
  <2>2. PICK w : w = a * s + 1
    OBVIOUS
  <2>3. 1 \in 1 .. s
    OBVIOUS
  <2>4. SourceRow(w, s) = a + 1
    BY <2>2, <2>3, SourceRowOf
  <2>5. (x - 1) * s + 1 \in 1 .. g * s
    BY <2>3, RowInRange
  <2>6. w = (x - 1) * s + 1 /\ w \in 1 .. m /\ a + 1 = x
    BY <1>1, <2>1, <2>2, <2>5
  <2>7. v \in S <=> w \in S
    BY <1>1, <1>5, <2>4, <2>6 DEF RunsIn
  <2> QED
    BY <2>6, <2>7 DEF HeadsIn
<1>6. \A i \in 1 .. l : index[i] \in 1 .. m /\ index[i] \in S
  <2> SUFFICES ASSUME NEW i \in 1 .. l PROVE index[i] \in 1 .. m /\ index[i] \in S
    OBVIOUS
  <2>1. PICK x \in 1 .. g : x = e[SourceRow(i, s)] /\ x \in HeadsIn(S, s, g)
    BY <1>3, <1>4 DEF RunAt
  <2>2. PICK v \in 1 .. m : v = index[i] /\ SourceRow(v, s) = x
    BY <1>1, <1>4, <2>1 DEF RunAt
  <2> QED
    BY <1>5, <2>1, <2>2
<1>7. \A i, j \in 1 .. l : i < j => index[i] < index[j]
  BY <1>2, <1>3, ChosenRises
<1>8. ASSUME NEW v \in 1 .. m, v \in S PROVE \E i \in 1 .. l : index[i] = v
  <2>1. PICK a \in Nat, k \in 1 .. s : PlaceAt(v, s, a, k)
    BY <1>1, PlaceNumbers, Zenon
  <2>2. a + 1 \in 1 .. g
    <3>1. v \in 1 .. s * g
      BY <1>1
    <3>2. SourceRow(v, s) \in 1 .. g
      BY <3>1, SourceInRange
    <3> QED
      BY <2>1, <3>2, Zenon DEF PlaceAt
  <2>3. SourceRow(v, s) = a + 1 /\ (v - 1) % s = k - 1
    BY <2>1, Zenon DEF PlaceAt
  <2>4. PICK y \in 1 .. q : e[y] = a + 1
    BY <1>3, <1>5, <1>8, <2>2, <2>3
  <2>5. PICK b \in Nat : b = y - 1
    OBVIOUS
  <2>6. PICK i : i = b * s + k
    OBVIOUS
  <2>7. SourceRow(i, s) = b + 1 /\ (i - 1) % s = k - 1
    BY <2>6, SourceRowOf
  <2>8. i \in 1 .. l
    <3>1. (y - 1) * s + k \in 1 .. q * s
      BY RowInRange
    <3> QED
      BY <1>2, <2>5, <2>6, <3>1
  <2>9. b + 1 = y
    BY <2>5
  <2>10. index[i] \in 1 .. m /\ SourceRow(index[i], s) = a + 1 /\ (index[i] - 1) % s = k - 1
    BY <1>1, <1>4, <2>4, <2>7, <2>8, <2>9 DEF RunAt
  <2>11. PICK w \in 1 .. g * s : w = index[i]
    BY <1>1, <2>10
  <2>12. w = v
    <3>1. v \in 1 .. g * s
      BY <1>1
    <3>2. SourceRow(w, s) = SourceRow(v, s) /\ (w - 1) % s = (v - 1) % s
      BY <2>3, <2>10, <2>11
    <3> QED
      BY <3>1, <3>2, SamePlace
  <2> QED
    BY <2>8, <2>11, <2>12
<1>9. index \in [1 .. l -> Nat]
  <2>1. DOMAIN index = 1 .. l /\ index = [i \in 1 .. l |-> index[i]]
    BY <1>2 DEF ChosenRuns
  <2>2. \A i \in 1 .. l : index[i] \in Nat
    BY <1>6
  <2> QED
    BY <2>1, <2>2
<1>10. Enumerates(index, l, S, m)
  BY <1>6, <1>7, <1>8, <1>9 DEF Enumerates
<1>11. Appended(S, m) = index
  BY <1>10, EnumeratedAppended
<1> QED
  BY <1>1, <1>2, <1>10, <1>11, InOrderAppended

\* The groups of the new batch are its runs, and all of a group is kept or none.
ScoresOfGroup(data, i) == {data["token_level_scores"][j].score : j \in Group(data, i)}
MixedRows(data) ==
    {i \in 1 .. Rows(data) : Cardinality(ScoresOfGroup(data, i)) > 1 \/ Cardinality(Group(data, i)) = 1}
LEMMA QualifiedInOrder == \A data : Qualified(data) = InOrder(MixedRows(data), Rows(data))
  BY DEF Qualified, MixedRows, ScoresOfGroup

RunOf(i, s, m) == {j \in 1 .. m : SourceRow(j, s) = SourceRow(i, s)}
LEMMA GroupsAreRuns ==
    ASSUME NEW s \in Nat \ {0}, NEW g \in Nat \ {0}, NEW m \in Nat, m = g * s, NEW data, Table(data, m),
           NEW first \in Nat, NEW last \in Nat, Runs(data["responses"], g, s),
           Named(data["uid"], data["responses"], m, g), OfBatches(data["responses"], m, g, first, last)
    PROVE  /\ \A i, j \in 1 .. m : data["uid"][i] = data["uid"][j] <=> SourceRow(i, s) = SourceRow(j, s)
           /\ \A i \in 1 .. m : Group(data, i) = RunOf(i, s, m)
           /\ RunsIn(MixedRows(data), s, m)
<1>1. Rows(data) = m
  BY TableRows
<1>2. Whole(data["responses"], data["uid"], m, s)
  BY RunsWhole
<1>3. \A i, j \in 1 .. m : data["uid"][i] = data["uid"][j] <=> SourceRow(i, s) = SourceRow(j, s)
  <2> SUFFICES ASSUME NEW i \in 1 .. m, NEW j \in 1 .. m
               PROVE  data["uid"][i] = data["uid"][j] <=> SourceRow(i, s) = SourceRow(j, s)
    OBVIOUS
  <2>1. Alone(data["responses"], data["uid"], i, j)
    BY <1>2 DEF Whole
  <2>2. OneRun(data["responses"], i, j, s)
    BY DEF Runs
  <2> QED
    BY <2>1, <2>2 DEF Alone, OneRun
<1>4. \A i \in 1 .. m : Group(data, i) = RunOf(i, s, m)
  BY <1>1, <1>3 DEF Group, RunOf
<1>5. RunsIn(MixedRows(data), s, m)
  <2> SUFFICES ASSUME NEW i \in 1 .. m, NEW j \in 1 .. m, SourceRow(i, s) = SourceRow(j, s)
               PROVE  i \in MixedRows(data) <=> j \in MixedRows(data)
    BY DEF RunsIn
  <2>1. Group(data, i) = Group(data, j)
    BY <1>4 DEF RunOf
  <2> QED
    BY <1>1, <2>1 DEF MixedRows, ScoresOfGroup
<1> QED
  BY <1>3, <1>4, <1>5

\* A kept response of several has one that scores otherwise.
LEMMA MixedDiffers ==
    ASSUME NEW s \in Nat \ {0}, s > 1, NEW g \in Nat \ {0}, NEW m \in Nat, m = g * s, NEW data, Table(data, m),
           NEW v \in 1 .. m, v \in MixedRows(data), Group(data, v) = RunOf(v, s, m)
    PROVE  \E j \in 1 .. m : /\ SourceRow(j, s) = SourceRow(v, s)
                             /\ data["token_level_scores"][j].score # data["token_level_scores"][v].score
<1> DEFINE score(j) == data["token_level_scores"][j].score
           scores == ScoresOfGroup(data, v)
<1>1. v \in RunOf(v, s, m)
  BY DEF RunOf
<1>2. Cardinality(Group(data, v)) # 1
  <2>1. SUFFICES ASSUME Cardinality(RunOf(v, s, m)) = 1 PROVE FALSE
    BY <1>1
  <2>2. IsFiniteSet(RunOf(v, s, m))
    <3>1. IsFiniteSet(1 .. m)
      BY FS_Interval
    <3>2. RunOf(v, s, m) \subseteq 1 .. m
      BY DEF RunOf
    <3> QED
      BY <3>1, <3>2, FS_Subset
  <2>3. PICK x : RunOf(v, s, m) = {x}
    BY <2>1, <2>2, FS_Singleton
  <2>4. PICK a \in Nat, k \in 1 .. s : PlaceAt(v, s, a, k)
    BY PlaceNumbers, Zenon
  <2>5. PICK l \in 1 .. s : l # k
    <3>1. 1 \in 1 .. s /\ 2 \in 1 .. s
      OBVIOUS
    <3> QED
      BY <3>1
  <2>6. PICK j : j = a * s + l
    OBVIOUS
  <2>7. SourceRow(j, s) = a + 1 /\ (j - 1) % s = l - 1
    BY <2>6, SourceRowOf
  <2>8. SourceRow(v, s) = a + 1 /\ (v - 1) % s = k - 1
    BY <2>4, Zenon DEF PlaceAt
  <2>9. j \in 1 .. m
    <3>1. SourceRow(v, s) \in 1 .. g
      <4>1. v \in 1 .. s * g
        OBVIOUS
      <4> QED
        BY <4>1, SourceInRange
    <3>2. PICK y \in 1 .. g : y = a + 1
      BY <2>8, <3>1
    <3>3. (y - 1) * s + l \in 1 .. g * s
      BY RowInRange
    <3>4. y - 1 = a
      BY <3>2
    <3> QED
      BY <2>6, <3>3, <3>4
  <2>10. j \in RunOf(v, s, m)
    BY <2>7, <2>8, <2>9 DEF RunOf
  <2>11. j = v
    BY <1>1, <2>3, <2>10
  <2>12. l - 1 = k - 1
    BY <2>7, <2>8, <2>11
  <2> QED
    BY <2>5, <2>12
<1>3. Cardinality(scores) > 1
  BY <1>2 DEF MixedRows
<1>4. scores = {score(j) : j \in RunOf(v, s, m)}
  BY DEF ScoresOfGroup
<1>5. ASSUME \A j \in RunOf(v, s, m) : score(j) = score(v) PROVE FALSE
  <2>1. scores = {score(v)}
    BY <1>1, <1>4, <1>5
  <2>2. Cardinality(scores) = 1
    <3> HIDE DEF scores, score
    <3> QED
      BY <2>1, FS_Singleton
  <2> QED
    BY <1>3, <2>2
<1>6. PICK j \in RunOf(v, s, m) : score(j) # score(v)
  BY <1>5
<1> QED
  BY <1>6 DEF RunOf

\* What is kept of a new batch: q of its prompts, with their responses.
Picked(index, e, q, s, g) ==
    /\ \A x \in 1 .. q : e[x] \in 1 .. g
    /\ \A x, y \in 1 .. q : x < y => e[x] < e[y]
    /\ ChosenRuns(index, e, q, s)
LEMMA PickedOnce ==
    ASSUME NEW g \in Nat, NEW q \in Nat, NEW e, \A x \in 1 .. q : e[x] \in 1 .. g,
           \A x, y \in 1 .. q : x < y => e[x] < e[y], NEW x \in 1 .. q, NEW y \in 1 .. q, e[x] = e[y]
    PROVE  x = y
<1>1. e[x] \in 1 .. g /\ e[y] \in 1 .. g
  OBVIOUS
<1>2. ~(x < y) /\ ~(y < x)
  BY <1>1
<1> QED
  BY <1>2

LEMMA PickedRuns ==
    ASSUME NEW s \in Nat \ {0}, NEW g \in Nat \ {0}, NEW q \in Nat, NEW e, NEW index, Picked(index, e, q, s, g),
           NEW responses, Runs(responses, g, s), NEW r, \A i \in 1 .. q * s : r[i] = responses[index[i]]
    PROVE  Runs(r, q, s)
<1>1. \A i \in 1 .. q * s : RunAt(index, e, q, s, g, i)
  BY ChosenRunAt DEF Picked
<1>2. ASSUME NEW i \in 1 .. q * s PROVE r[i].sample = 1 + ((i - 1) % s)
  <2>1. index[i] \in 1 .. g * s /\ (index[i] - 1) % s = (i - 1) % s
    BY <1>1 DEF RunAt
  <2>2. responses[index[i]].sample = 1 + ((index[i] - 1) % s)
    BY <2>1 DEF Runs
  <2> QED
    BY <2>1, <2>2
<1>3. ASSUME NEW i \in 1 .. q * s, NEW j \in 1 .. q * s PROVE OneRun(r, i, j, s)
  <2>1. PICK x, y \in 1 .. q : x = SourceRow(i, s) /\ y = SourceRow(j, s)
    BY <1>1 DEF RunAt
  <2>2. PICK v, w \in 1 .. g * s : v = index[i] /\ w = index[j] /\ SourceRow(v, s) = e[x] /\ SourceRow(w, s) = e[y]
    BY <1>1, <2>1 DEF RunAt
  <2>3. OneRun(responses, v, w, s)
    BY DEF Runs
  <2>4. e[x] = e[y] <=> x = y
    BY PickedOnce DEF Picked
  <2>5. r[i].prompt = r[j].prompt <=> x = y
    BY <2>2, <2>3, <2>4 DEF OneRun
  <2> QED
    BY <2>1, <2>5 DEF OneRun
<1> QED
  BY <1>2, <1>3 DEF Runs

\* As many uids as prompts.
LEMMA PickedUids ==
    ASSUME NEW s \in Nat \ {0}, NEW g \in Nat \ {0}, NEW q \in Nat, NEW e, NEW index, Picked(index, e, q, s, g),
           NEW uid, \A i, j \in 1 .. g * s : uid[i] = uid[j] <=> SourceRow(i, s) = SourceRow(j, s)
    PROVE  Cardinality({uid[i] : i \in ToSet(index)}) = q
<1>1. \A i \in 1 .. q * s : RunAt(index, e, q, s, g, i)
  BY ChosenRunAt DEF Picked
<1> DEFINE U == {uid[i] : i \in ToSet(index)}
           head(x) == (x - 1) * s + 1
           f == [x \in 1 .. q |-> uid[index[head(x)]]]
<1>2. DOMAIN index = 1 .. q * s
  BY DEF Picked, ChosenRuns
<1>3. ASSUME NEW x \in 1 .. q
      PROVE  head(x) \in 1 .. q * s /\ index[head(x)] \in 1 .. g * s /\ SourceRow(index[head(x)], s) = e[x]
  <2>1. PICK b \in Nat : b = x - 1
    OBVIOUS
  <2>2. PICK i : i = b * s + 1
    OBVIOUS
  <2>3. 1 \in 1 .. s
    OBVIOUS
  <2>4. SourceRow(i, s) = b + 1
    BY <2>2, <2>3, SourceRowOf
  <2>5. head(x) \in 1 .. q * s
    BY <2>3, RowInRange
  <2>6. i = head(x) /\ b + 1 = x
    BY <2>1, <2>2
  <2> HIDE DEF head
  <2> QED
    BY <1>1, <2>4, <2>5, <2>6 DEF RunAt
<1> HIDE DEF head
<1>4. \A x \in 1 .. q : f[x] \in U
  BY <1>2, <1>3 DEF ToSet
<1>5. \A x, y \in 1 .. q : f[x] = f[y] => x = y
  <2> SUFFICES ASSUME NEW x \in 1 .. q, NEW y \in 1 .. q, f[x] = f[y] PROVE x = y
    OBVIOUS
  <2>1. e[x] = e[y]
    BY <1>3
  <2> QED
    BY <2>1, PickedOnce DEF Picked
<1>6. \A u \in U : \E x \in 1 .. q : f[x] = u
  <2> SUFFICES ASSUME NEW i \in 1 .. q * s PROVE \E x \in 1 .. q : f[x] = uid[index[i]]
    BY <1>2 DEF ToSet
  <2>1. PICK x \in 1 .. q : x = SourceRow(i, s)
    BY <1>1 DEF RunAt
  <2>2. index[i] \in 1 .. g * s /\ SourceRow(index[i], s) = e[x]
    BY <1>1, <2>1 DEF RunAt
  <2>3. uid[index[head(x)]] = uid[index[i]]
    BY <1>3, <2>2
  <2> QED
    BY <2>3
<1>7. f \in Bijection(1 .. q, U)
  <2>1. f \in [1 .. q -> U]
    BY <1>4
  <2> HIDE DEF f, U
  <2> QED
    BY <1>5, <1>6, <2>1 DEF Bijection, Injection, Surjection, IsInjective
<1>8. ExistsBijection(1 .. q, U)
  BY <1>7 DEF ExistsBijection
<1> HIDE DEF U
<1>9. Cardinality(U) = q
  BY <1>8, FS_CountingElements
<1> QED
  BY <1>9 DEF U

KeptOf(data, new, q, c, t, a) ==
    /\ KeptInv(new, q, c, t - 1, t, a) /\ q <= c.genPrompts
    /\ Cardinality({data["uid"][i] : i \in ToSet(Qualified(data))}) = q
LEMMA KeptOfNew ==
    ASSUME NEW c, Sizes(c), NEW t \in Nat \ {0}, NEW a, NEW data, Told(data, BatchSize(c), c, a),
           NewInv(data, "filter", c, t), NEW new, new = Take(data, Qualified(data))
    PROVE  \E q \in Nat : KeptOf(data, new, q, c, t, a)
<1>1. PICK s, g \in Nat \ {0} : s = c.samples /\ g = c.genPrompts
  BY DEF Sizes
<1>2. PICK m \in Nat : m = g * s /\ m = BatchSize(c)
  BY <1>1 DEF BatchSize
<1>3. PICK b \in Nat : b = t - 1
  OBVIOUS
<1>4. /\ Told(data, m, c, a) /\ Table(data, m) /\ DOMAIN data = NewColumns(c, "filter")
      /\ {"responses", "uid", "token_level_scores"} \subseteq DOMAIN data
  BY <1>2 DEF NewInv, Told, NewColumns
<1>5. /\ Runs(data["responses"], g, s) /\ Named(data["uid"], data["responses"], m, g)
      /\ OfBatches(data["responses"], m, g, b, t)
  BY <1>1, <1>2, <1>3 DEF NewInv, Grouped
<1>6. Rows(data) = m
  BY <1>4, TableRows
<1>7. /\ \A i, j \in 1 .. m : data["uid"][i] = data["uid"][j] <=> SourceRow(i, s) = SourceRow(j, s)
      /\ \A i \in 1 .. m : Group(data, i) = RunOf(i, s, m)
      /\ RunsIn(MixedRows(data), s, m)
  BY <1>2, <1>4, <1>5, GroupsAreRuns
<1> DEFINE S == MixedRows(data)
           heads == HeadsIn(S, s, g)
<1>8. PICK q \in 0 .. g : Enumerates(Appended(heads, g), q, heads, g)
  BY AppendedEnumerates
<1>9. PICK e : Enumerates(e, q, heads, g)
  BY <1>8
<1>10. PICK l \in Nat : l = q * s
  OBVIOUS
<1> DEFINE index == [i \in 1 .. q * s |-> (e[SourceRow(i, s)] - 1) * s + 1 + ((i - 1) % s)]
<1>11. ChosenRuns(index, e, q, s)
  BY DEF ChosenRuns
<1> HIDE DEF index, S
<1>12. InOrder(S, g * s) = index /\ Enumerates(index, q * s, S, g * s)
  BY <1>2, <1>7, <1>9, <1>11, ChosenInOrder DEF S
<1>13. Qualified(data) = index
  BY <1>2, <1>6, <1>12, QualifiedInOrder DEF S
<1>14. Picked(index, e, q, s, g)
  BY <1>9, <1>11 DEF Picked, Enumerates
<1>15. \A i \in 1 .. l : RunAt(index, e, q, s, g, i)
  BY <1>10, <1>14, ChosenRunAt DEF Picked
<1>16. Selects(index, l, m)
  <2>1. DOMAIN index = 1 .. l
    BY <1>10, <1>11 DEF ChosenRuns
  <2> QED
    BY <1>2, <1>15, <2>1 DEF Selects, RunAt
<1>17. new = Take(data, index)
  BY <1>13
<1>18. Told(new, l, c, a)
  BY <1>4, <1>16, <1>17, TakeTold
<1>19. /\ DOMAIN new = DOMAIN data
       /\ \A col \in DOMAIN data, i \in 1 .. l : new[col][i] = data[col][index[i]]
  BY <1>4, <1>16, <1>17, TakeTable DEF RowsAt
<1>20. \A i \in 1 .. l : /\ index[i] \in 1 .. m /\ new["responses"][i] = data["responses"][index[i]]
                         /\ new["uid"][i] = data["uid"][index[i]]
                         /\ new["token_level_scores"][i] = data["token_level_scores"][index[i]]
  BY <1>4, <1>16, <1>19 DEF Selects
<1>21. Grouped(new, q, c, t - 1, t)
  <2>1. Runs(new["responses"], q, s)
    BY <1>5, <1>10, <1>14, <1>20, PickedRuns
  <2>2. Named(new["uid"], new["responses"], l, g)
    BY <1>5, <1>20 DEF Named
  <2>3. OfBatches(new["responses"], l, g, b, t)
    BY <1>5, <1>20 DEF OfBatches
  <2> QED
    BY <1>1, <1>3, <1>10, <2>1, <2>2, <2>3 DEF Grouped
<1>22. ASSUME s > 1, NEW i \in 1 .. l PROVE Differs(new["responses"], new["token_level_scores"], l, i)
  <2>1. PICK v \in 1 .. m : v = index[i] /\ v \in S
    BY <1>2, <1>10, <1>12, <1>20 DEF Enumerates
  <2>2. Group(data, v) = RunOf(v, s, m)
    BY <1>7
  <2>3. PICK w \in 1 .. m : /\ SourceRow(w, s) = SourceRow(v, s)
                            /\ data["token_level_scores"][w].score # data["token_level_scores"][v].score
    BY <1>2, <1>4, <1>22, <2>1, <2>2, MixedDiffers DEF S
  <2>4. w \in S
    BY <1>7, <2>1, <2>3 DEF RunsIn, S
  <2>5. PICK j \in 1 .. l : index[j] = w
    BY <1>2, <1>10, <1>12, <2>4 DEF Enumerates
  <2>6. data["responses"][w].prompt = data["responses"][v].prompt
    BY <1>2, <1>5, <2>3 DEF Runs, OneRun
  <2>7. /\ new["responses"][j].prompt = new["responses"][i].prompt
        /\ new["token_level_scores"][j].score # new["token_level_scores"][i].score
    BY <1>20, <2>1, <2>3, <2>5, <2>6
  <2> QED
    BY <2>7 DEF Differs
<1>23. KeptInv(new, q, c, t - 1, t, a)
  BY <1>1, <1>4, <1>10, <1>18, <1>19, <1>21, <1>22 DEF KeptInv, AllDiffer
<1>24. Cardinality({data["uid"][i] : i \in ToSet(Qualified(data))}) = q
  <2>1. \A i, j \in 1 .. g * s : data["uid"][i] = data["uid"][j] <=> SourceRow(i, s) = SourceRow(j, s)
    BY <1>2, <1>7
  <2> QED
    BY <1>13, <1>14, <2>1, PickedUids
<1>25. KeptOf(data, new, q, c, t, a)
  BY <1>1, <1>8, <1>23, <1>24 DEF KeptOf
<1> QED
  BY <1>25

\* Kept prompts with the new ones after them.
Stacked(whole, old, new, k, l) ==
    /\ Table(whole, k + l) /\ DOMAIN whole = DOMAIN old
    /\ \A col \in DOMAIN old, i \in 1 .. k : whole[col][i] = old[col][i]
    /\ \A col \in DOMAIN old, i \in 1 .. l : whole[col][k + i] = new[col][i]
LEMMA TwoStacked ==
    ASSUME NEW k \in Nat, NEW l \in Nat, NEW old, NEW new, Table(old, k), Table(new, l), DOMAIN new = DOMAIN old
    PROVE  Stacked(Concat(<<old, new>>), old, new, k, l)
<1> DEFINE e == [r \in 0 .. 2 |-> IF r = 0 THEN 0 ELSE IF r = 1 THEN k ELSE k + l]
           parts == <<old, new>>
<1>1. e[0] = 0 /\ e[1] = k /\ e[2] = k + l /\ e \in [0 .. 2 -> Nat]
  OBVIOUS
<1>2. parts[1] = old /\ parts[2] = new /\ DOMAIN parts = 1 .. 2
  OBVIOUS
<1> HIDE DEF e, parts
<1>3. \A r \in 1 .. 2 : r = 1 \/ r = 2
  OBVIOUS
<1>4. Ends(e, 2)
  BY <1>1, <1>3 DEF Ends
<1>5. \A r \in 1 .. 2 : Table(parts[r], e[r] - e[r - 1]) /\ DOMAIN parts[r] = DOMAIN old
  <2>1. e[1] - e[1 - 1] = k /\ e[2] - e[2 - 1] = l
    BY <1>1
  <2> QED
    BY <1>2, <1>3, <2>1
<1>6. Table(Concat(parts), e[2]) /\ JoinedParts(Concat(parts), parts, DOMAIN old, e, 2)
  <2>1. PICK two \in Nat \ {0} : two = 2
    OBVIOUS
  <2>2. PICK names : names = DOMAIN old
    OBVIOUS
  <2>3. Ends(e, two) /\ DOMAIN parts = 1 .. two
    BY <1>2, <1>4, <2>1
  <2>4. \A r \in 1 .. two : Table(parts[r], e[r] - e[r - 1]) /\ DOMAIN parts[r] = names
    BY <1>5, <2>1, <2>2
  <2>5. Table(Concat(parts), e[two]) /\ JoinedParts(Concat(parts), parts, names, e, two)
    BY ONLY <2>3, <2>4, two \in Nat \ {0}, ConcatOver
  <2> QED
    BY <2>1, <2>2, <2>5
<1>7. \A col \in DOMAIN old, r \in 1 .. 2 : \A j \in 1 .. e[r] - e[r - 1] :
        Concat(parts)[col][e[r - 1] + j] = parts[r][col][j]
  BY <1>6 DEF JoinedParts
<1>8. \A col \in DOMAIN old, i \in 1 .. k : Concat(parts)[col][i] = old[col][i]
  <2>1. 1 \in 1 .. 2 /\ 1 - 1 = 0 /\ e[1] - e[1 - 1] = k /\ \A i \in 1 .. k : e[1 - 1] + i = i
    BY <1>1
  <2> QED
    BY <1>2, <1>7, <2>1
<1>9. \A col \in DOMAIN old, i \in 1 .. l : Concat(parts)[col][k + i] = new[col][i]
  <2>1. 2 \in 1 .. 2 /\ 2 - 1 = 1 /\ e[2] - e[2 - 1] = l /\ \A i \in 1 .. l : e[2 - 1] + i = k + i
    BY <1>1
  <2> QED
    BY <1>2, <1>7, <2>1
<1>10. Stacked(Concat(parts), old, new, k, l)
  BY <1>1, <1>6, <1>8, <1>9 DEF Stacked, JoinedParts
<1> QED
  BY <1>10 DEF parts

LEMMA StackedPlaces ==
    ASSUME NEW k \in Nat, NEW l \in Nat, NEW i \in 1 .. k + l
    PROVE  i \in 1 .. k \/ \E j \in 1 .. l : i = k + j
<1>1. CASE i <= k
  BY <1>1
<1>2. CASE ~(i <= k)
  <2>1. i - k \in 1 .. l /\ i = k + (i - k)
    BY <1>2
  <2> QED
    BY <2>1
<1> QED
  BY <1>1, <1>2

ShiftedAt(i, j, s, n, q) ==
    SourceRow(i, s) = n + SourceRow(j, s) /\ (i - 1) % s = (j - 1) % s /\ SourceRow(j, s) \in 1 .. q
LEMMA ShiftedRow ==
    ASSUME NEW s \in Nat \ {0}, NEW n \in Nat, NEW q \in Nat, NEW k, k = n * s, NEW j \in 1 .. q * s
    PROVE  ShiftedAt(k + j, j, s, n, q)
<1>1. PICK a \in Nat, z \in 1 .. s : PlaceAt(j, s, a, z)
  BY PlaceNumbers, Zenon
<1>2. j = a * s + z /\ SourceRow(j, s) = a + 1 /\ (j - 1) % s = z - 1
  BY <1>1, Zenon DEF PlaceAt
<1>3. PICK b \in Nat : b = n + a
  OBVIOUS
<1>4. k + j = b * s + z
  BY <1>2, <1>3
<1>5. SourceRow(k + j, s) = b + 1 /\ (k + j - 1) % s = z - 1
  <2>1. PICK i : i = k + j /\ i = b * s + z
    BY <1>4
  <2>2. SourceRow(i, s) = b + 1 /\ (i - 1) % s = z - 1
    BY <2>1, SourceRowOf
  <2>3. k + j - 1 = i - 1
    BY <2>1
  <2> QED
    BY <2>1, <2>2, <2>3
<1>6. SourceRow(j, s) \in 1 .. q
  <2>1. j \in 1 .. s * q
    OBVIOUS
  <2> QED
    BY <2>1, SourceInRange
<1>7. b + 1 = n + (a + 1)
  BY <1>3
<1> QED
  BY <1>2, <1>5, <1>6, <1>7 DEF ShiftedAt

UpTo(r, old, k, b) == \A i \in 1 .. k : r[i] = old[i] /\ old[i].prompt \in Nat /\ old[i].prompt <= b
Beyond(r, new, k, l, b) == \A i \in 1 .. l : r[k + i] = new[i] /\ new[i].prompt \in Nat /\ b < new[i].prompt
LEMMA StackedRuns ==
    ASSUME NEW s \in Nat \ {0}, NEW n \in Nat, NEW q \in Nat, NEW k \in Nat, NEW l \in Nat, k = n * s, l = q * s,
           NEW old, NEW new, NEW r, Runs(old, n, s), Runs(new, q, s), NEW b \in Nat,
           UpTo(r, old, k, b), Beyond(r, new, k, l, b)
    PROVE  Runs(r, n + q, s)
<1> USE DEF UpTo, Beyond
<1>1. (n + q) * s = k + l
  OBVIOUS
<1>2. \A i \in 1 .. k : SourceRow(i, s) \in 1 .. n
  <2>1. k = s * n
    OBVIOUS
  <2> QED
    BY <2>1, SourceInRange
<1>3. \A j \in 1 .. l : ShiftedAt(k + j, j, s, n, q)
  BY ShiftedRow
<1>4. ASSUME NEW i \in 1 .. k + l PROVE r[i].sample = 1 + ((i - 1) % s)
  <2>1. CASE i \in 1 .. k
    BY <2>1 DEF Runs
  <2>2. CASE \E j \in 1 .. l : i = k + j
    <3>1. PICK j \in 1 .. l : i = k + j
      BY <2>2
    <3>2. r[i] = new[j] /\ new[j].sample = 1 + ((j - 1) % s)
      BY <3>1 DEF Runs
    <3>3. (i - 1) % s = (j - 1) % s
      BY <1>3, <3>1, Zenon DEF ShiftedAt
    <3> QED
      BY <3>2, <3>3
  <2> QED
    BY <2>1, <2>2, StackedPlaces
<1>5. ASSUME NEW i \in 1 .. k, NEW j \in 1 .. k PROVE OneRun(r, i, j, s)
  <2>1. OneRun(old, i, j, s)
    BY DEF Runs
  <2> QED
    BY <2>1 DEF OneRun
<1>6. ASSUME NEW i \in 1 .. l, NEW j \in 1 .. l PROVE OneRun(r, k + i, k + j, s)
  <2>1. OneRun(new, i, j, s)
    BY DEF Runs
  <2>2. PICK x, y \in Nat : x = SourceRow(i, s) /\ y = SourceRow(j, s)
    BY <1>3 DEF ShiftedAt
  <2>3. n + x = n + y <=> x = y
    BY <2>2
  <2>4. SourceRow(k + i, s) = n + x /\ SourceRow(k + j, s) = n + y
    BY <1>3, <2>2 DEF ShiftedAt
  <2>5. r[k + i] = new[i] /\ r[k + j] = new[j]
    OBVIOUS
  <2> QED
    BY <2>1, <2>2, <2>3, <2>4, <2>5 DEF OneRun
<1>7. ASSUME NEW i \in 1 .. k, NEW j \in 1 .. l
      PROVE  OneRun(r, i, k + j, s) /\ OneRun(r, k + j, i, s)
  <2>1. r[i].prompt # r[k + j].prompt
    <3>1. PICK x, y \in Nat : x = old[i].prompt /\ y = new[j].prompt /\ x <= b /\ b < y
      OBVIOUS
    <3>2. x # y
      BY <3>1
    <3> QED
      BY <3>1, <3>2
  <2>2. SourceRow(i, s) # SourceRow(k + j, s)
    <3>1. PICK x \in 1 .. n : x = SourceRow(i, s)
      BY <1>2
    <3>2. PICK y \in 1 .. q : y = SourceRow(j, s)
      BY <1>3 DEF ShiftedAt
    <3>3. x # n + y
      OBVIOUS
    <3> QED
      BY <1>3, <3>1, <3>2, <3>3 DEF ShiftedAt
  <2> QED
    BY <2>1, <2>2 DEF OneRun
<1>8. ASSUME NEW i \in 1 .. k + l, NEW j \in 1 .. k + l PROVE OneRun(r, i, j, s)
  <2>1. i \in 1 .. k \/ \E v \in 1 .. l : i = k + v
    BY StackedPlaces
  <2>2. j \in 1 .. k \/ \E v \in 1 .. l : j = k + v
    BY StackedPlaces
  <2> QED
    BY <1>5, <1>6, <1>7, <2>1, <2>2
<1> QED
  BY <1>1, <1>4, <1>8 DEF Runs

\* What is kept is, with more of it, still whole groups of this step's batches.
LEMMA StackedKept ==
    ASSUME NEW c, Sizes(c), NEW a, NEW first \in Nat, NEW t \in Nat \ {0}, first <= t - 1, NEW n \in Nat, NEW q \in Nat,
           NEW old, NEW new, KeptInv(old, n, c, first, t - 1, a), KeptInv(new, q, c, t - 1, t, a)
    PROVE  KeptInv(Concat(<<old, new>>), n + q, c, first, t, a)
<1>1. PICK s, g \in Nat \ {0} : s = c.samples /\ g = c.genPrompts
  BY DEF Sizes
<1>2. PICK k, l \in Nat : k = n * s /\ l = q * s
  OBVIOUS
<1>3. PICK x, y, z \in Nat : x = first * g /\ y = (t - 1) * g /\ z = t * g /\ x <= y /\ y <= z
  <2>1. PICK u, v \in Nat : u = t - 1 /\ t - 1 = first + v
    <3>1. t - 1 \in Nat /\ t - 1 - first \in Nat /\ t - 1 = first + (t - 1 - first)
      OBVIOUS
    <3> QED
      BY <3>1
  <2>2. first * g \in Nat /\ v * g \in Nat /\ u * g = first * g + v * g /\ t * g = u * g + g
    <3>1. u = first + v /\ t = u + 1
      BY <2>1
    <3> QED
      BY <3>1
  <2> QED
    BY <2>1, <2>2
<1> DEFINE whole == Concat(<<old, new>>)
<1>4. /\ Told(old, k, c, a) /\ DOMAIN old = NewColumns(c, "filter") /\ Table(old, k)
      /\ Runs(old["responses"], n, s) /\ Named(old["uid"], old["responses"], k, g)
      /\ \A i \in 1 .. k : old["responses"][i].prompt \in x + 1 .. y
  BY <1>1, <1>2, <1>3 DEF KeptInv, Told, Grouped, OfBatches
<1>5. /\ Told(new, l, c, a) /\ DOMAIN new = NewColumns(c, "filter") /\ Table(new, l)
      /\ Runs(new["responses"], q, s) /\ Named(new["uid"], new["responses"], l, g)
      /\ \A i \in 1 .. l : new["responses"][i].prompt \in y + 1 .. z
  BY <1>1, <1>2, <1>3 DEF KeptInv, Told, Grouped, OfBatches
<1>6. Stacked(whole, old, new, k, l)
  BY <1>4, <1>5, TwoStacked
<1> HIDE DEF whole
<1>7. {"responses", "uid", "token_level_scores"} \subseteq NewColumns(c, "filter")
  BY DEF NewColumns, Answering
<1>8. /\ \A i \in 1 .. k : /\ whole["responses"][i] = old["responses"][i] /\ whole["uid"][i] = old["uid"][i]
                           /\ whole["token_level_scores"][i] = old["token_level_scores"][i]
      /\ \A i \in 1 .. l : /\ whole["responses"][k + i] = new["responses"][i] /\ whole["uid"][k + i] = new["uid"][i]
                           /\ whole["token_level_scores"][k + i] = new["token_level_scores"][i]
  BY <1>4, <1>5, <1>6, <1>7 DEF Stacked
<1>9. (n + q) * s = k + l
  BY <1>2
<1>10. Told(whole, k + l, c, a)
  <2>1. ASSUME NEW col \in DOMAIN whole, NEW i \in 1 .. k + l
        PROVE  CellTold(col, whole[col][i], whole["responses"][i], c, a)
    <3>1. CASE i \in 1 .. k
      BY <1>4, <1>6, <1>8, <3>1 DEF Told, Stacked
    <3>2. CASE \E j \in 1 .. l : i = k + j
      <4>1. PICK j \in 1 .. l : i = k + j
        BY <3>2
      <4>2. CellTold(col, new[col][j], new["responses"][j], c, a)
        BY <1>4, <1>5, <1>6 DEF Told, Stacked
      <4>3. whole[col][i] = new[col][j] /\ whole["responses"][i] = new["responses"][j]
        BY <1>6, <1>8, <4>1 DEF Stacked
      <4> QED
        BY <4>2, <4>3
    <3> QED
      BY <3>1, <3>2, StackedPlaces
  <2>2. Table(whole, k + l) /\ DOMAIN whole = DOMAIN old
    BY <1>6 DEF Stacked
  <2> QED
    BY <1>4, <2>1, <2>2 DEF Told
<1>11. Runs(whole["responses"], n + q, s)
  <2>1. UpTo(whole["responses"], old["responses"], k, y)
    BY <1>3, <1>4, <1>8 DEF UpTo
  <2>2. Beyond(whole["responses"], new["responses"], k, l, y)
    BY <1>3, <1>5, <1>8 DEF Beyond
  <2> QED
    BY <1>2, <1>4, <1>5, <2>1, <2>2, StackedRuns
<1>12. Named(whole["uid"], whole["responses"], k + l, g)
  <2> SUFFICES ASSUME NEW i \in 1 .. k + l PROVE whole["uid"][i] = UidOf(whole["responses"][i].prompt, g)
    BY DEF Named
  <2>1. CASE i \in 1 .. k
    BY <1>4, <1>8, <2>1 DEF Named
  <2>2. CASE \E j \in 1 .. l : i = k + j
    BY <1>5, <1>8, <2>2 DEF Named
  <2> QED
    BY <2>1, <2>2, StackedPlaces
<1>13. OfBatches(whole["responses"], k + l, g, first, t)
  <2> SUFFICES ASSUME NEW i \in 1 .. k + l PROVE whole["responses"][i].prompt \in x + 1 .. z
    BY <1>3 DEF OfBatches
  <2>1. CASE i \in 1 .. k
    BY <1>3, <1>4, <1>8, <2>1
  <2>2. CASE \E j \in 1 .. l : i = k + j
    <3>1. PICK j \in 1 .. l : i = k + j
      BY <2>2
    <3> QED
      BY <1>3, <1>5, <1>8, <3>1
  <2> QED
    BY <2>1, <2>2, StackedPlaces
<1>14. ASSUME c.filterGroups, s > 1, NEW i \in 1 .. k + l
       PROVE  Differs(whole["responses"], whole["token_level_scores"], k + l, i)
  <2>1. AllDiffer(old, k) /\ AllDiffer(new, l)
    BY <1>1, <1>2, <1>14 DEF KeptInv
  <2>2. CASE i \in 1 .. k
    <3>1. PICK j \in 1 .. k : /\ old["responses"][j].prompt = old["responses"][i].prompt
                              /\ old["token_level_scores"][j].score # old["token_level_scores"][i].score
      BY <2>1, <2>2 DEF AllDiffer, Differs
    <3>2. j \in 1 .. k + l
      OBVIOUS
    <3> QED
      BY <1>8, <2>2, <3>1, <3>2 DEF Differs
  <2>3. CASE \E v \in 1 .. l : i = k + v
    <3>1. PICK v \in 1 .. l : i = k + v
      BY <2>3
    <3>2. PICK j \in 1 .. l : /\ new["responses"][j].prompt = new["responses"][v].prompt
                              /\ new["token_level_scores"][j].score # new["token_level_scores"][v].score
      BY <2>1 DEF AllDiffer, Differs
    <3>3. k + j \in 1 .. k + l
      OBVIOUS
    <3> QED
      BY <1>8, <3>1, <3>2, <3>3 DEF Differs
  <2> QED
    BY <2>2, <2>3, StackedPlaces
<1>15. DOMAIN whole = NewColumns(c, "filter")
  BY <1>4, <1>6 DEF Stacked
<1>16. KeptInv(whole, n + q, c, first, t, a)
  BY <1>1, <1>9, <1>10, <1>11, <1>12, <1>13, <1>14, <1>15 DEF KeptInv, Grouped, AllDiffer
<1> QED
  BY <1>16 DEF whole

\* What is of the last batch is of the step's batches.
LEMMA KeptEarlier ==
    ASSUME NEW c, Sizes(c), NEW a, NEW first \in Nat, NEW t \in Nat \ {0}, first <= t - 1, NEW n \in Nat,
           NEW data, KeptInv(data, n, c, t - 1, t, a)
    PROVE  KeptInv(data, n, c, first, t, a)
<1>1. PICK g \in Nat \ {0} : g = c.genPrompts
  BY DEF Sizes
<1>2. PICK x, y, z \in Nat : x = first * g /\ y = (t - 1) * g /\ z = t * g /\ x <= y
  <2>1. PICK u, v \in Nat : u = t - 1 /\ u = first + v
    <3>1. t - 1 \in Nat /\ t - 1 - first \in Nat /\ t - 1 = first + (t - 1 - first)
      OBVIOUS
    <3> QED
      BY <3>1
  <2>2. first * g \in Nat /\ v * g \in Nat /\ u * g = first * g + v * g /\ t * g \in Nat
    BY <2>1
  <2> QED
    BY <2>1, <2>2
<1>3. OfBatches(data["responses"], n * c.samples, g, t - 1, t)
  BY <1>1 DEF KeptInv, Grouped
<1>4. \A i \in 1 .. n * c.samples : data["responses"][i].prompt \in y + 1 .. z
  BY <1>2, <1>3 DEF OfBatches
<1>5. OfBatches(data["responses"], n * c.samples, g, first, t)
  BY <1>2, <1>4 DEF OfBatches
<1> QED
  BY <1>1, <1>5 DEF KeptInv, Grouped

\* Where nothing is sampled or learned, less is claimed;
LEMMA SampQuiet ==
    ASSUME SampInv, UNCHANGED <<config, num_gen_batches, taken>>,
           pc' \in {"failed", "test", "end", "exhausted", "raised", "done"}
    PROVE  SampInv'
<1>1. pc' \notin Generating \cup NewPhases \cup CollectPhases \cup {"align"} \cup StepPhases
  BY DEF Generating, NewPhases, CollectPhases, Between, StepPhases, LearningPhases, RowPhases, BeforeValues,
         BeforeGopd, BeforeTeacher, BeforeReference, BeforeOld, BeforeScores
<1> QED
  BY <1>1 DEF SampInv, Sampled

\* while batches are generated, what is kept stays,
LEMMA SampCollect ==
    ASSUME SampInv, UNCHANGED <<config, loop, taken, actor>>, pc \in CollectPhases, pc' \in CollectPhases,
           pc' \in Between <=> pc \in Between,
           pc' \in NewPhases /\ Sampled(config) => NewInv(batch', pc', config, taken)
    PROVE  SampInv'
<1>1. pc' # "align" /\ pc' \notin StepPhases
  BY DEF Generating, NewPhases, CollectPhases, Between, StepPhases, LearningPhases, RowPhases, BeforeValues,
         BeforeGopd, BeforeTeacher, BeforeReference, BeforeOld, BeforeScores
<1>2. pc \in Generating \cup NewPhases <=> pc' \in Generating \cup NewPhases
  BY DEF Generating, NewPhases, CollectPhases, Between
<1>3. UNCHANGED <<config, kept, num_prompt_in_batch, num_gen_batches, taken, actor>>
  BY DEF loop
<1>4. First' = First
  BY <1>3 DEF First
<1> QED
  BY <1>1, <1>2, <1>3, <1>4 DEF SampInv, Sampled

\* and in a step, that its prompts qualify.
LEMMA SampLearn ==
    ASSUME SampInv, UNCHANGED <<config, loop, taken>>, pc \in {"align"} \cup StepPhases, pc' \in StepPhases,
           Sampled(config) /\ config.filterGroups => Qualifies(batch', config, First)
    PROVE  SampInv'
<1>1. pc' # "align" /\ pc' \notin Generating \cup NewPhases \cup CollectPhases
  BY DEF Generating, NewPhases, CollectPhases, Between, StepPhases, LearningPhases, RowPhases, BeforeValues,
         BeforeGopd, BeforeTeacher, BeforeReference, BeforeOld, BeforeScores
<1>2. UNCHANGED <<config, kept, num_prompt_in_batch, num_gen_batches, taken>>
  BY DEF loop
<1>3. First' = First
  BY <1>2 DEF First
<1> QED
  BY <1>1, <1>2, <1>3 DEF SampInv, Sampled

\* A column more leaves the groups as they are.
LEMMA NewPut ==
    ASSUME NEW c, NEW t, NEW data, NEW here, NEW there, NewInv(data, here, c, t), NEW name, NEW column,
           name \notin {"responses", "uid"}, NewColumns(c, there) = NewColumns(c, here) \cup {name}
    PROVE  NewInv(Put(data, name, column), there, c, t)
<1> DEFINE p == Put(data, name, column)
<1>1. {"responses", "uid"} \subseteq DOMAIN data
  BY DEF NewInv, NewColumns, Answering
<1>2. DOMAIN p = DOMAIN data \cup {name} /\ p["responses"] = data["responses"] /\ p["uid"] = data["uid"]
  BY <1>1 DEF Put
<1> HIDE DEF p
<1> QED
  BY <1>2 DEF NewInv, Grouped, p

LEMMA SampRewardModel ==
    ASSUME StepInv, Plain, Sampled(config), SampInv, RewardModel, UNCHANGED loop
    PROVE  SampInv'
<1>1. \/ pc' = "failed"
      \/ pc = "reward" /\ pc' = "score"
  BY DEF RewardModel, Join, Skip, Fail
<1>2. UNCHANGED <<config, taken, actor>>
  BY DEF RewardModel, Join, Skip, Fail
<1>3. CASE pc' = "failed"
  BY <1>2, <1>3, SampQuiet DEF loop
<1>4. CASE pc = "reward" /\ pc' = "score"
  <2>1. NewInv(batch, "reward", config, taken)
    BY <1>4 DEF SampInv, NewPhases
  <2>2. ASSUME config.rewardModel PROVE NewInv(batch', "score", config, taken)
    <3>1. JoinsColumn("rm_scores")
      BY <1>4, <2>2, RewardModelJoins
    <3>2. PICK column : batch' = Put(batch, "rm_scores", column)
      BY <3>1 DEF JoinsColumn
    <3>3. NewColumns(config, "score") = NewColumns(config, "reward") \cup {"rm_scores"}
      BY <2>2 DEF NewColumns
    <3> QED
      BY <2>1, <3>2, <3>3, NewPut
  <2>3. ASSUME ~config.rewardModel PROVE NewInv(batch', "score", config, taken)
    <3>1. batch' = batch
      BY <2>3 DEF RewardModel, Skip
    <3>2. NewColumns(config, "score") = NewColumns(config, "reward")
      BY <2>3 DEF NewColumns
    <3> QED
      BY <2>1, <3>1, <3>2 DEF NewInv
  <2> QED
    BY <1>2, <1>4, <2>2, <2>3, SampCollect DEF CollectPhases, Between, NewPhases
<1> QED
  BY <1>1, <1>3, <1>4

LEMMA SampScore ==
    ASSUME StepInv, Plain, Sampled(config), SampInv, ScoreNew
    PROVE  SampInv'
<1>1. pc = "score" /\ pc' = "filter" /\ UNCHANGED <<config, taken, actor, loop>>
  BY DEF ScoreNew
<1>2. NewInv(batch, "score", config, taken)
  BY <1>1 DEF SampInv, NewPhases
<1>3. PICK column : batch' = Put(batch, "token_level_scores", column)
  BY ScoreNewStep
<1>4. NewColumns(config, "filter") = NewColumns(config, "score") \cup {"token_level_scores"}
  BY DEF NewColumns
<1>5. NewInv(batch', "filter", config, taken)
  BY <1>2, <1>3, <1>4, NewPut
<1> QED
  BY <1>1, <1>5, SampCollect DEF CollectPhases, Between, NewPhases

LEMMA SampAssemble ==
    ASSUME StepInv, Plain, Sampled(config), SampInv, AssembleNew, UNCHANGED loop
    PROVE  SampInv'
<1>1. \/ /\ pc = "assemble" /\ pc' = "reward" /\ CanUnion(Repeated, out) /\ batch' = Union(Repeated, out)
         /\ UNCHANGED <<config, taken, actor>>
      \/ pc' = "failed" /\ UNCHANGED <<config, taken>>
  BY DEF AssembleNew, AssembleThen, Fail
<1>2. CASE pc' = "failed" /\ UNCHANGED <<config, taken>>
  BY <1>2, SampQuiet DEF loop
<1>3. ASSUME pc = "assemble", pc' = "reward", CanUnion(Repeated, out), batch' = Union(Repeated, out),
             UNCHANGED <<config, taken, actor>>
      PROVE  SampInv'
  <2>1. Assembled(batch', config, taken, actor) /\ DOMAIN batch' = NewColumns(config, "reward")
    BY <1>3, AssembledNew
  <2>2. Sizes(config) /\ taken \in Nat \ {0}
    BY <1>3, GenNow DEF Generating
  <2>3. Grouped(batch', config.genPrompts, config, taken - 1, taken)
    BY <2>1, <2>2, AssembledGroups
  <2>4. NewInv(batch', "reward", config, taken)
    BY <2>1, <2>3 DEF NewInv
  <2> QED
    BY <1>3, <2>4, SampCollect DEF CollectPhases, Generating, Between, NewPhases
<1> QED
  BY <1>1, <1>2, <1>3

\* A batch is taken and generated for.
LEMMA SampGenerate ==
    ASSUME StepInv, Sampled(config), SampInv,
           \/ NextGenBatch \/ Exhausted
           \/ (Generate \/ Baseline) /\ UNCHANGED loop
    PROVE  SampInv'
<1>1. CASE NextGenBatch
  <2>1. /\ pc = "batch" /\ pc' = "generate" /\ taken' = taken + 1 /\ num_gen_batches' = num_gen_batches + 1
        /\ UNCHANGED <<config, kept, num_prompt_in_batch, actor>>
    BY <1>1 DEF NextGenBatch, NextBatch, PopBatch
  <2>2. taken \in Nat /\ num_gen_batches \in Nat /\ num_gen_batches <= taken
    BY DEF StepInv, SampInv
  <2>3. First' = First /\ taken' - 1 = taken /\ num_gen_batches' \in Nat \ {0} /\ num_gen_batches' <= taken'
    BY <2>1, <2>2 DEF First
  <2>4. /\ num_prompt_in_batch \in Nat /\ num_prompt_in_batch < config.prompts
        /\ IF kept = Empty THEN num_prompt_in_batch = 0
           ELSE KeptInv(kept, num_prompt_in_batch, config, First, taken, actor)
    BY <2>1 DEF SampInv, CollectPhases, Between
  <2>5. /\ pc' \notin NewPhases \cup Between \cup {"align"} \cup StepPhases /\ Sampled(config')
    BY <2>1 DEF NewPhases, Between, StepPhases, LearningPhases, RowPhases, BeforeValues,
         BeforeGopd, BeforeTeacher, BeforeReference, BeforeOld, BeforeScores
  <2> QED
    BY <2>1, <2>3, <2>4, <2>5 DEF SampInv
<1>2. CASE Exhausted
  BY <1>2, SampQuiet DEF Exhausted, loop
<1>3. CASE (Generate \/ Baseline) /\ UNCHANGED loop
  <2>1. /\ pc \in {"generate", "baseline"} /\ pc' \in {"baseline", "assemble", "failed"}
        /\ UNCHANGED <<config, taken, actor>>
    BY <1>3 DEF Generate, Baseline, Fail
  <2>2. CASE pc' = "failed"
    BY <1>3, <2>1, <2>2, SampQuiet DEF loop
  <2>3. CASE pc' # "failed"
    BY <1>3, <2>1, <2>3, SampCollect DEF CollectPhases, Generating, Between, NewPhases
  <2> QED
    BY <2>2, <2>3
<1> QED
  BY <1>1, <1>2, <1>3

\* Prompts of the batch are kept, with those kept before,
LEMMA FilteredKept ==
    ASSUME StepInv, Plain, Sampled(config), SampInv, pc = "filter"
    PROVE  /\ config \in Configs /\ Sizes(config) /\ taken \in Nat \ {0} /\ First \in Nat /\ First <= taken - 1
           /\ num_gen_batches \in Nat
           /\ num_prompt_in_batch \in Nat /\ num_prompt_in_batch < config.prompts
           /\ KeptInv(batch, config.genPrompts, config, First, taken, actor) \/ config.filterGroups
           /\ KeptInv(Accumulated, Counted, config, First, taken, actor)
           /\ Counted \in Nat /\ Counted - config.prompts < config.genPrompts
<1>1. /\ pc \in RowPhases /\ Size(config, "filter") = BatchSize(config)
      /\ pc \in CollectPhases /\ pc \in NewPhases /\ pc \notin Between
  BY DEF RowPhases, BeforeValues, BeforeGopd, BeforeTeacher, BeforeReference, BeforeOld, BeforeScores, Size, NewPhases,
         CollectPhases, Between
<1>2. config \in Configs /\ Sizes(config) /\ taken \in Nat /\ Told(batch, BatchSize(config), config, actor)
  BY <1>1, RowsNow
<1>3. num_gen_batches \in Nat \ {0} /\ num_gen_batches <= taken
  BY <1>1 DEF SampInv
<1>4. First \in Nat /\ First <= taken - 1 /\ taken \in Nat \ {0}
  BY <1>2, <1>3 DEF First
<1>5. NewInv(batch, "filter", config, taken)
  BY <1>1 DEF SampInv
<1>6. PICK n \in Nat : n = num_prompt_in_batch /\ n < config.prompts
  BY <1>1 DEF SampInv
<1>7. IF kept = Empty THEN n = 0 ELSE KeptInv(kept, n, config, First, taken - 1, actor)
  BY <1>1, <1>6 DEF SampInv
<1>8. PICK new : new = Take(batch, Qualified(batch))
  OBVIOUS
<1>9. PICK q \in Nat : KeptOf(batch, new, q, config, taken, actor)
  BY <1>2, <1>4, <1>5, <1>8, KeptOfNew
<1>10. KeptInv(new, q, config, taken - 1, taken, actor) /\ q <= config.genPrompts
       /\ Cardinality({batch["uid"][i] : i \in ToSet(Qualified(batch))}) = q
  BY <1>9 DEF KeptOf
<1>11. Counted = n + q
  BY <1>6, <1>10 DEF Counted
<1>12. PICK first \in Nat : first = First /\ first <= taken - 1
  BY <1>4
<1>13. KeptInv(Accumulated, n + q, config, First, taken, actor)
  <2>1. CASE kept = Empty
    <3>1. KeptInv(new, q, config, first, taken, actor)
      BY <1>2, <1>4, <1>10, <1>12, KeptEarlier
    <3>2. n + q = q
      BY <1>7, <2>1
    <3> QED
      BY <1>8, <1>12, <2>1, <3>1, <3>2 DEF Accumulated
  <2>2. CASE kept # Empty
    <3>1. KeptInv(kept, n, config, first, taken - 1, actor)
      BY <1>7, <1>12, <2>2
    <3>2. KeptInv(Concat(<<kept, new>>), n + q, config, first, taken, actor)
      BY <1>2, <1>4, <1>10, <1>12, <3>1, StackedKept
    <3> QED
      BY <1>8, <1>12, <2>2, <3>2 DEF Accumulated
  <2> QED
    BY <2>1, <2>2
<1>14. ASSUME ~config.filterGroups PROVE KeptInv(batch, config.genPrompts, config, First, taken, actor)
  <2>1. PICK g \in Nat \ {0} : g = config.genPrompts
    BY <1>2 DEF Sizes
  <2>2. Told(batch, g * config.samples, config, actor)
    BY <1>2, <2>1 DEF BatchSize
  <2>3. KeptInv(batch, g, config, taken - 1, taken, actor)
    BY <1>5, <1>14, <2>1, <2>2 DEF KeptInv, NewInv
  <2>4. KeptInv(batch, g, config, first, taken, actor)
    BY <1>2, <1>4, <1>12, <2>3, KeptEarlier
  <2> QED
    BY <1>12, <2>1, <2>4
<1>15. Counted \in Nat /\ Counted - config.prompts < config.genPrompts
  BY <1>2, <1>6, <1>10, <1>11 DEF Sizes
<1> QED
  BY <1>2, <1>3, <1>4, <1>6, <1>11, <1>13, <1>14, <1>15

\* until there are enough.
LEMMA SampFilter ==
    ASSUME StepInv, Plain, Sampled(config), SampInv, NoFilter \/ FilterGroups
    PROVE  SampInv'
<1>1. /\ pc = "filter" /\ pc' \in {"align", "batch", "raised"}
      /\ UNCHANGED <<config, taken, actor, num_gen_batches>>
  BY DEF NoFilter, FilterGroups
<1>2. /\ config \in Configs /\ Sizes(config) /\ taken \in Nat \ {0} /\ First \in Nat /\ First <= taken - 1
      /\ num_gen_batches \in Nat
      /\ num_prompt_in_batch \in Nat /\ num_prompt_in_batch < config.prompts
      /\ KeptInv(batch, config.genPrompts, config, First, taken, actor) \/ config.filterGroups
      /\ KeptInv(Accumulated, Counted, config, First, taken, actor)
      /\ Counted \in Nat /\ Counted - config.prompts < config.genPrompts
  BY <1>1, FilteredKept
<1>3. First' = First /\ num_gen_batches <= taken
  BY <1>1 DEF First, SampInv
<1>4. pc' \notin Generating \cup NewPhases \cup StepPhases
  BY <1>1 DEF Generating, NewPhases, StepPhases, LearningPhases, RowPhases, BeforeValues, BeforeGopd, BeforeTeacher,
              BeforeReference, BeforeOld, BeforeScores
<1>5. CASE pc' = "raised"
  BY <1>1, <1>5, SampQuiet
<1>6. CASE NoFilter
  <2>1. pc' = "align" /\ kept' = batch /\ ~config.filterGroups /\ pc' \notin CollectPhases
    BY <1>6 DEF NoFilter, CollectPhases, Between, Generating, NewPhases
  <2> QED
    BY <1>1, <1>2, <1>3, <1>4, <2>1 DEF SampInv, Sampled
<1>7. CASE FilterGroups /\ pc' = "align"
  <2>1. /\ kept' = Accumulated /\ num_prompt_in_batch' = Counted /\ config.filterGroups /\ Enough
        /\ pc' \notin CollectPhases
    BY <1>7 DEF FilterGroups, CollectPhases, Between, Generating, NewPhases
  <2>2. config.prompts <= num_prompt_in_batch'
    BY <1>2, <2>1 DEF Enough, Sizes
  <2> QED
    BY <1>1, <1>2, <1>3, <1>4, <1>7, <2>1, <2>2 DEF SampInv, Sampled
<1>8. CASE FilterGroups /\ pc' = "batch"
  <2>1. /\ kept' = Accumulated /\ num_prompt_in_batch' = Counted /\ config.filterGroups /\ ~Enough
        /\ pc' \in Between
    BY <1>8 DEF FilterGroups, Between
  <2>2. num_prompt_in_batch' < config.prompts
    BY <1>2, <2>1 DEF Enough, Sizes
  <2>3. kept' # Empty
    <3>1. DOMAIN kept' = NewColumns(config, "filter")
      BY <1>2, <2>1 DEF KeptInv
    <3>2. "uid" \in DOMAIN kept' /\ "uid" \notin DOMAIN Empty
      BY <3>1 DEF NewColumns, Empty
    <3> QED
      BY <3>2
  <2> QED
    BY <1>1, <1>2, <1>3, <1>4, <1>8, <2>1, <2>2, <2>3 DEF SampInv, Sampled
<1> QED
  BY <1>1, <1>5, <1>6, <1>7, <1>8

\* What qualified does as long as its responses and scores are there.
LEMMA QualifiesStill ==
    ASSUME NEW c, NEW first, NEW old, Qualifies(old, c, first), NEW new,
           new["responses"] = old["responses"], new["token_level_scores"] = old["token_level_scores"]
    PROVE  Qualifies(new, c, first)
BY DEF Qualifies, AllDiffer

\* A step of the update that keeps them.
ScoresKept == KeepsColumn("responses") /\ KeepsColumn("token_level_scores")
LEMMA SampKept ==
    ASSUME SampInv, UNCHANGED <<config, loop, taken>>, pc \in StepPhases, pc' \in StepPhases, ScoresKept
    PROVE  SampInv'
<1>1. Sampled(config) /\ config.filterGroups => Qualifies(batch, config, First)
  BY DEF SampInv
<1>2. Sampled(config) /\ config.filterGroups => Qualifies(batch', config, First)
  BY <1>1, QualifiesStill DEF ScoresKept, KeepsColumn
<1> QED
  BY <1>2, SampLearn

LEMMA SampAlign ==
    ASSUME StepInv, Plain, Sampled(config), SampInv, Align
    PROVE  SampInv'
<1>1. pc = "align" /\ pc' = "balance" /\ UNCHANGED <<config, taken, actor, loop>>
  BY DEF Align
<1>2. PICK data : data = Aligned(kept)
  OBVIOUS
<1>3. /\ DOMAIN data = NewColumns(config, "filter")
      /\ config.filterGroups => Qualifies(data, config, First)
      /\ batch' = Put(data, "response_mask", data["attention_mask"])
  BY <1>2, AlignNow
<1>4. {"responses", "token_level_scores"} \subseteq DOMAIN data
  BY <1>3 DEF NewColumns, Answering
<1>5. batch'["responses"] = data["responses"] /\ batch'["token_level_scores"] = data["token_level_scores"]
  BY <1>3, <1>4 DEF Put
<1>6. config.filterGroups => Qualifies(batch', config, First)
  BY <1>3, <1>5, QualifiesStill
<1>7. pc' \in StepPhases
  BY <1>1 DEF StepPhases, RowPhases, BeforeValues, BeforeGopd, BeforeTeacher, BeforeReference, BeforeOld, BeforeScores,
              NewPhases
<1> QED
  BY <1>1, <1>6, <1>7, SampLearn

LEMMA SampBalance ==
    ASSUME StepInv, Plain, Sampled(config), SampInv, BalanceNew, UNCHANGED loop
    PROVE  SampInv'
<1> DEFINE n == StepSize(config)
           order == BalanceOrder
<1>1. \/ /\ pc = "balance" /\ pc' = "old_log_prob" /\ UNCHANGED <<config, taken>>
         /\ \/ batch' = batch
            \/ Rows(batch) % config.workers = 0 /\ batch' = Take(batch, order)
      \/ pc' = "failed" /\ UNCHANGED <<config, taken>>
  BY DEF BalanceNew, BalanceOrSkip, BalanceThen, BalanceOrder, Skip, Fail
<1>2. CASE pc' = "failed" /\ UNCHANGED <<config, taken>>
  BY <1>2, SampQuiet DEF loop
<1>3. ASSUME pc = "balance", pc' = "old_log_prob", UNCHANGED <<config, taken>>,
             \/ batch' = batch
             \/ Rows(batch) % config.workers = 0 /\ batch' = Take(batch, order)
      PROVE  SampInv'
  <2>1. pc \in StepPhases /\ pc' \in StepPhases /\ pc \in RowPhases /\ Size(config, "balance") = n
    BY <1>3 DEF StepPhases, RowPhases, BeforeValues, BeforeGopd, BeforeTeacher, BeforeReference, BeforeOld,
                BeforeScores, NewPhases, Size
  <2>2. CASE batch' = batch
    BY <1>3, <2>1, <2>2, SampKept DEF ScoresKept, KeepsColumn
  <2>3. CASE Rows(batch) % config.workers = 0 /\ batch' = Take(batch, order)
    <3>1. Order(order, n) /\ RowsAt(batch', batch, order, n)
      BY <1>3, <2>1, <2>3, BalanceMoves
    <3>2. "token_level_scores" \in DOMAIN batch /\ "responses" \in DOMAIN batch
      BY <1>3, <2>1, RowsNow DEF RowsInv, Present
    <3> HIDE DEF order, n
    <3>3. \A i \in 1 .. n : /\ order[i] \in 1 .. n
                            /\ batch'["responses"][i] = batch["responses"][order[i]]
                            /\ batch'["token_level_scores"][i] = batch["token_level_scores"][order[i]]
      BY <3>1, <3>2 DEF RowsAt, Order, Selects
    <3>4. ASSUME config.filterGroups PROVE Qualifies(batch', config, First)
      <4>1. Qualifies(batch, config, First)
        BY <2>1, <3>4 DEF SampInv
      <4>2. ASSUME config.samples > 1, NEW i \in 1 .. n
            PROVE  Differs(batch'["responses"], batch'["token_level_scores"], n, i)
        <5>1. Differs(batch["responses"], batch["token_level_scores"], n, order[i])
          BY <3>3, <4>1, <4>2 DEF Qualifies, AllDiffer, n
        <5>2. PICK w \in 1 .. n :
                /\ batch["responses"][w].prompt = batch["responses"][order[i]].prompt
                /\ batch["token_level_scores"][w].score # batch["token_level_scores"][order[i]].score
          BY <5>1 DEF Differs
        <5>3. PICK j \in 1 .. n : order[j] = w
          BY <3>1 DEF Order
        <5>4. /\ batch'["responses"][j].prompt = batch'["responses"][i].prompt
              /\ batch'["token_level_scores"][j].score # batch'["token_level_scores"][i].score
          BY <3>3, <5>2, <5>3
        <5> QED
          BY <5>4 DEF Differs
      <4>3. \A i \in 1 .. n : batch'["responses"][i].prompt > First * config.genPrompts
        BY <3>3, <4>1 DEF Qualifies, n
      <4> QED
        BY <4>2, <4>3 DEF Qualifies, AllDiffer, n
    <3> QED
      BY <1>3, <2>1, <3>4, SampLearn
  <2> QED
    BY <1>3, <2>2, <2>3
<1> QED
  BY <1>1, <1>2, <1>3

\* The models' answers join the batch,
LEMMA SampJoin ==
    ASSUME StepInv, StepInv', Plain, Sampled(config), SampInv, UNCHANGED loop,
           OldLogProb \/ Reference \/ Teacher \/ GopdReference \/ Values
    PROVE  SampInv'
<1>1. pc \in {"old_log_prob", "ref", "teacher", "gopd_ref", "values"} /\ UNCHANGED <<config, taken>>
  BY DEF OldLogProb, Reference, ReferenceThen, Teacher, GopdReference, Values, Join, Skip, Fail
<1>2. CASE pc' = "failed"
  BY <1>1, <1>2, SampQuiet DEF loop
<1>3. CASE pc' # "failed"
  <2>1. /\ pc \in RowPhases /\ pc' \in RowPhases /\ (pc' \in NewPhases <=> pc \in NewPhases)
        /\ batch' = batch \/ \E left, answers : AnswersJoin(left, answers)
    BY <1>3, Asks DEF Reference
  <2>2. pc \notin NewPhases /\ pc' \notin NewPhases
    BY <1>1, <2>1 DEF NewPhases
  <2>3. pc \in StepPhases /\ pc' \in StepPhases /\ Size(config, pc') = Size(config, pc)
    BY <2>1, <2>2 DEF StepPhases, Size
  <2>4. "responses" \in DOMAIN batch /\ "token_level_scores" \in DOMAIN batch
    BY <1>1, <2>1, RowsNow DEF RowsInv, Present
  <2>5. ScoresKept
    <3>1. CASE batch' = batch
      BY <3>1 DEF ScoresKept, KeepsColumn
    <3>2. CASE \E left, answers : AnswersJoin(left, answers)
      BY <1>1, <2>1, <2>3, <2>4, <3>2, JoinKeeps DEF ScoresKept
    <3> QED
      BY <2>1, <3>1, <3>2
  <2> QED
    BY <1>1, <2>3, <2>5, SampKept
<1> QED
  BY <1>2, <1>3

\* and the advantages; the actor learns, and the next step begins with no batch.
LEMMA SampUpdate ==
    ASSUME StepInv, Plain, Sampled(config), SampInv,
           \/ DapoEndStep
           \/ (ComputeDapoAdvantage \/ UpdateActor \/ Validate) /\ UNCHANGED loop
    PROVE  SampInv'
<1>1. CASE ComputeDapoAdvantage /\ UNCHANGED loop
  <2>1. pc = "adv" /\ pc' \in {"update_actor", "test"} /\ UNCHANGED <<config, taken>>
    BY <1>1 DEF ComputeDapoAdvantage, Warm
  <2>2. CASE pc' = "test"
    BY <1>1, <2>1, <2>2, SampQuiet DEF loop
  <2>3. CASE pc' = "update_actor"
    <3>1. pc \in RowPhases /\ pc \in StepPhases /\ pc' \in StepPhases
      BY <2>1, <2>3 DEF StepPhases, LearningPhases, RowPhases, NewPhases
    <3>2. "responses" \in DOMAIN batch /\ "token_level_scores" \in DOMAIN batch
      BY <2>1, <3>1, RowsNow DEF RowsInv, Present
    <3>3. ScoresKept
      BY <1>1, <3>2, DapoAdvantageKeeps DEF ScoresKept
    <3> QED
      BY <1>1, <2>1, <3>1, <3>3, SampKept
  <2> QED
    BY <2>1, <2>2, <2>3
<1>2. CASE UpdateActor /\ UNCHANGED loop
  BY <1>2, SampQuiet DEF UpdateActor, loop
<1>3. CASE Validate /\ UNCHANGED loop
  <2>1. CASE ValidateThen("test", "end")
    BY <1>3, <2>1, SampQuiet DEF ValidateThen, loop
  <2>2. CASE ValidateThen("first", "batch")
    BY <1>3, <2>2, SampCollect DEF ValidateThen, CollectPhases, Between, NewPhases
  <2> QED
    BY <1>3, <2>1, <2>2 DEF Validate
<1>4. CASE DapoEndStep
  <2>1. /\ pc' = "batch" /\ UNCHANGED <<config, taken>>
        /\ kept' = Empty /\ num_prompt_in_batch' = 0 /\ num_gen_batches' = 0
    BY <1>4 DEF DapoEndStep, EndStep, GiveUpBatch, Reset
  <2>2. taken \in Nat /\ Sizes(config)
    BY SizesOfConfig DEF StepInv
  <2>3. 0 <= taken /\ 0 < config.prompts
    BY <2>2 DEF Sizes
  <2>4. pc' \notin Generating \cup NewPhases \cup {"align"} \cup StepPhases
    BY <2>1 DEF Generating, NewPhases, StepPhases, LearningPhases, RowPhases, BeforeValues, BeforeGopd, BeforeTeacher,
                BeforeReference, BeforeOld, BeforeScores
  <2> QED
    BY <2>1, <2>3, <2>4 DEF SampInv, Sampled
<1> QED
  BY <1>1, <1>2, <1>3, <1>4

\* Every trainer keeps the configuration, and counts its batches.
LEMMA TrainersKeep ==
    ASSUME taken \in Nat, TrainersNext
    PROVE  config' = config /\ taken' \in Nat
<1>1. CASE NextBatch \/ NextGenBatch \/ NextPrimeBatch
  BY <1>1 DEF NextBatch, NextGenBatch, NextPrimeBatch, PopBatch
<1>2. CASE Generate
  BY <1>2 DEF Generate, Fail
<1>3. CASE Baseline
  BY <1>3 DEF Baseline, Fail
<1>4. CASE Assemble \/ AssembleNew \/ AssembleThen("balance")
  BY <1>4 DEF Assemble, AssembleNew, AssembleThen, Fail
<1>5. CASE ScoreNew \/ NoFilter \/ FilterGroups \/ Exhausted \/ Align
  BY <1>5 DEF ScoreNew, NoFilter, FilterGroups, Exhausted, Align
<1>6. ASSUME NEW there, BalanceOrSkip(there) PROVE config' = config /\ taken' \in Nat
  BY <1>6 DEF BalanceOrSkip, BalanceThen, Skip, Fail
<1>7. CASE RewardModel \/ Score \/ OldLogProb \/ Teacher \/ Values
  BY <1>7 DEF RewardModel, Score, OldLogProb, Teacher, Values, Join, Skip, Fail
<1>8. ASSUME NEW there, ReferenceThen(there) PROVE config' = config /\ taken' \in Nat
  BY <1>8 DEF ReferenceThen, Join, Skip, Fail
<1>9. CASE GopdReference
  BY <1>9 DEF GopdReference, Join, Skip, Fail
<1>10. CASE UpdateCritic \/ UpdateActor \/ Verify \/ FilterAndDownsample
  BY <1>10 DEF UpdateCritic, UpdateActor, Verify, FilterAndDownsample
<1>11. CASE Validate \/ ValidateThen("last", "done")
  BY <1>11 DEF Validate, ValidateThen
<1>12. CASE OnlyScore \/ UpdateWhileScoring \/ UpdateFirst \/ ScoreUpdated \/ UpdateLast \/ NoRewardModel
  BY <1>12 DEF OnlyScore, UpdateWhileScoring, UpdateFirst, ScoreUpdated, UpdateLast, NoRewardModel,
               PrimeScore, PrimeUpdate, Join, Skip, Fail
<1>13. CASE \/ ComputeAdvantage \/ ComputeDapoAdvantage \/ ComputeSppoAdvantage \/ BroadcastStatistics
            \/ ComputePrimeAdvantage
  BY <1>13 DEF ComputeAdvantage, ComputeDapoAdvantage, ComputeSppoAdvantage, BroadcastStatistics,
               ComputePrimeAdvantage
<1>14. CASE EndStep \/ DapoEndStep \/ EndOfBatch \/ PrimeEndStep
  BY <1>14 DEF EndStep, DapoEndStep, EndOfBatch, PrimeEndStep, GiveUpBatch
<1>15. CASE Next \/ SppoNext
  BY <1>1, <1>2, <1>3, <1>4, <1>6, <1>7, <1>8, <1>9, <1>10, <1>11, <1>13, <1>14, <1>15
     DEF Next, SppoNext, Balance, Reference
<1>16. CASE DapoNext
  BY <1>1, <1>2, <1>3, <1>4, <1>5, <1>6, <1>7, <1>8, <1>9, <1>10, <1>11, <1>13, <1>14, <1>16
     DEF DapoNext, Sampling, Updating, BalanceNew, Reference
<1>17. CASE PrimeNext
  BY <1>1, <1>2, <1>4, <1>6, <1>7, <1>8, <1>10, <1>11, <1>12, <1>13, <1>14, <1>17 DEF PrimeNext
<1> QED
  BY <1>15, <1>16, <1>17 DEF TrainersNext, DapoNext, EntropyNext, EntropySampling, EntropyUpdating

LEMMA ConfigKept == ASSUME StepInv, TrainersNext PROVE config' = config
BY TrainersKeep DEF StepInv

\* A trainer of its own steps; the entropy recipe's are DAPO's.
LEMMA SampledTrainer ==
    ASSUME TrainersNext, Sampled(config)
    PROVE  DapoNext
BY DEF TrainersNext, Sampled, EntropyNext, EntropySampling, EntropyUpdating, DapoNext

LEMMA SampledStep ==
    ASSUME StepInv, SampInv, Sampled(config), DapoNext
    PROVE  StepInv' /\ SampInv'
<1>1. Plain /\ config.trainer # "sppo"
  BY DEF Sampled, Plain
<1>2. CASE Sampling
  <2>1. CASE NextGenBatch
    BY <1>1, <2>1, NextBatchStep, SampGenerate DEF NextGenBatch
  <2>2. CASE Exhausted
    BY <2>2, CollectStep, SampGenerate
  <2>3. CASE Generate /\ UNCHANGED loop
    BY <1>1, <2>3, GenerateStep, SampGenerate
  <2>4. CASE Baseline /\ UNCHANGED loop
    BY <1>1, <2>4, BaselineStep, SampGenerate
  <2>5. CASE AssembleNew /\ UNCHANGED loop
    BY <1>1, <2>5, AssembleNewStep, SampAssemble
  <2>6. CASE RewardModel /\ UNCHANGED loop
    BY <1>1, <2>6, RewardModelStep, SampRewardModel
  <2>7. CASE ScoreNew
    BY <1>1, <2>7, ScoreNewStep, SampScore
  <2>8. CASE NoFilter \/ FilterGroups
    BY <1>1, <2>8, CollectStep, SampFilter
  <2> QED
    BY <1>2, <2>1, <2>2, <2>3, <2>4, <2>5, <2>6, <2>7, <2>8 DEF Sampling
<1>3. CASE Updating
  <2>1. CASE Align
    BY <1>1, <2>1, AlignStep, SampAlign
  <2>2. CASE DapoEndStep
    BY <1>1, <2>2, CollectStep, SampUpdate
  <2>3. CASE BalanceNew /\ UNCHANGED loop
    BY <1>1, <2>3, BalanceStep, SampBalance DEF BalanceNew
  <2>4. CASE (OldLogProb \/ Reference \/ Teacher \/ GopdReference \/ Values) /\ UNCHANGED loop
    <3>1. StepInv'
      BY <1>1, <2>4, OldLogProbStep, ReferenceStep, TeacherStep, GopdReferenceStep, ValuesStep DEF Reference
    <3> QED
      BY <1>1, <2>4, <3>1, SampJoin
  <2>5. CASE ComputeDapoAdvantage /\ UNCHANGED loop
    BY <1>1, <2>5, ComputeDapoAdvantageStep, SampUpdate
  <2>6. CASE (UpdateActor \/ Validate) /\ UNCHANGED loop
    BY <1>1, <2>6, RestStep, SampUpdate
  <2> QED
    BY <1>3, <2>1, <2>2, <2>3, <2>4, <2>5, <2>6 DEF Updating
<1> QED
  BY <1>2, <1>3 DEF DapoNext

-----------------------------------------------------------------------------
(* The trainers.                                                             *)

TrainersInv == StepInv /\ SampInv

LEMMA TrainersStart == TrainersInit => TrainersInv
<1> SUFFICES ASSUME TrainersInit PROVE StepInv /\ SampInv
  BY DEF TrainersInv
<1>1. /\ config \in Configs /\ taken = 0 /\ pc \in {"first", "batch"}
      /\ kept = Empty /\ num_prompt_in_batch = 0 /\ num_gen_batches = 0
  BY DEF TrainersInit, DapoInit, Init
<1>2. pc \notin Generating \cup RowPhases \cup LearningPhases /\ pc \notin NewPhases \cup {"align"} \cup StepPhases
  BY <1>1 DEF Generating, LearningPhases, RowPhases, BeforeValues, BeforeGopd, BeforeTeacher, BeforeReference,
              BeforeOld, BeforeScores, NewPhases, StepPhases
<1>3. GenInv /\ BatchInv /\ LearnInv
  BY <1>2 DEF GenInv, BatchInv, LearnInv, Learning, Generating, LearningPhases
<1>4. 0 < config.prompts
  BY <1>1, SizesOfConfig DEF Sizes
<1> QED
  BY <1>1, <1>2, <1>3, <1>4 DEF StepInv, SampInv

LEMMA TrainersStep == TrainersInv /\ [TrainersNext]_allVars => TrainersInv'
<1> SUFFICES ASSUME StepInv, SampInv, [TrainersNext]_allVars PROVE StepInv' /\ SampInv'
  BY DEF TrainersInv
<1>1. CASE UNCHANGED allVars
  <2>1. /\ UNCHANGED <<config, taken, pc, gen, out, batch, reward, actor>>
        /\ UNCHANGED <<kept, num_prompt_in_batch, num_gen_batches>>
    BY <1>1 DEF allVars, vars, loop
  <2>2. (Plain <=> Plain') /\ (GenInv <=> GenInv') /\ (BatchInv <=> BatchInv') /\ (LearnInv <=> LearnInv')
    BY <2>1 DEF Plain, GenInv, BatchInv, LearnInv, Learning
  <2>3. StepInv'
    BY <2>1, <2>2 DEF StepInv
  <2>4. SampInv'
    BY <2>1 DEF SampInv, First
  <2> QED
    BY <2>3, <2>4
<1>2. ASSUME TrainersNext PROVE config' = config /\ taken' \in Nat
  BY <1>2, TrainersKeep DEF StepInv
<1>3. ASSUME TrainersNext, ~Sampled(config) PROVE SampInv'
  BY <1>2, <1>3 DEF SampInv, Sampled
<1>4. CASE Sampled(config) /\ TrainersNext
  BY <1>4, SampledTrainer, SampledStep
<1>5. CASE config.trainer = "prime" /\ TrainersNext
  <2>1. ~Plain' /\ config' \in Configs
    BY <1>2, <1>5 DEF Plain, StepInv
  <2> QED
    BY <1>2, <1>3, <1>5, <2>1 DEF StepInv, Sampled
<1>6. CASE config.trainer = "ppo" /\ Next /\ TrainersNext
  <2>1. Plain /\ config.trainer # "sppo" /\ ~Sampled(config)
    BY <1>6 DEF Plain, Sampled
  <2>2. CASE Reference
    BY <1>3, <1>6, <2>1, <2>2, ReferenceStep DEF Reference
  <2>3. CASE Balance
    BY <1>3, <1>6, <2>1, <2>3, BalanceStep DEF Balance
  <2>4. StepInv'
    BY <1>6, <2>1, <2>2, <2>3, NextBatchStep, GenerateStep, BaselineStep, AssembleStep, RewardModelStep,
       ScoreStep, OldLogProbStep, TeacherStep, GopdReferenceStep, ValuesStep, ComputeAdvantageStep,
       UpdateCriticStep, RestStep DEF Next
  <2> QED
    BY <1>3, <1>6, <2>1, <2>4
<1>7. CASE config.trainer = "sppo" /\ SppoNext /\ TrainersNext
  <2>1. Plain /\ ~Sampled(config)
    BY <1>7 DEF Plain, Sampled
  <2>2. CASE ReferenceThen("adv")
    BY <1>3, <1>7, <2>1, <2>2, ReferenceStep
  <2>3. CASE Balance
    BY <1>3, <1>7, <2>1, <2>3, BalanceStep DEF Balance
  <2>4. StepInv'
    BY <1>7, <2>1, <2>2, <2>3, NextBatchStep, GenerateStep, AssembleStep, RewardModelStep, ScoreStep,
       OldLogProbStep, SppoAdvantageStep, RestStep DEF SppoNext
  <2> QED
    BY <1>3, <1>7, <2>1, <2>4
<1> QED
  BY <1>1, <1>4, <1>5, <1>6, <1>7 DEF TrainersNext, Sampled

LEMMA TrainersInvariant == TrainersSpec => [](StepInv /\ SampInv)
<1>1. TrainersInv => StepInv /\ SampInv
  BY DEF TrainersInv
<1> QED
  BY <1>1, TrainersStart, TrainersStep, PTL DEF TrainersSpec

LEMMA LearningRows ==
    ASSUME StepInv, Plain, Learning
    PROVE  /\ config \in Configs /\ Sizes(config) /\ StepSize(config) \in Nat \ {0}
           /\ LearnRows(batch, config, actor)
           /\ Told(batch, StepSize(config), config, actor) /\ "responses" \in DOMAIN batch
           /\ Rows(batch) = StepSize(config) /\ DOMAIN batch["responses"] = 1 .. StepSize(config)
<1>1. config \in Configs /\ LearnRows(batch, config, actor)
  BY DEF StepInv, LearnInv
<1>2. Sizes(config)
  BY <1>1, SizesOfConfig
<1>3. StepSize(config) \in Nat \ {0}
  BY <1>2, SizeNumber
<1>4. Told(batch, StepSize(config), config, actor) /\ "responses" \in DOMAIN batch
  BY <1>1 DEF LearnRows, Told
<1>5. Rows(batch) = StepSize(config)
  BY <1>3, <1>4, TableRows DEF Told
<1>6. DOMAIN batch["responses"] = 1 .. StepSize(config)
  BY <1>4 DEF Told, Table, IsList
<1> QED
  BY <1>1, <1>2, <1>3, <1>4, <1>5, <1>6

LEMMA EverySample ==
    ASSUME NEW n \in Nat, NEW s \in Nat, NEW responses, DOMAIN responses = 1 .. n, NEW uid,
           Whole(responses, uid, n, s), \A i \in 1 .. n : responses[i].sample \in 1 .. s
    PROVE  /\ {<<r.prompt, r.sample>> : r \in ToSet(responses)} =
                {r.prompt : r \in ToSet(responses)} \X (1 .. s)
           /\ IsInjective(responses)
<1> DEFINE all == {<<r.prompt, r.sample>> : r \in ToSet(responses)}
           prompts == {r.prompt : r \in ToSet(responses)}
<1>1. ToSet(responses) = {responses[i] : i \in 1 .. n}
  BY DEF ToSet
<1>2. ASSUME NEW e \in all PROVE e \in prompts \X (1 .. s)
  <2>1. PICK i \in 1 .. n : e = <<responses[i].prompt, responses[i].sample>>
    BY <1>1
  <2> QED
    BY <1>1, <2>1
<1>3. ASSUME NEW e \in prompts \X (1 .. s) PROVE e \in all
  <2>1. PICK i \in 1 .. n, x \in 1 .. s : e = <<responses[i].prompt, x>>
    BY <1>1
  <2>2. HasSample(responses, n, i, x)
    BY DEF Whole
  <2>3. PICK j \in 1 .. n : responses[j].prompt = responses[i].prompt /\ responses[j].sample = x
    BY <2>2 DEF HasSample
  <2>4. e = <<responses[j].prompt, responses[j].sample>> /\ responses[j] \in ToSet(responses)
    BY <1>1, <2>1, <2>3
  <2> QED
    BY <2>4
<1>4. all = prompts \X (1 .. s)
  BY <1>2, <1>3
<1>5. IsInjective(responses)
  <2> SUFFICES ASSUME NEW i \in 1 .. n, NEW j \in 1 .. n, responses[i] = responses[j] PROVE i = j
    BY DEF IsInjective
  <2>1. Alone(responses, uid, i, j)
    BY DEF Whole
  <2> QED
    BY <2>1 DEF Alone
<1> QED
  BY <1>4, <1>5

LEMMA AlignedInStep == StepInv => (Plain => RowsAligned)
<1> SUFFICES ASSUME StepInv, Plain, Learning PROVE RowsAligned
  BY DEF RowsAligned
<1> DEFINE n == StepSize(config)
           r == batch["responses"]
<1>1. /\ config \in Configs /\ Sizes(config) /\ n \in Nat \ {0} /\ LearnRows(batch, config, actor)
      /\ Told(batch, n, config, actor) /\ Rows(batch) = n /\ DOMAIN r = 1 .. n /\ "responses" \in DOMAIN batch
  BY LearningRows
<1>2. Prompts * config.samples = n
  <2>1. config.trainer # "prime"
    BY DEF Plain
  <2> QED
    BY <2>1 DEF Prompts, StepSize, BatchSize
<1>3. \A i \in 1 .. n : Fresh(r[i], config, actor)
  BY <1>1 DEF Told, CellTold
<1>4. ASSUME ~config.pfPpo
      PROVE  /\ {<<e.prompt, e.sample>> : e \in ToSet(r)} = {e.prompt : e \in ToSet(r)} \X (1 .. config.samples)
             /\ IsInjective(r)
  <2>1. Whole(r, batch["uid"], n, config.samples)
    BY <1>1, <1>4 DEF LearnRows
  <2>2. \A i \in 1 .. n : r[i].sample \in 1 .. config.samples
    BY <1>3 DEF Fresh
  <2>3. config.samples \in Nat
    BY <1>1 DEF Sizes
  <2> HIDE DEF r, n
  <2> QED
    BY <1>1, <2>1, <2>2, <2>3, EverySample
<1>5. Scored(DOMAIN batch, config) /\ {"data_source", "old_log_probs"} \subseteq DOMAIN batch
  BY <1>1 DEF LearnRows, Scored, Told
<1>6. config.gopdRef => config.estimator = "GOPD"
  BY <1>1, ConfigsAssumption
<1>7. ASSUME NEW i \in 1 .. n
      PROVE  /\ batch["data_source"][i] = r[i].prompt
             /\ r[i].by = actor /\ batch["old_log_probs"][i].by = actor
             /\ \A c \in DOMAIN batch \cap AboutResponse : batch[c][i].of = r[i]
             /\ config.teacher => batch["teacher_log_prob"][i].given = r[i].prompt
             /\ config.gopdRef => batch["gopd_ref_log_prob"][i].given = r[i].prompt
  <2>1. \A c \in DOMAIN batch : CellTold(c, batch[c][i], r[i], config, actor)
    BY <1>1 DEF Told
  <2>2. batch["data_source"][i] = r[i].prompt /\ batch["old_log_probs"][i].by = actor
    BY <1>5, <2>1 DEF CellTold
  <2>3. \A c \in DOMAIN batch \cap AboutResponse : batch[c][i].of = r[i]
    BY <2>1 DEF CellTold
  <2>4. config.teacher => batch["teacher_log_prob"][i].given = r[i].prompt
    BY <1>5, <2>1 DEF CellTold, Scored
  <2>5. config.gopdRef => batch["gopd_ref_log_prob"][i].given = r[i].prompt
    BY <1>5, <1>6, <2>1 DEF CellTold, Scored
  <2> QED
    BY <1>3, <2>2, <2>3, <2>4, <2>5 DEF Fresh
<1>8. RowsOf(batch) = 1 .. n
  BY <1>1 DEF RowsOf
<1> HIDE DEF n
<1> QED
  BY <1>1, <1>2, <1>4, <1>7, <1>8 DEF RowsAligned, AboutResponse

LEMMA GroupedInStep == StepInv => (Plain => AdvantageOfItsGroup)
<1> SUFFICES ASSUME StepInv, Plain, Learning PROVE AdvantageOfItsGroup
  BY DEF AdvantageOfItsGroup
<1> DEFINE n == StepSize(config)
           r == batch["responses"]
           advantage == batch[IF config.trainer = "sppo" THEN "seq_level_rewards" ELSE "advantages"]
           siblings(i) == {j \in RowsOf(batch) : r[j].prompt = r[i].prompt}
           own(i) == {r[j] : j \in siblings(i)}
           of(i) == {e.of : e \in advantage[i]}
<1>1. /\ config \in Configs /\ n \in Nat \ {0} /\ LearnRows(batch, config, actor)
      /\ Rows(batch) = n /\ DOMAIN r = 1 .. n
  BY LearningRows
<1>2. RowsOf(batch) = 1 .. n
  BY <1>1 DEF RowsOf
<1>3. DOMAIN batch \cap {"Q_bc", "acc_bc"} = {}
  BY <1>1 DEF LearnRows, Scored
<1>4. ToSet(r) = EveryResponse(r, n)
  BY <1>1 DEF ToSet, EveryResponse
<1>5. config.estimator = "GRPO_PASSK" => advantage = batch["advantages"]
  BY <1>1, ConfigsAssumption
<1>6. \A i : siblings(i) = Siblings(r, n, i)
  BY <1>2 DEF Siblings
<1>7. \A i : own(i) = ResponsesTo(r, n, i)
  BY <1>6 DEF ResponsesTo
<1>8. \A i : of(i) = Subjects(advantage[i])
  BY DEF Subjects
<1>9. \A i \in 1 .. n : AdvantageTold(advantage, r, config, n, i)
  BY <1>1 DEF LearnRows, Advantages
<1>10. ASSUME NEW i \in 1 .. n
       PROVE  CASE config.estimator \in GroupEstimators -> InGroup(of(i), own(i), config.samples)
                [] config.estimator = "GRPO_PASSK" ->
                     BestOfGroup(of(i), own(i), config.samples, siblings(i), batch["advantages"])
                [] config.estimator = "REMAX" -> AgainstGreedy(of(i), r[i])
                [] config.trainer = "sppo" -> of(i) = ToSet(r)
                [] OTHER -> of(i) = {r[i]}
  <2> HIDE DEF siblings, own, of, advantage, n, r
  <2>1. own(i) = ResponsesTo(r, n, i) /\ of(i) = Subjects(advantage[i]) /\ siblings(i) = Siblings(r, n, i)
    BY <1>6, <1>7, <1>8
  <2>2. AdvantageTold(advantage, r, config, n, i)
    BY <1>9
  <2>3. /\ config.estimator \in GroupEstimators => InGroup(of(i), own(i), config.samples)
        /\ config.estimator = "REMAX" => AgainstGreedy(of(i), r[i])
        /\ config.estimator = "null" => of(i) = ToSet(r)
        /\ config.estimator \in OwnEstimators => of(i) = {r[i]}
    BY <1>4, <2>1, <2>2 DEF AdvantageTold
  <2>4. config.estimator = "GRPO_PASSK" =>
          BestOfGroup(of(i), own(i), config.samples, siblings(i), batch["advantages"])
    BY <1>5, <2>1, <2>2 DEF AdvantageTold
  <2>5. /\ config.estimator \in AdvantageEstimator \cup {"null"}
        /\ config.estimator = "null" <=> config.trainer = "sppo"
    BY <1>1, ConfigsAssumption DEF Config
  <2> QED
    BY <2>3, <2>4, <2>5 DEF AdvantageEstimator, GroupEstimators, OwnEstimators
<1> HIDE DEF n
<1> QED
  BY <1>2, <1>3, <1>10 DEF AdvantageOfItsGroup, GroupEstimators, InGroup, BestOfGroup, AgainstGreedy

LEMMA MaskedInStep == StepInv => (Plain /\ ~(config.toolUse /\ config.async) => OnlyGeneratedTrained)
<1> SUFFICES ASSUME StepInv, Plain, ~(config.toolUse /\ config.async), Learning, NEW i \in RowsOf(batch)
             PROVE  LossMask(batch, i) = {"generated"}
  BY DEF OnlyGeneratedTrained, Learning
<1>1. /\ Told(batch, StepSize(config), config, actor) /\ Rows(batch) = StepSize(config)
      /\ config \in Configs
  BY LearningRows
<1>2. i \in 1 .. StepSize(config)
  BY <1>1 DEF RowsOf
<1>3. config.toolUse \in BOOLEAN /\ config.async \in BOOLEAN
  BY <1>1, ConfigsAssumption DEF Config
<1>4. CASE config.toolUse /\ ~config.async
  <2>1. "loss_mask" \in DOMAIN batch
    BY <1>1, <1>4 DEF Told, Masks
  <2>2. batch["loss_mask"][i] = {"generated"}
    BY <1>1, <1>2, <2>1 DEF Told, CellTold
  <2> QED
    BY <1>4, <2>2 DEF LossMask, MultiTurn
<1>5. CASE ~config.toolUse
  <2>1. batch["attention_mask"][i] = {"generated"}
    BY <1>1, <1>2, <1>5 DEF Told, CellTold, Kinds
  <2> QED
    BY <1>5, <2>1 DEF LossMask, MultiTurn
<1> QED
  BY <1>3, <1>4, <1>5

\* Repeating, joining, padding, cutting off and balancing keep each row's cells
\* about one response, every prompt of the batch has all its responses, and the
\* actor that learns is the one that generated them and gave their log-probs.
THEOREM RowsStayAligned == TrainersSpec => [](Plain => RowsAligned)
<1> QED
  BY TrainersInvariant, AlignedInStep, PTL

\* compute_advantage reads what its estimator is defined by, of the right rows:
\* the row's response, all those to its prompt, the prompt's greedy one, or all
\* of the batch.
THEOREM AdvantagesOfTheirGroup == TrainersSpec => [](Plain => AdvantageOfItsGroup)
<1> QED
  BY TrainersInvariant, GroupedInStep, PTL

\* update_policy takes the loss over generated tokens only, unless the chat
\* scheduler runs the tools: update_policy does not read the response_mask that
\* leaves their answers out.
THEOREM GeneratedTokensTrained ==
    TrainersSpec => [](Plain /\ ~(config.toolUse /\ config.async) => OnlyGeneratedTrained)
<1> QED
  BY TrainersInvariant, MaskedInStep, PTL

LEMMA QualifiedInStep == StepInv /\ SampInv => GroupsQualified
<1> SUFFICES ASSUME StepInv, SampInv, Learning, config.filterGroups
             PROVE  GroupsQualified
  BY DEF GroupsQualified
<1> DEFINE n == StepSize(config)
           r == batch["responses"]
           scores == batch["token_level_scores"]
<1>1. Sampled(config) /\ Plain
  <2>1. config \in Configs
    BY DEF StepInv
  <2> QED
    BY <2>1, ConfigsAssumption, DapoAssumption DEF Sampled, Plain
<1>2. /\ LearnRows(batch, config, actor) /\ n \in Nat \ {0} /\ Told(batch, n, config, actor)
      /\ Rows(batch) = n /\ ~config.pfPpo
  BY <1>1, LearningRows, ConfigsAssumption, DapoAssumption DEF Sampled
<1>3. Whole(r, batch["uid"], n, config.samples) /\ Table(batch, n)
  BY <1>2 DEF LearnRows, Told
<1>4. RowsOf(batch) = 1 .. n
  BY <1>2 DEF RowsOf
<1>5. Qualifies(batch, config, First) /\ num_prompt_in_batch - config.prompts < config.genPrompts
  BY <1>1 DEF SampInv, Learning, LearningPhases, StepPhases
<1>6. ASSUME config.samples > 1, NEW i \in 1 .. n
      PROVE  \E j \in Group(batch, i) : scores[j].score # scores[i].score
  <2>1. Differs(r, scores, n, i)
    BY <1>5, <1>6 DEF Qualifies, AllDiffer
  <2>2. PICK j \in 1 .. n : r[j].prompt = r[i].prompt /\ scores[j].score # scores[i].score
    BY <2>1 DEF Differs
  <2>3. Group(batch, i) = Siblings(r, n, i)
    BY <1>2, <1>3, GroupIsSiblings
  <2>4. j \in Group(batch, i)
    BY <2>2, <2>3 DEF Siblings
  <2> QED
    BY <2>2, <2>4
<1>7. \A i \in 1 .. n : r[i].prompt > First * config.genPrompts
  BY <1>5 DEF Qualifies
<1> HIDE DEF n, r, scores
<1> QED
  BY <1>4, <1>5, <1>6, <1>7 DEF GroupsQualified, First, r, scores

\* With dynamic sampling, whatever the prompts score and however many batches
\* it takes, a step learns from prompts whose responses, of several, do not all
\* score alike, generated since the last step, and no batch was generated after
\* there were enough of them.
THEOREM GroupsStayQualified == TrainersSpec => []GroupsQualified
<1> QED
  BY TrainersInvariant, QualifiedInStep, PTL

-----------------------------------------------------------------------------
(* No assertion fails where the workers divide the prompts and the responses. *)

LEMMA FittingSize ==
    ASSUME config \in Configs, Fits(config), NEW phase
    PROVE  Divided(Size(config, phase), config.workers)
<1>1. (config.prompts * config.samples) % config.workers = 0
  BY ConfigsAssumption
<1> QED
  BY <1>1 DEF Divided, Size, StepSize, Fits

LEMMA FittingBatch ==
    ASSUME StepInv, Plain, Fits(config), pc \in RowPhases
    PROVE  /\ Size(config, pc) \in Nat \ {0} /\ Table(batch, Size(config, pc))
           /\ Divided(Size(config, pc), config.workers)
           /\ Callable(batch, Size(config, pc), {"responses"})
           /\ Accepted(batch) /\ AsLeft(batch) = batch
           /\ Present(DOMAIN batch, pc, config)
<1> DEFINE n == Size(config, pc)
<1>1. /\ config \in Configs /\ n \in Nat \ {0} /\ Table(batch, n) /\ Present(DOMAIN batch, pc, config)
      /\ "responses" \in DOMAIN batch
  BY RowsNow DEF RowsInv
<1>2. Rows(batch) = n /\ Divided(n, config.workers)
  BY <1>1, TableRows, FittingSize
<1>3. Accepted(batch)
  BY <1>2 DEF Accepted, CanDispatch, Divided
<1>4. Callable(batch, n, {"responses"}) /\ Callable(batch, n, {})
  BY <1>1, <1>3 DEF Callable
<1>5. PICK m \in Nat \ {0} : Pads(AsLeft(batch), batch, n, m, config.workers)
  BY <1>4, CallParts
<1>6. AsLeft(batch) = batch
  BY <1>2, <1>5 DEF Pads, Divided
<1> QED
  BY <1>1, <1>2, <1>3, <1>4, <1>6

LEMMA RmScoresFit ==
    ASSUME StepInv, Plain, Fits(config), pc = "reward"
    PROVE  /\ Accepted(batch) /\ AsLeft(batch) = batch
           /\ CanUnion(batch, Rename(Called(batch, RmScores), "rm_scores", "rm_scores"))
<1> DEFINE n == Size(config, pc)
           column == [i \in 1 .. n |-> [of |-> batch["responses"][i]]]
<1>1. "reward" \in RowPhases
  BY DEF RowPhases, BeforeValues, BeforeGopd, BeforeTeacher, BeforeReference, BeforeOld, BeforeScores
<1>2. /\ n \in Nat \ {0} /\ Table(batch, n) /\ Callable(batch, n, {"responses"})
      /\ Accepted(batch) /\ AsLeft(batch) = batch /\ Present(DOMAIN batch, "reward", config)
  BY <1>1, FittingBatch
<1>3. Called(batch, RmScores) = One("rm_scores", column)
  BY <1>2, RmScoresCalled
<1>4. IsList(column, n)
  BY DEF IsList
<1>5. "rm_scores" \notin DOMAIN batch
  BY <1>2 DEF Present, ScoresCome, BeforeValues, BeforeGopd, BeforeTeacher, BeforeReference, BeforeOld, BeforeScores, RowPhases
<1> HIDE DEF n, column
<1> QED
  BY <1>2, <1>3, <1>4, <1>5, CanJoin

LEMMA OldLogProbsFit ==
    ASSUME StepInv, Plain, Fits(config), pc = "old_log_prob"
    PROVE  /\ Accepted(batch) /\ AsLeft(batch) = batch
           /\ CanUnion(batch, Rename(Called(batch, LogProb), "old_log_probs", "old_log_probs"))
<1> DEFINE n == Size(config, pc)
           column == [i \in 1 .. n |-> [of |-> batch["responses"][i], by |-> actor]]
<1>1. "old_log_prob" \in RowPhases
  BY DEF RowPhases, BeforeValues, BeforeGopd, BeforeTeacher, BeforeReference, BeforeOld, BeforeScores
<1>2. /\ n \in Nat \ {0} /\ Table(batch, n) /\ Callable(batch, n, {"responses"})
      /\ Accepted(batch) /\ AsLeft(batch) = batch /\ Present(DOMAIN batch, "old_log_prob", config)
  BY <1>1, FittingBatch
<1>3. Called(batch, LogProb) = One("old_log_probs", column)
  BY <1>2, LogProbsInPlace
<1>4. IsList(column, n)
  BY DEF IsList
<1>5. "old_log_probs" \notin DOMAIN batch
  BY <1>2 DEF Present, BeforeValues, BeforeGopd, BeforeTeacher, BeforeReference, BeforeOld, BeforeScores, RowPhases
<1> HIDE DEF n, column
<1> QED
  BY <1>2, <1>3, <1>4, <1>5, CanJoin

LEMMA RefLogProbFits ==
    ASSUME StepInv, Plain, Fits(config), pc = "ref"
    PROVE  /\ Accepted(batch) /\ AsLeft(batch) = batch
           /\ CanUnion(batch, Rename(Called(batch, RefLogProb), "ref_log_prob", "ref_log_prob"))
<1> DEFINE n == Size(config, pc)
           column == [i \in 1 .. n |-> [of |-> batch["responses"][i]]]
<1>1. "ref" \in RowPhases
  BY DEF RowPhases, BeforeValues, BeforeGopd, BeforeTeacher, BeforeReference, BeforeOld, BeforeScores
<1>2. /\ n \in Nat \ {0} /\ Table(batch, n) /\ Callable(batch, n, {"responses"})
      /\ Accepted(batch) /\ AsLeft(batch) = batch /\ Present(DOMAIN batch, "ref", config)
  BY <1>1, FittingBatch
<1>3. Called(batch, RefLogProb) = One("ref_log_prob", column)
  BY <1>2, RefLogProbCalled
<1>4. IsList(column, n)
  BY DEF IsList
<1>5. "ref_log_prob" \notin DOMAIN batch
  BY <1>2 DEF Present, BeforeValues, BeforeGopd, BeforeTeacher, BeforeReference, BeforeOld, BeforeScores, RowPhases
<1> HIDE DEF n, column
<1> QED
  BY <1>2, <1>3, <1>4, <1>5, CanJoin

LEMMA GopdLogProbFits ==
    ASSUME StepInv, Plain, Fits(config), pc = "gopd_ref"
    PROVE  /\ Accepted(batch) /\ AsLeft(batch) = batch
           /\ CanUnion(batch, Rename(Called(batch, RefLogProb), "ref_log_prob", "gopd_ref_log_prob"))
<1> DEFINE n == Size(config, pc)
           column == [i \in 1 .. n |-> [of |-> batch["responses"][i]]]
<1>1. "gopd_ref" \in RowPhases
  BY DEF RowPhases, BeforeValues, BeforeGopd, BeforeTeacher, BeforeReference, BeforeOld, BeforeScores
<1>2. /\ n \in Nat \ {0} /\ Table(batch, n) /\ Callable(batch, n, {"responses"})
      /\ Accepted(batch) /\ AsLeft(batch) = batch /\ Present(DOMAIN batch, "gopd_ref", config)
  BY <1>1, FittingBatch
<1>3. Called(batch, RefLogProb) = One("ref_log_prob", column)
  BY <1>2, RefLogProbCalled
<1>4. IsList(column, n)
  BY DEF IsList
<1>5. "gopd_ref_log_prob" \notin DOMAIN batch
  BY <1>2 DEF Present, BeforeValues, BeforeGopd, BeforeTeacher, BeforeReference, BeforeOld, BeforeScores, RowPhases
<1> HIDE DEF n, column
<1> QED
  BY <1>2, <1>3, <1>4, <1>5, CanJoin

LEMMA ValuesFit ==
    ASSUME StepInv, Plain, Fits(config), pc = "values"
    PROVE  /\ Accepted(batch) /\ AsLeft(batch) = batch
           /\ CanUnion(batch, Rename(Called(batch, CriticValues), "values", "values"))
<1> DEFINE n == Size(config, pc)
           column == [i \in 1 .. n |-> [of |-> batch["responses"][i], by |-> critic]]
<1>1. "values" \in RowPhases
  BY DEF RowPhases, BeforeValues, BeforeGopd, BeforeTeacher, BeforeReference, BeforeOld, BeforeScores
<1>2. /\ n \in Nat \ {0} /\ Table(batch, n) /\ Callable(batch, n, {"responses"})
      /\ Accepted(batch) /\ AsLeft(batch) = batch /\ Present(DOMAIN batch, "values", config)
  BY <1>1, FittingBatch
<1>3. Called(batch, CriticValues) = One("values", column)
  BY <1>2, CriticValuesCalled
<1>4. IsList(column, n)
  BY DEF IsList
<1>5. "values" \notin DOMAIN batch
  BY <1>2 DEF Present, BeforeValues, BeforeGopd, BeforeTeacher, BeforeReference, BeforeOld, BeforeScores, RowPhases
<1> HIDE DEF n, column
<1> QED
  BY <1>2, <1>3, <1>4, <1>5, CanJoin

LEMMA TeacherFits ==
    ASSUME StepInv, Plain, Fits(config), pc = "teacher", config.teacher
    PROVE  /\ Accepted(PrivilegedBatch)
           /\ CanUnion(batch, Rename(Called(PrivilegedBatch, PrivilegedLogProb), "ref_log_prob", "teacher_log_prob"))
<1> DEFINE n == Size(config, pc)
           data == PrivilegedBatch
           column == [i \in 1 .. n |-> [of |-> data["responses"][i], given |-> data["raw_prompt"][i]]]
<1>1. "teacher" \in RowPhases
  BY DEF RowPhases, BeforeValues, BeforeGopd, BeforeTeacher, BeforeReference, BeforeOld, BeforeScores
<1>2. /\ n \in Nat \ {0} /\ Table(batch, n) /\ Callable(batch, n, {"responses"})
      /\ Present(DOMAIN batch, "teacher", config) /\ Divided(n, config.workers)
  BY <1>1, FittingBatch
<1>3. {"responses", "raw_prompt"} \subseteq DOMAIN batch /\ "teacher_log_prob" \notin DOMAIN batch
  BY <1>2 DEF Callable, Present, BeforeValues, BeforeGopd, BeforeTeacher, BeforeReference, BeforeOld, BeforeScores, RowPhases
<1>4. Table(data, n) /\ DOMAIN data = {"responses", "raw_prompt"}
  BY <1>2, <1>3, ColumnsTable DEF PrivilegedBatch, Chosen
<1> HIDE DEF data
<1>5. Accepted(data)
  BY <1>2, <1>4, TableRows DEF Accepted, CanDispatch, Divided
<1>6. Callable(data, n, {"responses", "raw_prompt"})
  BY <1>2, <1>4, <1>5 DEF Callable
<1>7. Called(data, PrivilegedLogProb) = One("ref_log_prob", column)
  BY <1>6, PrivilegedLogProbCalled
<1>8. IsList(column, n)
  BY DEF IsList
<1> HIDE DEF n, column
<1>9. CanUnion(batch, Rename(Called(data, PrivilegedLogProb), "ref_log_prob", "teacher_log_prob"))
  BY <1>2, <1>3, <1>7, <1>8, CanJoin
<1> QED
  BY <1>5, <1>9 DEF data

LEMMA GopdTeacherFits ==
    ASSUME StepInv, Plain, Fits(config), pc = "gopd_ref", config.gopdRef
    PROVE  /\ Accepted(PrivilegedBatch)
           /\ CanUnion(batch, Rename(Called(PrivilegedBatch, PrivilegedLogProb), "ref_log_prob", "gopd_ref_log_prob"))
<1> DEFINE n == Size(config, pc)
           data == PrivilegedBatch
           column == [i \in 1 .. n |-> [of |-> data["responses"][i], given |-> data["raw_prompt"][i]]]
<1>1. "gopd_ref" \in RowPhases
  BY DEF RowPhases, BeforeValues, BeforeGopd, BeforeTeacher, BeforeReference, BeforeOld, BeforeScores
<1>2. /\ n \in Nat \ {0} /\ Table(batch, n) /\ Callable(batch, n, {"responses"})
      /\ Present(DOMAIN batch, "gopd_ref", config) /\ Divided(n, config.workers)
  BY <1>1, FittingBatch
<1>3. {"responses", "raw_prompt"} \subseteq DOMAIN batch /\ "gopd_ref_log_prob" \notin DOMAIN batch
  BY <1>2 DEF Callable, Present, BeforeValues, BeforeGopd, BeforeTeacher, BeforeReference, BeforeOld, BeforeScores, RowPhases
<1>4. Table(data, n) /\ DOMAIN data = {"responses", "raw_prompt"}
  BY <1>2, <1>3, ColumnsTable DEF PrivilegedBatch, Chosen
<1> HIDE DEF data
<1>5. Accepted(data)
  BY <1>2, <1>4, TableRows DEF Accepted, CanDispatch, Divided
<1>6. Callable(data, n, {"responses", "raw_prompt"})
  BY <1>2, <1>4, <1>5 DEF Callable
<1>7. Called(data, PrivilegedLogProb) = One("ref_log_prob", column)
  BY <1>6, PrivilegedLogProbCalled
<1>8. IsList(column, n)
  BY DEF IsList
<1> HIDE DEF n, column
<1>9. CanUnion(batch, Rename(Called(data, PrivilegedLogProb), "ref_log_prob", "gopd_ref_log_prob"))
  BY <1>2, <1>3, <1>7, <1>8, CanJoin
<1> QED
  BY <1>5, <1>9 DEF data

LEMMA BaselineFits ==
    ASSUME StepInv, Plain, pc = "baseline", Rows(gen) = config.genPrompts, NEW length, NEW greedy,
           greedy = Rolled(gen, 1, 0, length)
    PROVE  CanUnion(batch, greedy)
<1>1. /\ Table(greedy, Rows(gen)) /\ DOMAIN greedy = {"input_ids", "raw_prompt"} \cup Answering(config)
      /\ Table(batch, config.genPrompts) /\ DOMAIN batch = {"data_source"}
  BY GreedyRows
<1>2. Rows(gen) \in Nat
  BY GenNow DEF Generating
<1>3. Rows(greedy) = Rows(gen) /\ Rows(batch) = Rows(gen)
  BY <1>1, <1>2, TableRows
<1>4. DOMAIN batch \cap DOMAIN greedy = {}
  BY <1>1 DEF Answering, Masks
<1> QED
  BY <1>3, <1>4 DEF CanUnion

LEMMA AssembleFits ==
    ASSUME StepInv, Plain, pc = "assemble", ExactRows(gen, out, config)
    PROVE  /\ CanUnion(Repeated, out)
           /\ Rows(Repeat(Columns(gen, {"raw_prompt"}), config.samples)) = Rows(Union(Repeated, out))
<1> DEFINE n == BatchSize(config)
           rows == Repeated
           s == config.samples
           own == Columns(gen, {"raw_prompt"})
           w == Rows(gen)
<1>1. RepeatedRows(rows, config, taken, actor) /\ Answers(out, config, taken, actor)
  BY RepeatedNow, WaitingNow
<1>2. /\ config \in Configs /\ Sizes(config) /\ Prompted(gen, config, taken)
      /\ w \in Nat \ {0} /\ Table(gen, w)
  BY GenNow DEF Generating
<1>3. n \in Nat /\ s \in Nat \ {0} /\ w = config.genPrompts /\ s * w = n /\ Rows(out) = n
  BY <1>2 DEF Sizes, BatchSize, ExactRows
<1>4. Table(rows, n) /\ Table(out, n)
  BY <1>1, <1>3 DEF RepeatedRows, Answers
<1> HIDE DEF rows, n
<1>5. Rows(rows) = n /\ Rows(out) = n
  BY <1>3, <1>4, TableRows
<1>6. DOMAIN rows \cap DOMAIN out \subseteq {"raw_prompt"}
  BY <1>1 DEF RepeatedRows, Answers, Answering, Masks
<1>7. ASSUME "raw_prompt" \in DOMAIN rows \cap DOMAIN out PROVE rows["raw_prompt"] = out["raw_prompt"]
  <2>1. \A i \in 1 .. n : rows["raw_prompt"][i] = Earlier(config, taken) + SourceRow(i, s)
    BY <1>1, <1>7 DEF RepeatedRows, n
  <2>2. \A i \in 1 .. n : out["raw_prompt"][i] = Earlier(config, taken) + SourceRow(i, s)
    BY <1>1, <1>7 DEF Answers, AnswersRow, n
  <2>3. IsList(rows["raw_prompt"], n) /\ IsList(out["raw_prompt"], n)
    BY <1>4, <1>7 DEF Table
  <2> QED
    BY <2>1, <2>2, <2>3, SameList
<1>8. CanUnion(rows, out)
  BY <1>5, <1>6, <1>7 DEF CanUnion
<1>9. Rows(Union(rows, out)) = n
  <2>1. Joint(Union(rows, out), rows, out, n)
    BY <1>4, UnionTable
  <2> QED
    BY <1>3, <2>1, TableRows DEF Joint
<1>10. Rows(Repeat(own, s)) = n
  <2>1. "raw_prompt" \in DOMAIN gen
    BY <1>2 DEF Prompted
  <2>2. Chosen(own, gen, {"raw_prompt"}, w)
    BY <1>2, <2>1, ColumnsTable
  <2> HIDE DEF own, w
  <2>3. RepeatOf(Repeat(own, s), own, w, s)
    BY <1>2, <1>3, <2>2, RepeatRows DEF Chosen
  <2> QED
    BY <1>3, <2>3, TableRows DEF RepeatOf
<1> QED
  BY <1>8, <1>9, <1>10 DEF rows

\* Exactly the rows asked for are there, and nothing has failed.
FitInv ==
    Plain /\ Fits(config) =>
        /\ ~failed
        /\ pc = "baseline" \/ pc = "assemble" => ExactRows(gen, out, config)

\* A step that is not of generation, and does not fail.
LEMMA FitStep ==
    ASSUME FitInv, config' = config, failed' = failed, pc' # "baseline" /\ pc' # "assemble"
    PROVE  FitInv'
  BY DEF FitInv, Plain

\* A call that is accepted and whose answers fit does not fail.
LEMMA FittingJoin ==
    ASSUME FitInv, NEW here, NEW there \in {"score", "ref", "teacher", "gopd_ref", "values", "adv"},
           NEW left, NEW argument, NEW Method(_), NEW old, NEW new,
           Accepted(argument), CanUnion(left, Rename(Called(argument, Method), old, new)),
           Join(here, there, left, argument, Method, old, new)
    PROVE  FitInv'
<1>1. config' = config /\ failed' = failed /\ pc' # "baseline" /\ pc' # "assemble"
  BY DEF Join
<1> QED
  BY <1>1, FitStep

LEMMA FittingSkip ==
    ASSUME FitInv, NEW here, NEW there, there \notin {"baseline", "assemble"}, Skip(here, there)
    PROVE  FitInv'
<1>1. config' = config /\ failed' = failed /\ pc' = there
  BY DEF Skip
<1> QED
  BY <1>1, FitStep

LEMMA JoinsFit ==
    ASSUME StepInv, Plain, Fits(config), FitInv,
           RewardModel \/ OldLogProb \/ Reference \/ ReferenceThen("adv") \/ Teacher \/ GopdReference \/ Values
    PROVE  FitInv'
<1>1. CASE RewardModel
  <2>1. CASE config.rewardModel
    <3>1. Join("reward", "score", AsLeft(batch), batch, RmScores, "rm_scores", "rm_scores")
      BY <1>1, <2>1 DEF RewardModel
    <3>2. pc = "reward"
      BY <3>1 DEF Join
    <3>3. Join("reward", "score", batch, batch, RmScores, "rm_scores", "rm_scores")
      BY <3>1, <3>2, RmScoresFit
    <3> QED
      BY <3>2, <3>3, RmScoresFit, FittingJoin
  <2> QED
    BY <1>1, <2>1, FittingSkip DEF RewardModel
<1>2. CASE OldLogProb
  <2>1. Join("old_log_prob", "ref", AsLeft(batch), batch, LogProb, "old_log_probs", "old_log_probs")
    BY <1>2 DEF OldLogProb
  <2>2. pc = "old_log_prob"
    BY <2>1 DEF Join
  <2>3. Join("old_log_prob", "ref", batch, batch, LogProb, "old_log_probs", "old_log_probs")
    BY <2>1, <2>2, OldLogProbsFit
  <2> QED
    BY <2>2, <2>3, OldLogProbsFit, FittingJoin
<1>3. ASSUME NEW there \in {"teacher", "adv"}, ReferenceThen(there) PROVE FitInv'
  <2>1. CASE config.reference
    <3>1. Join("ref", there, AsLeft(batch), batch, RefLogProb, "ref_log_prob", "ref_log_prob")
      BY <1>3, <2>1 DEF ReferenceThen
    <3>2. pc = "ref"
      BY <3>1 DEF Join
    <3>3. Join("ref", there, batch, batch, RefLogProb, "ref_log_prob", "ref_log_prob")
      BY <3>1, <3>2, RefLogProbFits
    <3> QED
      BY <3>2, <3>3, RefLogProbFits, FittingJoin
  <2> QED
    BY <1>3, <2>1, FittingSkip DEF ReferenceThen
<1>4. CASE Teacher
  <2>1. CASE config.teacher
    <3>1. Join("teacher", "gopd_ref", batch, PrivilegedBatch, PrivilegedLogProb, "ref_log_prob", "teacher_log_prob")
      BY <1>4, <2>1 DEF Teacher
    <3>2. pc = "teacher"
      BY <3>1 DEF Join
    <3> QED
      BY <2>1, <3>1, <3>2, TeacherFits, FittingJoin
  <2> QED
    BY <1>4, <2>1, FittingSkip DEF Teacher
<1>5. CASE GopdReference
  <2>1. CASE config.gopdRef
    <3>1. Join("gopd_ref", "values", batch, PrivilegedBatch, PrivilegedLogProb, "ref_log_prob", "gopd_ref_log_prob")
      BY <1>5, <2>1 DEF GopdReference
    <3>2. pc = "gopd_ref"
      BY <3>1 DEF Join
    <3> QED
      BY <2>1, <3>1, <3>2, GopdTeacherFits, FittingJoin
  <2>2. CASE config.estimator = "GOPD" /\ ~config.gopdRef
    <3>1. Join("gopd_ref", "values", AsLeft(batch), batch, RefLogProb, "ref_log_prob", "gopd_ref_log_prob")
      BY <1>5, <2>2 DEF GopdReference
    <3>2. pc = "gopd_ref"
      BY <3>1 DEF Join
    <3>3. Join("gopd_ref", "values", batch, batch, RefLogProb, "ref_log_prob", "gopd_ref_log_prob")
      BY <3>1, <3>2, GopdLogProbFits
    <3> QED
      BY <3>2, <3>3, GopdLogProbFits, FittingJoin
  <2>3. CASE ~config.gopdRef /\ config.estimator # "GOPD"
    <3>1. Skip("gopd_ref", "values")
      BY <1>5, <2>3 DEF GopdReference
    <3> QED
      BY <3>1, FittingSkip
  <2> QED
    BY <2>1, <2>2, <2>3
<1>6. CASE Values
  <2>1. CASE UseCritic
    <3>1. Join("values", "adv", AsLeft(batch), batch, CriticValues, "values", "values")
      BY <1>6, <2>1 DEF Values
    <3>2. pc = "values"
      BY <3>1 DEF Join
    <3>3. Join("values", "adv", batch, batch, CriticValues, "values", "values")
      BY <3>1, <3>2, ValuesFit
    <3> QED
      BY <3>2, <3>3, ValuesFit, FittingJoin
  <2> QED
    BY <1>6, <2>1, FittingSkip DEF Values
<1> QED
  BY <1>1, <1>2, <1>3, <1>4, <1>5, <1>6 DEF Reference

LEMMA BaselineIsFitting ==
    ASSUME StepInv, Plain, Fits(config), FitInv, Baseline
    PROVE  FitInv'
<1> DEFINE greedy == Rolled(gen, 1, 0, [p \in ToSet(gen["input_ids"]) \X {0} |-> 1])
<1>1. pc = "baseline"
  BY DEF Baseline
<1>2. ExactRows(gen, out, config)
  BY <1>1 DEF FitInv
<1>3. CanUnion(batch, greedy)
  <2>1. Rows(gen) = config.genPrompts
    BY <1>2 DEF ExactRows
  <2> QED
    BY <1>1, <2>1, BaselineFits
<1>4. UNCHANGED <<config, gen, out, failed>>
  <2>1. \/ CanUnion(batch, greedy) /\ UNCHANGED <<config, gen, out, failed>>
        \/ ~CanUnion(batch, greedy)
    BY DEF Baseline, Rollout, Call, Rolled, AsLeft
  <2> HIDE DEF greedy
  <2> QED
    BY <1>3, <2>1
<1> QED
  BY <1>2, <1>4 DEF FitInv, Plain, ExactRows

LEMMA AssembleIsFitting ==
    ASSUME StepInv, Plain, Fits(config), FitInv, Assemble
    PROVE  FitInv'
<1>1. pc = "assemble"
  BY DEF Assemble
<1>2. ExactRows(gen, out, config)
  BY <1>1 DEF FitInv
<1>3. /\ CanUnion(Repeated, out)
      /\ Rows(Repeat(Columns(gen, {"raw_prompt"}), config.samples)) = Rows(Union(Repeated, out))
  BY <1>1, <1>2, AssembleFits
<1>4. config' = config /\ failed' = failed /\ pc' = "balance"
  BY <1>3 DEF Assemble
<1> QED
  BY <1>4, FitStep

LEMMA AssembleNewIsFitting ==
    ASSUME StepInv, Plain, Fits(config), FitInv, AssembleNew
    PROVE  FitInv'
<1>1. pc = "assemble"
  BY DEF AssembleNew, AssembleThen
<1>2. ExactRows(gen, out, config)
  BY <1>1 DEF FitInv
<1>3. CanUnion(Repeated, out)
  BY <1>1, <1>2, AssembleFits
<1>4. config' = config /\ failed' = failed /\ pc' = "reward"
  BY <1>3 DEF AssembleNew, AssembleThen
<1> QED
  BY <1>4, FitStep

LEMMA BalanceIsFitting ==
    ASSUME StepInv, Plain, Fits(config), FitInv, NEW there \in {"reward", "old_log_prob"}, BalanceOrSkip(there)
    PROVE  FitInv'
<1>1. pc = "balance"
  BY DEF BalanceOrSkip, BalanceThen, Skip
<1>2. pc \in RowPhases
  BY <1>1 DEF RowPhases, BeforeValues, BeforeGopd, BeforeTeacher, BeforeReference, BeforeOld, BeforeScores
<1>3. /\ Size(config, pc) \in Nat \ {0} /\ Table(batch, Size(config, pc))
      /\ Divided(Size(config, pc), config.workers)
  BY <1>2, FittingBatch
<1>4. Rows(batch) % config.workers = 0
  <2>1. Rows(batch) = Size(config, pc)
    BY <1>3, TableRows
  <2> QED
    BY <1>3, <2>1 DEF Divided
<1>5. config' = config /\ failed' = failed /\ pc' = there
  BY <1>4 DEF BalanceOrSkip, BalanceThen, Skip
<1> QED
  BY <1>5, FitStep

LEMMA FittingStep == StepInv /\ FitInv /\ [TrainersNext]_allVars => FitInv'
<1> SUFFICES ASSUME StepInv, FitInv, [TrainersNext]_allVars PROVE FitInv'
  OBVIOUS
<1>1. CASE UNCHANGED allVars
  <2>1. UNCHANGED <<config, pc, gen, out, failed>>
    BY <1>1 DEF allVars, vars
  <2> QED
    BY <2>1 DEF FitInv, Plain, ExactRows
<1>2. CASE TrainersNext /\ ~(Plain /\ Fits(config))
  <2>1. config' = config
    BY <1>2, ConfigKept
  <2> QED
    BY <1>2, <2>1 DEF FitInv, Plain
<1>3. CASE TrainersNext /\ Plain /\ Fits(config)
  <2>1. CASE Generate
    <3>1. failed' = failed /\ ExactRows(gen', out', config) /\ config' = config
      BY <1>3, <2>1, GenerateStep, ConfigKept
    <3> QED
      BY <1>3, <3>1 DEF FitInv, Plain
  <2>2. CASE Baseline
    BY <1>3, <2>2, BaselineIsFitting
  <2>3. CASE Assemble
    BY <1>3, <2>3, AssembleIsFitting
  <2>4. CASE AssembleNew
    BY <1>3, <2>4, AssembleNewIsFitting
  <2>5. CASE Balance \/ BalanceNew
    BY <1>3, <2>5, BalanceIsFitting DEF Balance, BalanceNew
  <2>6. CASE RewardModel \/ OldLogProb \/ Reference \/ ReferenceThen("adv") \/ Teacher \/ GopdReference \/ Values
    BY <1>3, <2>6, JoinsFit
  <2>7. CASE \/ NextBatch \/ NextGenBatch \/ Score \/ ComputeAdvantage \/ ComputeDapoAdvantage
             \/ ComputeSppoAdvantage \/ UpdateCritic \/ UpdateActor
    <3>1. failed' = failed /\ pc' # "baseline" /\ pc' # "assemble"
      BY <2>7 DEF NextBatch, NextGenBatch, PopBatch, Score, ComputeAdvantage, ComputeDapoAdvantage,
                  ComputeSppoAdvantage, UpdateCritic, UpdateActor, Warm
    <3> QED
      BY <1>3, <3>1, FitStep, ConfigKept
  <2>8. CASE ScoreNew \/ NoFilter \/ FilterGroups \/ Align \/ Exhausted
    <3>1. failed' = failed /\ pc' # "baseline" /\ pc' # "assemble"
      BY <2>8 DEF ScoreNew, NoFilter, FilterGroups, Align, Exhausted
    <3> QED
      BY <1>3, <3>1, FitStep, ConfigKept
  <2>9. CASE Validate \/ EndStep \/ DapoEndStep \/ EndOfBatch
    <3>1. failed' = failed /\ pc' # "baseline" /\ pc' # "assemble"
      BY <2>9 DEF Validate, ValidateThen, EndStep, DapoEndStep, EndOfBatch, GiveUpBatch
    <3> QED
      BY <1>3, <3>1, FitStep, ConfigKept
  <2>10. CASE DapoNext
    BY <2>1, <2>2, <2>4, <2>5, <2>6, <2>7, <2>8, <2>9, <2>10 DEF DapoNext, Sampling, Updating
  <2>11. CASE Next \/ SppoNext
    BY <2>1, <2>2, <2>3, <2>5, <2>6, <2>7, <2>9, <2>11 DEF Next, SppoNext
  <2>12. Next \/ SppoNext \/ DapoNext
    BY <1>3 DEF TrainersNext, Plain, EntropyNext, EntropySampling, EntropyUpdating, DapoNext
  <2> QED
    BY <2>10, <2>11, <2>12
<1> QED
  BY <1>1, <1>2, <1>3

\* No assertion of the driver fails - of a union, of chunk, or of the partitions
\* - in a step whose prompts and responses the workers divide.  _validate_config
\* asks it of train_batch_size; here it is of the batch that is really generated.
THEOREM NothingAssertedFails == TrainersSpec => [](Plain /\ Fits(config) => NoAssertionFails)
<1>1. TrainersInit => FitInv
  BY DEF TrainersInit, DapoInit, Init, FitInv
<1>2. FitInv => (Plain /\ Fits(config) => NoAssertionFails)
  BY DEF FitInv, NoAssertionFails
<1> QED
  BY TrainersInvariant, <1>1, <1>2, FittingStep, PTL DEF TrainersSpec

-----------------------------------------------------------------------------
(* Ranks of similar loads.                                                   *)

\* Lengths listed in another order have the same total.
Upto(p, m) == {p[j] : j \in 1 .. m}
Listed(own, L, p, q) ==
    /\ Len(p) = q /\ \A i, j \in 1 .. q : p[i] = p[j] => i = j
    /\ own = [j \in 1 .. q |-> L[p[j]]]
LEMMA TotalListed ==
    ASSUME NEW L \in Seq(Nat), NEW q \in Nat, NEW p \in Seq(Positions(L)), NEW own, Listed(own, L, p, q)
    PROVE  TotalLength(own, [j \in DOMAIN own |-> j]) = TotalLength(L, p)
<1> DEFINE items == [j \in DOMAIN own |-> j]
<1>0. /\ Len(p) = q /\ \A i, j \in 1 .. q : p[i] = p[j] => i = j
      /\ own = [j \in 1 .. q |-> L[p[j]]]
  BY DEF Listed
<1>1. \A j \in 1 .. q : p[j] \in Positions(L) /\ L[p[j]] \in Nat
  BY <1>0 DEF Positions
<1>2. DOMAIN own = 1 .. q /\ own \in [1 .. q -> Nat] /\ \A j \in 1 .. q : own[j] = L[p[j]]
  BY <1>0, <1>1
<1>3. ToSet(items) = 1 .. q
  BY <1>2 DEF ToSet
<1>4. IsFiniteSet(Positions(L)) /\ L \in [Positions(L) -> Nat] /\ TotalLength(L, p) = Weight(L, ToSet(p))
  BY TotalType
<1>5. IsFiniteSet(1 .. q)
  BY FS_Interval
<1>6. TotalLength(own, items) = Weight(own, 1 .. q)
  BY <1>3, TotalIsWeight
<1>7. DOMAIN p = 1 .. q
  BY <1>0
<1>8. ToSet(p) = Upto(p, q)
  BY <1>7 DEF ToSet, Upto
<1> HIDE DEF items
<1> DEFINE T == {m \in Nat : m <= q /\ Weight(own, 1 .. m) # Weight(L, Upto(p, m))}
<1>9. ASSUME T # {} PROVE FALSE
  <2>1. PICK m \in T : \A k \in T : m <= k
    <3>1. T \in SUBSET Nat
      OBVIOUS
    <3> HIDE DEF T
    <3> QED
      BY <1>9, <3>1, LeastNumber
  <2>2. m \in Nat /\ m <= q /\ Weight(own, 1 .. m) # Weight(L, Upto(p, m))
    BY <2>1
  <2>3. m # 0
    <3> SUFFICES ASSUME m = 0 PROVE FALSE
      OBVIOUS
    <3>1. 1 .. m = {} /\ Upto(p, m) = {}
      BY DEF Upto
    <3>2. Weight(own, {}) = 0
      BY <1>2, <1>5, WeightType
    <3>3. Weight(L, {}) = 0
      BY <1>4, WeightType
    <3> QED
      BY <2>2, <3>1, <3>2, <3>3
  <2>4. m - 1 \in Nat /\ m - 1 <= q /\ ~(m <= m - 1) /\ m \in 1 .. q
    BY <2>2, <2>3
  <2>5. Weight(own, 1 .. m - 1) = Weight(L, Upto(p, m - 1))
    BY <2>1, <2>4
  <2> HIDE DEF T
  <2>6. /\ 1 .. m \in SUBSET (1 .. q) /\ m \in 1 .. m /\ (1 .. m) \ {m} = 1 .. m - 1
    BY <2>4
  <2>7. Weight(own, 1 .. m) = own[m] + Weight(own, 1 .. m - 1)
    <3>1. PICK S, s : S = 1 .. q /\ s = 1 .. m
      OBVIOUS
    <3>2. IsFiniteSet(S) /\ own \in [S -> Nat] /\ s \in SUBSET S /\ m \in s
      BY <1>2, <1>5, <2>6, <3>1
    <3>3. Weight(own, s) = own[m] + Weight(own, s \ {m})
      BY <3>2, WeightRemove
    <3> QED
      BY <2>6, <3>1, <3>3
  <2>8. /\ Upto(p, m) \in SUBSET Positions(L) /\ p[m] \in Upto(p, m)
        /\ Upto(p, m) \ {p[m]} = Upto(p, m - 1)
    BY <1>0, <1>1, <2>4 DEF Upto
  <2>9. Weight(L, Upto(p, m)) = L[p[m]] + Weight(L, Upto(p, m) \ {p[m]})
    <3>1. PICK S, s, x : S = Positions(L) /\ s = Upto(p, m) /\ x = p[m]
      OBVIOUS
    <3>2. IsFiniteSet(S) /\ L \in [S -> Nat] /\ s \in SUBSET S /\ x \in s
      BY <1>4, <2>8, <3>1
    <3>3. Weight(L, s) = L[x] + Weight(L, s \ {x})
      BY <3>2, WeightRemove
    <3> QED
      BY <3>1, <3>3
  <2>10. own[m] = L[p[m]]
    BY <1>2, <2>4
  <2> QED
    BY <2>2, <2>5, <2>7, <2>8, <2>9, <2>10
<1>10. Weight(own, 1 .. q) = Weight(L, Upto(p, q))
  <2>1. q \notin T
    BY <1>9
  <2>2. q \in Nat /\ q <= q
    OBVIOUS
  <2> QED
    BY <2>1, <2>2
<1> QED
  BY <1>4, <1>6, <1>8, <1>10 DEF items

\* The tokens of the r-th of the parts of q rows, and parts that are no further
\* apart than the rows themselves.
Load(responses, q, r) ==
    LET own == [j \in 1 .. q |-> responses[(r - 1) * q + j].length]
    IN TotalLength(own, [j \in DOMAIN own |-> j])
LengthsWithin(responses, n, d) ==
    \A i, j \in 1 .. n : responses[i].length <= responses[j].length + d
LoadsWithin(responses, q, k, d) ==
    \A r, s \in 1 .. k : Load(responses, q, r) <= Load(responses, q, s) + d
Evened(responses, n, k) ==
    \A d \in Nat : LengthsWithin(responses, n, d) => LoadsWithin(responses, n \div k, k, d)

Reordered(moved, responses, order, n) == \A i \in 1 .. n : moved[i] = responses[order[i]]
LengthsOf(lengths, responses, n) ==
    /\ lengths = [i \in 1 .. n |-> responses[i].length]
    /\ \A i \in 1 .. n : responses[i].length \in Nat

\* Rows in the order of partitions of q rows each.
Moved(moved, responses, lengths, order, parts, n, k, q) ==
    /\ n \in Nat \ {0} /\ k \in Nat \ {0} /\ q \in Nat \ {0} /\ n = k * q
    /\ LengthsOf(lengths, responses, n)
    /\ PartitionsOf(parts, lengths, k)
    /\ InTurn(order, parts, k, q)
    /\ Reordered(moved, responses, order, n)

\* The rows of one of the partitions have the tokens of their part.
LEMMA LoadOfPart ==
    ASSUME NEW n, NEW k, NEW q, NEW responses, NEW lengths, NEW parts, NEW order, NEW moved,
           Moved(moved, responses, lengths, order, parts, n, k, q),
           NEW r \in 1 .. k
    PROVE  Load(moved, q, r) = TotalLength(lengths, parts[r])
<1> DEFINE own == [j \in 1 .. q |-> moved[(r - 1) * q + j].length]
<1>0. /\ n \in Nat \ {0} /\ k \in Nat \ {0} /\ q \in Nat \ {0} /\ n = k * q
      /\ LengthsOf(lengths, responses, n) /\ PartitionsOf(parts, lengths, k)
      /\ InTurn(order, parts, k, q) /\ Reordered(moved, responses, order, n)
  BY DEF Moved
<1>1. lengths \in Seq(Nat) /\ DOMAIN lengths = 1 .. n /\ Len(lengths) = n /\ Positions(lengths) = 1 .. n
  <2>1. lengths \in [1 .. n -> Nat]
    BY <1>0 DEF LengthsOf
  <2>2. lengths \in Seq(Nat) /\ DOMAIN lengths = 1 .. n
    BY <1>0, <2>1
  <2>3. Len(lengths) = n
    BY <1>0, <2>2
  <2> QED
    BY <2>2, <2>3 DEF Positions
<1>2. parts \in Seq(Seq(1 .. n)) /\ Len(parts) = k /\ Once(parts)
  BY <1>0, <1>1 DEF PartitionsOf, Partition
<1>3. PICK p : p = parts[r]
  OBVIOUS
<1>4. p \in Seq(1 .. n) /\ r \in DOMAIN parts /\ Len(p) = q
  BY <1>0, <1>2, <1>3 DEF InTurn
<1>5. DOMAIN p = 1 .. q
  BY <1>4
<1>6. \A i, j \in 1 .. q : p[i] = p[j] => i = j
  <2> TAKE i, j \in 1 .. q
  <2>1. i \in DOMAIN parts[r] /\ j \in DOMAIN parts[r]
    BY <1>3, <1>5
  <2>2. parts[r][i] = parts[r][j] => i = j
    BY <1>2, <1>4, <2>1 DEF Once
  <2> QED
    BY <1>3, <2>2
<1>7. ASSUME NEW j \in 1 .. q PROVE moved[(r - 1) * q + j].length = lengths[p[j]]
  <2>1. PICK x : x = (r - 1) * q + j
    OBVIOUS
  <2>2. x \in 1 .. n
    BY <1>0, <2>1, RowInRange
  <2>3. order[x] = p[j] /\ p[j] \in 1 .. n
    BY <1>0, <1>3, <1>4, <1>5, <2>1 DEF InTurn
  <2>4. moved[x] = responses[p[j]]
    BY <1>0, <2>2, <2>3 DEF Reordered
  <2>5. lengths[p[j]] = responses[p[j]].length
    BY <1>0, <2>3 DEF LengthsOf
  <2> QED
    BY <2>1, <2>4, <2>5
<1>8. own = [j \in 1 .. q |-> lengths[p[j]]]
  BY <1>7
<1>9. Load(moved, q, r) = TotalLength(own, [j \in DOMAIN own |-> j])
  BY DEF Load
<1> HIDE DEF own
<1>10. Listed(own, lengths, p, q)
  BY <1>4, <1>6, <1>8 DEF Listed
<1>11. p \in Seq(Positions(lengths)) /\ q \in Nat
  BY <1>0, <1>1, <1>4
<1>12. TotalLength(own, [j \in DOMAIN own |-> j]) = TotalLength(lengths, p)
  BY <1>1, <1>10, <1>11, TotalListed
<1> QED
  BY <1>3, <1>9, <1>12

\* Balanced rows are even.
OrderOf(order, lengths, k) == order = FlattenSeq(BalancedPartitions(lengths, k, TRUE))
LEMMA BalancedEven ==
    ASSUME NEW n \in Nat \ {0}, NEW k \in Nat \ {0}, Divided(n, k),
           NEW responses, NEW lengths, LengthsOf(lengths, responses, n),
           NEW order, OrderOf(order, lengths, k),
           NEW moved, Reordered(moved, responses, order, n)
    PROVE  Evened(moved, n, k)
<1>1. lengths \in Seq(Nat) /\ DOMAIN lengths = 1 .. n /\ Len(lengths) = n /\ lengths # <<>>
  <2>1. lengths \in [1 .. n -> Nat]
    BY DEF LengthsOf
  <2>2. lengths \in Seq(Nat) /\ DOMAIN lengths = 1 .. n
    BY <2>1
  <2>3. Len(lengths) = n
    BY <2>2
  <2> QED
    BY <2>2, <2>3
<1>2. PICK parts : parts = BalancedPartitions(lengths, k, TRUE)
  OBVIOUS
<1> SUFFICES ASSUME NEW d \in Nat, LengthsWithin(moved, n, d) PROVE LoadsWithin(moved, n \div k, k, d)
  BY DEF Evened
<1>3. Order(order, n)
  <2>1. Divided(Len(lengths), k)
    BY <1>1
  <2>2. Order(FlattenSeq(BalancedPartitions(lengths, k, TRUE)), Len(lengths))
    BY <1>1, <2>1, EvenOrder
  <2> QED
    BY <1>1, <2>2 DEF OrderOf
<1>4. \A i, j \in 1 .. n : lengths[i] <= lengths[j] + d
  <2> TAKE i, j \in 1 .. n
  <2>1. PICK x, y \in 1 .. n : order[x] = i /\ order[y] = j
    BY <1>3 DEF Order
  <2>2. moved[x].length <= moved[y].length + d
    BY DEF LengthsWithin
  <2>3. moved[x] = responses[i] /\ moved[y] = responses[j]
    BY <2>1 DEF Reordered
  <2>4. lengths[i] = responses[i].length /\ lengths[j] = responses[j].length
    BY DEF LengthsOf
  <2> QED
    BY <2>2, <2>3, <2>4
<1>5. BalancedInto(parts, lengths, k, d, TRUE)
  <2>1. \A i, j \in DOMAIN lengths : lengths[i] <= lengths[j] + d
    BY <1>1, <1>4
  <2>2. Len(lengths) % k = 0
    BY <1>1 DEF Divided
  <2> QED
    BY <1>1, <1>2, <2>1, <2>2, EqualPartitions
<1>6. /\ PartitionsOf(parts, lengths, k) /\ \A i, j \in 1 .. k : Len(parts[i]) = Len(parts[j])
      /\ \A i, j \in 1 .. k : TotalLength(lengths, parts[i]) <= TotalLength(lengths, parts[j]) + d
  BY <1>5 DEF BalancedInto
<1>7. PICK q \in Nat \ {0} : n = k * q /\ InTurn(order, parts, k, q)
  BY <1>1, <1>2, <1>6, FlatOrder DEF OrderOf
<1>8. n \div k = q
  BY <1>7
<1>9. \A r \in 1 .. k : Load(moved, q, r) = TotalLength(lengths, parts[r])
  <2> TAKE r \in 1 .. k
  <2>1. Moved(moved, responses, lengths, order, parts, n, k, q)
    BY <1>6, <1>7 DEF Moved
  <2> QED
    BY <2>1, LoadOfPart
<1> QED
  BY <1>6, <1>8, <1>9 DEF LoadsWithin

\* From the balanced batch on, no step moves a response.
EvenPhases(c) ==
    (RowPhases \ ({"balance"} \cup IF Sampled(c) THEN NewPhases ELSE {})) \cup LearningPhases
EvenRows(responses, n, k) == Divided(n, k) /\ Evened(responses, n, k)
EvenInv ==
    Plain /\ config.balance /\ ~config.pfPpo /\ pc \in EvenPhases(config) =>
        EvenRows(batch["responses"], StepSize(config), config.workers)
LEMMA BalanceEvens ==
    ASSUME StepInv, Plain, config.balance, NEW there, BalanceOrSkip(there), pc' # "failed"
    PROVE  EvenRows(batch'["responses"], StepSize(config), config.workers)
<1> DEFINE n == StepSize(config)
           k == config.workers
           lengths == [i \in 1 .. Rows(batch) |-> batch["responses"][i].length]
<1>1. pc = "balance" /\ Rows(batch) % k = 0 /\ batch' = Take(batch, BalanceOrder)
  BY DEF BalanceOrSkip, BalanceThen, BalanceOrder, Fail
<1>2. "balance" \in RowPhases /\ Size(config, "balance") = n
  BY DEF RowPhases, BeforeValues, BeforeGopd, BeforeTeacher, BeforeReference, BeforeOld, BeforeScores, Size, NewPhases
<1>3. /\ Sizes(config) /\ n \in Nat \ {0} /\ Told(batch, n, config, actor) /\ Table(batch, n)
      /\ "responses" \in DOMAIN batch
  BY <1>1, <1>2, RowsNow
<1>4. Rows(batch) = n /\ k \in Nat \ {0}
  BY <1>3, TableRows DEF Sizes
<1>5. LengthsOf(lengths, batch["responses"], n)
  <2>1. ASSUME NEW i \in 1 .. n PROVE batch["responses"][i].length \in Nat
    <3>1. CellTold("responses", batch["responses"][i], batch["responses"][i], config, actor)
      BY <1>3 DEF Told
    <3> QED
      BY <3>1, BoundsAssumption DEF CellTold, Fresh
  <2> QED
    BY <1>4, <2>1 DEF LengthsOf
<1>6. Divided(n, k)
  BY <1>1, <1>4 DEF Divided
<1>7. OrderOf(BalanceOrder, lengths, k)
  BY DEF OrderOf, BalanceOrder, BalanceBatch
<1>8. RowsAt(batch', batch, BalanceOrder, n)
  BY <1>1, <1>2, BalanceMoves
<1> HIDE DEF n, k, lengths
<1>9. Reordered(batch'["responses"], batch["responses"], BalanceOrder, n)
  BY <1>3, <1>8 DEF RowsAt, Reordered
<1>10. Evened(batch'["responses"], n, k)
  BY <1>3, <1>4, <1>5, <1>6, <1>7, <1>9, BalancedEven
<1> QED
  BY <1>6, <1>10 DEF n, k, EvenRows

LEMMA EvenStep == StepInv /\ StepInv' /\ EvenInv /\ [TrainersNext]_allVars => EvenInv'
<1> USE DEF RowPhases, BeforeValues, BeforeGopd, BeforeTeacher, BeforeReference, BeforeOld, BeforeScores,
            LearningPhases, NewPhases
<1> SUFFICES ASSUME StepInv, StepInv', EvenInv, [TrainersNext]_allVars,
                    Plain', config'.balance, ~config'.pfPpo, pc' \in EvenPhases(config')
             PROVE  EvenRows(batch'["responses"], StepSize(config'), config'.workers)
  BY DEF EvenInv, StepSize, BatchSize
<1>1. config' = config /\ Plain
  BY ConfigKept DEF allVars, vars, Plain
<1>2. ASSUME pc \in EvenPhases(config), KeepsResponses
      PROVE  EvenRows(batch'["responses"], StepSize(config'), config'.workers)
  BY <1>1, <1>2 DEF EvenInv, KeepsResponses, KeepsColumn
<1>3. CASE UNCHANGED allVars
  BY <1>1, <1>2, <1>3 DEF allVars, vars, KeepsResponses, KeepsColumn
<1>4. ASSUME \/ RewardModel \/ OldLogProb \/ Teacher \/ GopdReference \/ Values
             \/ \E there \in {"teacher", "adv"} : ReferenceThen(there)
      PROVE  EvenRows(batch'["responses"], StepSize(config'), config'.workers)
  <2>1. pc' # "failed"
    BY DEF EvenPhases
  <2>2. /\ pc \in RowPhases \ {"balance"} /\ pc' \in RowPhases /\ (pc' \in NewPhases <=> pc \in NewPhases)
        /\ batch' = batch \/ \E left, answers : AnswersJoin(left, answers)
    BY <1>1, <1>4, <2>1, Asks
  <2>3. Size(config, pc') = Size(config, pc) /\ "responses" \in DOMAIN batch
    BY <1>1, <2>2, RowsNow DEF Size
  <2>4. KeepsResponses
    <3>1. CASE batch' = batch
      BY <3>1 DEF KeepsResponses, KeepsColumn
    <3>2. CASE \E left, answers : AnswersJoin(left, answers)
      BY <1>1, <2>2, <2>3, <3>2, JoinKeeps DEF KeepsResponses
    <3> QED
      BY <2>2, <3>1, <3>2
  <2>5. pc \in EvenPhases(config)
    BY <1>1, <2>2 DEF EvenPhases
  <2> QED
    BY <1>2, <2>4, <2>5
<1>5. CASE Balance \/ BalanceNew
  <2>1. pc' # "failed"
    BY DEF EvenPhases
  <2> QED
    BY <1>1, <1>5, <2>1, BalanceEvens DEF Balance, BalanceNew
<1>6. CASE (Score /\ ~Sampled(config)) \/ UpdateCritic
  <2>1. batch' = batch /\ pc \in EvenPhases(config)
    BY <1>6 DEF Score, UpdateCritic, EvenPhases
  <2> QED
    BY <1>2, <2>1 DEF KeepsResponses, KeepsColumn
<1>7. CASE \/ config.trainer # "sppo" /\ ComputeAdvantage
           \/ config.trainer = "sppo" /\ ComputeSppoAdvantage
           \/ Sampled(config) /\ ComputeDapoAdvantage
  <2>1. pc = "adv" /\ pc \in EvenPhases(config)
    BY <1>7 DEF ComputeAdvantage, ComputeSppoAdvantage, ComputeDapoAdvantage, EvenPhases
  <2>2. "responses" \in DOMAIN batch
    BY <1>1, <2>1, RowsNow
  <2>3. KeepsResponses
    BY <1>1, <1>7, <2>1, <2>2, AdvantageKeeps, DapoAdvantageKeeps DEF KeepsResponses
  <2> QED
    BY <1>2, <2>1, <2>3
<1>8. CASE NextBatch \/ NextGenBatch \/ Generate \/ Baseline \/ Assemble
  <2>1. pc' \in {"generate", "baseline", "assemble", "balance", "failed"}
    BY <1>8 DEF NextBatch, NextGenBatch, PopBatch, Generate, Baseline, Assemble, Fail
  <2> QED
    BY <2>1 DEF EvenPhases
<1>9. CASE UpdateActor \/ Validate \/ EndStep \/ DapoEndStep \/ EndOfBatch
  <2>1. pc' \in {"test", "batch", "end", "done"}
    BY <1>9 DEF UpdateActor, Validate, ValidateThen, EndStep, DapoEndStep, EndOfBatch, GiveUpBatch
  <2> QED
    BY <2>1 DEF EvenPhases
<1>10. CASE Sampled(config) /\ (AssembleNew \/ ScoreNew \/ NoFilter \/ FilterGroups \/ Align \/ Exhausted)
  <2>1. pc' \in NewPhases \cup {"failed", "align", "batch", "raised", "balance", "exhausted"}
    BY <1>10 DEF AssembleNew, AssembleThen, ScoreNew, NoFilter, FilterGroups, Align, Exhausted, Fail
  <2> QED
    BY <1>1, <1>10, <2>1 DEF EvenPhases
<1> HIDE DEF RowPhases, BeforeValues, BeforeGopd, BeforeTeacher, BeforeReference, BeforeOld, BeforeScores,
             LearningPhases, NewPhases
<1>11. CASE config.trainer = "ppo" /\ Next
  <2>1. ~Sampled(config) /\ config.trainer # "sppo"
    BY <1>11 DEF Sampled
  <2> QED
    BY <1>4, <1>5, <1>6, <1>7, <1>8, <1>9, <1>11, <2>1 DEF Next, Reference
<1>12. CASE config.trainer = "sppo" /\ SppoNext
  <2>1. ~Sampled(config)
    BY <1>12 DEF Sampled
  <2> QED
    BY <1>4, <1>5, <1>6, <1>7, <1>8, <1>9, <1>12, <2>1 DEF SppoNext
<1>13. CASE Sampled(config) /\ DapoNext
  <2>1. CASE Sampling
    BY <1>4, <1>8, <1>10, <1>13, <2>1 DEF Sampling
  <2>2. CASE Updating
    BY <1>4, <1>5, <1>7, <1>9, <1>10, <1>13, <2>2 DEF Updating, Reference
  <2> QED
    BY <1>13, <2>1, <2>2 DEF DapoNext
<1> QED
  BY <1>1, <1>3, <1>11, <1>12, <1>13, SampledTrainer DEF TrainersNext, Plain, Sampled

\* The longest and the shortest of lengths.
LEMMA LengthsSpread ==
    ASSUME NEW n \in Nat \ {0}, NEW lengths \in Seq(Nat), DOMAIN lengths = 1 .. n
    PROVE  /\ Max(ToSet(lengths)) - Min(ToSet(lengths)) \in Nat
           /\ \A i, j \in 1 .. n : lengths[i] <= lengths[j] + (Max(ToSet(lengths)) - Min(ToSet(lengths)))
<1>1. PICK S : S = ToSet(lengths)
  OBVIOUS
<1>2. S = {lengths[i] : i \in 1 .. n}
  BY <1>1 DEF ToSet
<1>3. \A i \in 1 .. n : lengths[i] \in Nat
  OBVIOUS
<1>4. S \in SUBSET Nat /\ S # {}
  BY <1>2, <1>3
<1>5. PICK longest \in Nat : \A x \in S : x <= longest
  BY <1>2, Longest
<1>6. Max(S) \in S /\ \A x \in S : x <= Max(S)
  BY <1>4, <1>5, GreatestNumber
<1>7. Min(S) \in S /\ \A x \in S : Min(S) <= x
  <2>1. \E m \in S : \A x \in S : m <= x
    BY <1>4, LeastNumber
  <2> QED
    BY <2>1 DEF Min
<1>8. PICK a, b \in Nat : a = Min(S) /\ b = Max(S)
  BY <1>4, <1>6, <1>7
<1>9. a <= b /\ \A i \in 1 .. n : a <= lengths[i] /\ lengths[i] <= b
  BY <1>2, <1>4, <1>6, <1>7, <1>8
<1>10. \A i, j \in 1 .. n : lengths[i] <= lengths[j] + (b - a)
  BY <1>3, <1>9
<1> QED
  BY <1>1, <1>8, <1>9, <1>10

\* The tokens of a rank's part of the batch.
LEMMA TokensOfPart ==
    ASSUME NEW n \in Nat \ {0}, NEW k \in Nat \ {0}, Divided(n, k), NEW data, Table(data, n),
           "responses" \in DOMAIN data, NEW r \in 1 .. k
    PROVE  LET part == Part(data, k, r)
               own == [i \in RowsOf(part) |-> part["responses"][i].length]
           IN TotalLength(own, [i \in DOMAIN own |-> i]) = Load(data["responses"], n \div k, r)
<1> DEFINE part == Part(data, k, r)
           own == [i \in RowsOf(part) |-> part["responses"][i].length]
<1>1. PICK q \in Nat : q = n \div k /\ n = k * q
  BY DEF Divided
<1>2. Shard(part, data, q, (r - 1) * q)
  BY <1>1, PartRows
<1> HIDE DEF part
<1>3. Rows(part) = q
  BY <1>2, TableRows DEF Shard
<1>4. \A i \in 1 .. q : part["responses"][i] = data["responses"][(r - 1) * q + i]
  BY <1>2 DEF Shard
<1>5. own = [i \in 1 .. q |-> data["responses"][(r - 1) * q + i].length]
  BY <1>3, <1>4 DEF RowsOf
<1>6. TotalLength(own, [i \in DOMAIN own |-> i]) = Load(data["responses"], n \div k, r)
  BY <1>1, <1>5 DEF Load
<1> QED
  BY <1>6 DEF part

LEMMA LoadType ==
    ASSUME NEW n \in Nat \ {0}, NEW k \in Nat \ {0}, Divided(n, k), NEW responses,
           \A i \in 1 .. n : responses[i].length \in Nat, NEW r \in 1 .. k
    PROVE  Load(responses, n \div k, r) \in Nat
<1> DEFINE own(q) == [j \in 1 .. q |-> responses[(r - 1) * q + j].length]
           items(q) == [j \in DOMAIN own(q) |-> j]
<1>1. PICK q \in Nat \ {0} : q = n \div k /\ n = k * q
  BY DEF Divided
<1>2. own(q) \in [1 .. q -> Nat]
  <2> SUFFICES ASSUME NEW j \in 1 .. q PROVE responses[(r - 1) * q + j].length \in Nat
    OBVIOUS
  <2>1. (r - 1) * q + j \in 1 .. k * q
    BY RowInRange
  <2> QED
    BY <1>1, <2>1
<1>3. Load(responses, n \div k, r) = TotalLength(own(q), items(q))
  BY <1>1 DEF Load
<1>4. items(q) \in [1 .. q -> 1 .. q]
  OBVIOUS
<1> HIDE DEF own, items
<1>5. own(q) \in Seq(Nat) /\ Len(own(q)) = q /\ items(q) \in Seq(1 .. q)
  <2>1. PICK f, g : f = own(q) /\ g = items(q)
    OBVIOUS
  <2>2. f \in Seq(Nat) /\ DOMAIN f = 1 .. q
    BY <1>2, <2>1
  <2>3. Len(f) = q
    BY <2>2
  <2>4. g \in Seq(1 .. q)
    BY <1>4, <2>1
  <2> QED
    BY <2>1, <2>2, <2>3, <2>4
<1>6. items(q) \in Seq(Positions(own(q)))
  BY <1>5 DEF Positions
<1> QED
  BY <1>3, <1>5, <1>6, TotalType

LEMMA BalancedInStep == StepInv /\ EvenInv => (Plain => RanksBalanced)
<1> SUFFICES ASSUME StepInv, EvenInv, Plain, Learning, config.balance, ~config.pfPpo
             PROVE  RanksBalanced
  BY DEF RanksBalanced
<1> DEFINE n == StepSize(config)
           k == config.workers
           lengths == [i \in RowsOf(batch) |-> batch["responses"][i].length]
           tokens(r) ==
               LET part == Part(batch, k, r)
                   own == [i \in RowsOf(part) |-> part["responses"][i].length]
               IN TotalLength(own, [i \in DOMAIN own |-> i])
           d == Max(ToSet(lengths)) - Min(ToSet(lengths))
<1>1. /\ config \in Configs /\ Sizes(config) /\ n \in Nat \ {0} /\ Told(batch, n, config, actor)
      /\ "responses" \in DOMAIN batch /\ Rows(batch) = n
  BY LearningRows
<1>2. Table(batch, n)
  BY <1>1 DEF Told
<1>3. k \in Nat \ {0}
  BY <1>1 DEF Sizes
<1>4. Evened(batch["responses"], n, k) /\ Divided(n, k)
  BY DEF EvenInv, EvenRows, EvenPhases, Learning, LearningPhases
<1>6. \A i \in 1 .. n : batch["responses"][i].length \in Nat
  <2> TAKE i \in 1 .. n
  <2>1. CellTold("responses", batch["responses"][i], batch["responses"][i], config, actor)
    BY <1>1 DEF Told
  <2> QED
    BY <2>1, BoundsAssumption DEF CellTold, Fresh
<1>7. /\ lengths \in Seq(Nat) /\ DOMAIN lengths = 1 .. n
      /\ \A i \in 1 .. n : lengths[i] = batch["responses"][i].length
  <2>1. lengths \in [1 .. n -> Nat] /\ \A i \in 1 .. n : lengths[i] = batch["responses"][i].length
    BY <1>1, <1>6 DEF RowsOf
  <2> HIDE DEF lengths, n
  <2> QED
    BY <1>1, <2>1
<1>8. \A r \in 1 .. k : tokens(r) = Load(batch["responses"], n \div k, r)
  <2> HIDE DEF n, k
  <2> QED
    BY <1>1, <1>2, <1>3, <1>4, TokensOfPart
<1> HIDE DEF lengths
<1>9. d \in Nat /\ \A i, j \in 1 .. n : lengths[i] <= lengths[j] + d
  <2> HIDE DEF n
  <2> QED
    BY <1>1, <1>7, LengthsSpread
<1> HIDE DEF d, n, k
<1>10. LoadsWithin(batch["responses"], n \div k, k, d)
  <2>1. LengthsWithin(batch["responses"], n, d)
    BY <1>7, <1>9 DEF LengthsWithin
  <2> QED
    BY <1>4, <1>9, <2>1 DEF Evened
<1> HIDE DEF tokens
<1>11. \A r \in 1 .. k : Load(batch["responses"], n \div k, r) \in Nat
  BY <1>1, <1>3, <1>4, <1>6, LoadType DEF n
<1>12. \A r, q \in 1 .. k : tokens(r) - tokens(q) <= d
  <2> TAKE r, q \in 1 .. k
  <2>1. Load(batch["responses"], n \div k, r) <= Load(batch["responses"], n \div k, q) + d
    BY <1>10 DEF LoadsWithin
  <2> QED
    BY <1>8, <1>9, <1>11, <2>1
<1> QED
  BY <1>12 DEF RanksBalanced, tokens, d, k, lengths

\* The ranks' parts of a batch that was balanced differ by no more than its
\* longest and its shortest response, whatever the lengths, and no later step of
\* the trainers spoils it.
THEOREM RanksStayBalanced == TrainersSpec => [](Plain => RanksBalanced)
<1>1. TrainersInit => EvenInv
  <2> SUFFICES ASSUME TrainersInit PROVE EvenInv
    OBVIOUS
  <2>1. pc \in {"first", "batch"}
    BY DEF TrainersInit, DapoInit, Init
  <2> QED
    BY <2>1 DEF EvenInv, EvenPhases, LearningPhases, RowPhases, BeforeValues, BeforeGopd, BeforeTeacher,
                BeforeReference, BeforeOld, BeforeScores
<1> QED
  BY <1>1, TrainersInvariant, EvenStep, BalancedInStep, PTL DEF TrainersSpec

-----------------------------------------------------------------------------
(* What a validation finds.                                                  *)

LEMMA WeightWithout ==
    ASSUME NEW S, IsFiniteSet(S), NEW L \in [S -> Nat], NEW s \in SUBSET S, NEW x \in s, NEW t, t = s \ {x}
    PROVE  Weight(L, t) \in Nat /\ L[x] \in Nat /\ Weight(L, s) = Weight(L, t) + L[x]
<1>1. Weight(L, s) = L[x] + Weight(L, s \ {x})
  BY WeightRemove
<1>2. t \in SUBSET S
  OBVIOUS
<1>3. Weight(L, t) \in Nat
  BY <1>2, WeightType
<1> QED
  BY <1>1, <1>3

LEMMA LoadedBy ==
    ASSUME NEW n \in 0 .. Len(Validations)
    PROVE  Loaded(0) = 0 /\ Loaded(n) \in Nat
           /\ (n # 0 => Validations[n] \in Nat \ {0} /\ Loaded(n) = Loaded(n - 1) + Validations[n])
<1>1. \A x : Loaded(x) = Weight(Validations, 1 .. x)
  BY DEF Loaded, MapThenSumSet, MapThenFoldSet, Weight, Sums
<1>2. PICK k, V : V = Validations /\ k = Len(V) /\ k \in Nat /\ V \in [1 .. k -> Nat \ {0}]
  BY BoundsAssumption
<1>a. IsFiniteSet(1 .. k)
  BY <1>2, FS_Interval
<1>3. PICK S : S = 1 .. k /\ IsFiniteSet(S) /\ V \in [S -> Nat]
  BY <1>a, <1>2
<1>4. PICK s : s = 1 .. n /\ s \in SUBSET S
  BY <1>2, <1>3
<1>5. Weight(V, s) \in Nat /\ Weight(V, {}) = 0
  BY <1>3, <1>4, WeightType
<1>6. ASSUME n # 0 PROVE V[n] \in Nat \ {0} /\ Weight(V, s) = Weight(V, 1 .. (n - 1)) + V[n]
  <2>1. n \in s /\ s \ {n} = 1 .. (n - 1) /\ V[n] \in Nat \ {0} /\ s \ {n} \in SUBSET S
    BY <1>2, <1>4, <1>6
  <2>2. PICK t, x : t = s \ {x} /\ x = n /\ t = 1 .. (n - 1) /\ x \in s
    BY <2>1
  <2>3. IsFiniteSet(S) /\ V \in [S -> Nat] /\ s \in SUBSET S /\ x \in s /\ t = s \ {x}
    BY <1>3, <1>4, <2>2
  <2>4. Weight(V, t) \in Nat /\ V[x] \in Nat /\ Weight(V, s) = Weight(V, t) + V[x]
    BY <2>3, WeightWithout
  <2> QED
    BY <2>1, <2>2, <2>4
<1>7. 1 .. 0 = {}
  OBVIOUS
<1> QED
  BY <1>1, <1>2, <1>4, <1>5, <1>6, <1>7

TableColumns == {"data_source", "responses", "sample_inputs", "sample_scores"}
TableRow(data, i, prompt) ==
    /\ data["sample_inputs"][i] = prompt /\ data["data_source"][i] = prompt
    /\ data["responses"][i].prompt = prompt
    /\ data["sample_scores"][i].of = data["responses"][i]
ValidatedOf(data, w, v, before) ==
    /\ Table(data, v * w) /\ DOMAIN data = TableColumns
    /\ \A i \in 1 .. v * w : TableRow(data, i, before + SourceRow(i, v))

\* What is generated of the padded rows is, but for the padding, of the rows.
ValidationAnswers(answers, padded, length) ==
    answers = IF config.async THEN Generated(padded, 1, 1, length)
              ELSE Result([r \in 1 .. config.workers |->
                             Own(Generated(Gathered(padded, config.workers, config.tp, r), 1, 1, length), config.tp, r)],
                          padded, padded)
AnswersInOrder(cut, asked, n) ==
    /\ Table(cut, n) /\ DOMAIN cut = {"input_ids"} \cup Answering(config)
    /\ \A i \in 1 .. n : /\ cut["input_ids"][i] = asked["input_ids"][i]
                         /\ cut["responses"][i].prompt = asked["input_ids"][i]
LEMMA AnswersToPadded ==
    ASSUME config \in Configs, NEW n \in Nat \ {0}, NEW asked, Table(asked, n), DOMAIN asked = {"input_ids"},
           NEW length, NEW answers, ValidationAnswers(answers, Padded(asked, config.workers), length),
           NEW cut, cut = Unpad(answers, PadSize(n, config.workers))
    PROVE  AnswersInOrder(cut, asked, n)
<1> DEFINE k == config.workers
           g == config.tp
           padded == Padded(asked, k)
           whole == Generated(padded, 1, 1, length)
           outputs == [r \in 1 .. k |-> Own(Generated(Gathered(padded, k, g, r), 1, 1, length), g, r)]
<1>1. k \in Nat \ {0} /\ g \in Nat \ {0} /\ k % g = 0
  BY SizesOfConfig DEF Sizes
<1> HIDE DEF k, g
<1>2. PICK m \in Nat : m = n + PadSize(n, k) /\ n <= m /\ m % k = 0 /\ m - PadSize(n, k) = n
  <2>1. PICK p \in Nat : p = PadSize(n, k)
    BY <1>1, PadSizeBounds
  <2>2. (n + PadSize(n, k)) % k = 0
    BY <1>1, PadSizeDivides
  <2> QED
    BY <2>1, <2>2
<1>3. /\ Table(padded, m) /\ DOMAIN padded = DOMAIN asked
      /\ \A c \in DOMAIN asked, i \in 1 .. n : padded[c][i] = asked[c][i]
  BY <1>1, <1>2, PaddedRows
<1>4. m \in Nat \ {0} /\ Promptlike(padded)
  BY <1>2, <1>3 DEF Promptlike
<1>5. PICK q \in Nat \ {0} : Split(m, k, g, q)
  BY <1>1, <1>2, <1>4, SplitRows
<1> HIDE DEF padded
<1>6. GeneratedOf(whole, padded, m, 1, 1, length)
  BY <1>3, <1>4, GeneratedRows
<1>7. Table(whole, m)
  BY <1>6 DEF GeneratedOf
<1>8. Result(outputs, padded, padded) = FirstRows(whole, 1 * m - (m - m))
  BY <1>3, <1>4, <1>5, GeneratedCall
<1>9. answers = whole
  <2>1. Unpad(whole, 0) = whole
    BY <1>4, <1>7, NothingCut
  <2>2. Rows(whole) = m
    BY <1>4, <1>7, TableRows
  <2>3. FirstRows(whole, 1 * m - (m - m)) = whole
    BY <1>4, <2>1, <2>2 DEF Unpad
  <2> QED
    BY <1>8, <2>3 DEF padded, k, g, ValidationAnswers
<1> HIDE DEF whole, outputs
<1>10. cut = FirstRows(whole, n)
  <2>1. Rows(whole) = m
    BY <1>4, <1>7, TableRows
  <2>2. m - PadSize(n, k) = n
    BY <1>2
  <2> QED
    BY <1>9, <2>1, <2>2 DEF Unpad, k
<1>11. /\ Table(cut, n) /\ DOMAIN cut = DOMAIN whole
       /\ \A c \in DOMAIN whole, i \in 1 .. n : cut[c][i] = whole[c][i]
  <2>1. PICK x : x = FirstRows(whole, n)
    OBVIOUS
  <2>2. n <= m
    BY <1>2
  <2>3. /\ Table(x, n) /\ DOMAIN x = DOMAIN whole
        /\ \A c \in DOMAIN whole, i \in 1 .. n : x[c][i] = whole[c][i]
    BY <1>7, <2>1, <2>2, FirstOf
  <2> QED
    BY <1>10, <2>1, <2>3
<1>12. DOMAIN whole = {"input_ids"} \cup Answering(config)
  BY <1>3, <1>6 DEF GeneratedOf
<1>13. ASSUME NEW i \in 1 .. n
       PROVE  /\ cut["input_ids"][i] = asked["input_ids"][i]
              /\ cut["responses"][i].prompt = asked["input_ids"][i]
  <2>1. i \in 1 .. 1 * m /\ SourceRow(i, 1) = i
    BY <1>2 DEF SourceRow
  <2>2. /\ whole["input_ids"][i] = padded["input_ids"][i]
        /\ whole["responses"][i] = Answer(padded["input_ids"][i], 1 + ((i - 1) % 1), length)
    BY <1>3, <1>6, <2>1 DEF GeneratedOf
  <2>3. whole["responses"][i].prompt = padded["input_ids"][i]
    BY <2>2 DEF Answer
  <2>4. "input_ids" \in DOMAIN whole /\ "responses" \in DOMAIN whole
    BY <1>12 DEF Answering
  <2>5. padded["input_ids"][i] = asked["input_ids"][i]
    BY <1>3
  <2> QED
    BY <1>11, <2>2, <2>3, <2>4, <2>5
<1> QED
  BY <1>11, <1>12, <1>13 DEF AnswersInOrder

LEMMA ValidatedRows ==
    ASSUME config \in Configs, NEW b \in 1 .. Len(Validations), NEW w \in Nat \ {0}, w = Validations[b],
           NEW v \in Nat \ {0}, v = config.valSamples, NEW before \in Nat, before = Loaded(b - 1)
    PROVE  ValidatedOf(Validated(b), w, v, before)
<1> DEFINE prompts == [c \in {"data_source", "input_ids"} |-> [i \in 1 .. w |-> before + i]]
           data == Repeat(prompts, v)
           rows == data["input_ids"]
           test == Columns(data, {"data_source"})
           asked == Columns(data, {"input_ids"})
           padded == Padded(asked, config.workers)
           length == [p \in ToSet(rows) \X {1} |-> 1]
           answers == IF config.async THEN Generated(padded, 1, 1, length)
                      ELSE Result([r \in 1 .. config.workers |->
                                     Own(Generated(Gathered(padded, config.workers, config.tp, r), 1, 1, length),
                                         config.tp, r)], padded, padded)
           cut == Unpad(answers, PadSize(Len(rows), config.workers))
           joined == Union(test, cut)
           chosen == Columns(joined, {"data_source", "responses"})
           withInputs == Put(chosen, "sample_inputs", rows)
           scores == [i \in 1 .. Rows(joined) |-> [of |-> joined["responses"][i]]]
           found == Put(withInputs, "sample_scores", scores)
           prompt(i) == before + SourceRow(i, v)
<1>1. Validated(b) = found
  BY DEF Validated, Call, Argument
<1>2. PICK n \in Nat \ {0} : n = v * w
  OBVIOUS
<1>3. Table(prompts, w) /\ DOMAIN prompts = {"data_source", "input_ids"}
      /\ \A c \in DOMAIN prompts, i \in 1 .. w : prompts[c][i] = before + i
  BY DEF Table, IsList
<1> HIDE DEF prompts
<1>4. RepeatOf(data, prompts, w, v)
  BY <1>3, RepeatRows
<1> HIDE DEF data
<1>5. /\ Table(data, n) /\ DOMAIN data = {"data_source", "input_ids"}
      /\ \A c \in DOMAIN data, i \in 1 .. n : data[c][i] = prompt(i)
  <2>1. \A i \in 1 .. n : SourceRow(i, v) \in 1 .. w
    BY <1>2, SourceInRange
  <2>2. /\ Table(data, n) /\ DOMAIN data = {"data_source", "input_ids"}
        /\ \A c \in DOMAIN data, i \in 1 .. n : data[c][i] = prompts[c][SourceRow(i, v)]
    BY <1>2, <1>3, <1>4 DEF RepeatOf
  <2>3. ASSUME NEW c \in DOMAIN data, NEW i \in 1 .. n PROVE data[c][i] = prompt(i)
    <3>1. prompts[c][SourceRow(i, v)] = before + SourceRow(i, v)
      BY <1>3, <2>1, <2>2
    <3> QED
      BY <2>2, <3>1
  <2> QED
    BY <2>2, <2>3
<1> HIDE DEF prompt
<1>6. Chosen(test, data, {"data_source"}, n) /\ Chosen(asked, data, {"input_ids"}, n)
  BY <1>5, ColumnsTable
<1>7. IsList(rows, n) /\ Len(rows) = n
  BY <1>2, <1>5, ListIsSeq DEF Table
<1> HIDE DEF test, asked, length, rows
<1>8. AnswersInOrder(cut, asked, n)
  <2>1. Table(asked, n) /\ DOMAIN asked = {"input_ids"}
    BY <1>6 DEF Chosen
  <2>2. ValidationAnswers(answers, Padded(asked, config.workers), length)
    BY DEF ValidationAnswers
  <2> HIDE DEF answers
  <2>3. cut = Unpad(answers, PadSize(n, config.workers))
    BY <1>7
  <2> HIDE DEF cut
  <2>4. n \in Nat \ {0} /\ config \in Configs
    BY <1>2
  <2> QED
    BY <2>1, <2>2, <2>3, <2>4, AnswersToPadded
<1> HIDE DEF cut
<1>b. /\ Table(cut, n) /\ DOMAIN cut = {"input_ids"} \cup Answering(config)
      /\ \A i \in 1 .. n : /\ cut["input_ids"][i] = asked["input_ids"][i]
                           /\ cut["responses"][i].prompt = asked["input_ids"][i]
  BY <1>8 DEF AnswersInOrder
<1>9. Joint(joined, test, cut, n)
  BY <1>6, <1>b, UnionTable DEF Chosen
<1> HIDE DEF joined
<1>10. /\ Table(joined, n) /\ {"data_source", "responses"} \subseteq DOMAIN joined
       /\ joined["data_source"] = data["data_source"] /\ joined["responses"] = cut["responses"]
  <2>1. "data_source" \notin DOMAIN cut
    BY <1>b DEF Answering, Masks
  <2> QED
    BY <1>6, <1>b, <1>9, <2>1 DEF Joint, Chosen, Answering
<1>11. Chosen(chosen, joined, {"data_source", "responses"}, n)
  BY <1>10, ColumnsTable
<1> HIDE DEF chosen
<1>12. Extended(withInputs, chosen, n, "sample_inputs", rows)
  BY <1>7, <1>11, PutTable DEF Chosen
<1>a. Table(withInputs, n)
  BY <1>12 DEF Extended
<1> HIDE DEF withInputs
<1>13. IsList(scores, n) /\ \A i \in 1 .. n : scores[i].of = joined["responses"][i]
  <2>1. Rows(joined) = n
    BY <1>10, TableRows
  <2> QED
    BY <2>1 DEF IsList
<1> HIDE DEF scores
<1>14. Extended(found, withInputs, n, "sample_scores", scores)
  BY <1>a, <1>13, PutTable
<1> HIDE DEF found
<1>15. /\ Table(found, n) /\ DOMAIN found = TableColumns
       /\ found["sample_inputs"] = rows /\ found["data_source"] = joined["data_source"]
       /\ found["responses"] = joined["responses"] /\ found["sample_scores"] = scores
  BY <1>11, <1>12, <1>14 DEF Extended, Chosen, TableColumns
<1>16. ASSUME NEW i \in 1 .. n PROVE TableRow(found, i, prompt(i))
  <2>1. rows[i] = prompt(i) /\ data["data_source"][i] = prompt(i)
    BY <1>5 DEF rows
  <2>2. cut["responses"][i].prompt = prompt(i)
    BY <1>6, <1>b, <2>1 DEF Chosen, rows
  <2> QED
    BY <1>10, <1>13, <1>15, <2>1, <2>2 DEF TableRow
<1>17. ValidatedOf(found, w, v, before)
  BY <1>2, <1>15, <1>16 DEF ValidatedOf, prompt
<1> QED
  BY <1>1, <1>17

\* The table of a validation, of n samples, v of each prompt.
FoundBy(data, n, v) ==
    /\ Table(data, n) /\ DOMAIN data = TableColumns
    /\ \A i \in 1 .. n : TableRow(data, i, SourceRow(i, v))

\* A row of one batch is a row of the table, as far behind the rows before it as
\* its prompt is behind their prompts.
LEMMA PromptOfPlace ==
    ASSUME NEW v \in Nat \ {0}, NEW b \in Nat, NEW w \in Nat, NEW j \in 1 .. v * w
    PROVE  SourceRow(v * b + j, v) = b + SourceRow(j, v)
<1>1. j \in 1 .. w * v
  OBVIOUS
<1>2. PICK g \in 1 .. w, h \in 1 .. v : j = (g - 1) * v + h
  BY <1>1, RowNumber
<1>3. PICK a \in Nat : a = g - 1
  BY <1>2
<1>4. j = a * v + h
  BY <1>2, <1>3
<1>5. PICK e \in Nat : e = b + a
  OBVIOUS
<1>6. v * b + j = e * v + h
  BY <1>2, <1>3, <1>5
<1>7. SourceRow(j, v) = a + 1 /\ SourceRow(v * b + j, v) = e + 1
  BY <1>4, <1>6, SourceRowOf
<1> QED
  BY <1>5, <1>7

LEMMA ValidationEnds ==
    ASSUME NEW v \in Nat \ {0}, NEW k, k = Len(Validations)
    PROVE  /\ k \in Nat \ {0} /\ DOMAIN Validations = 1 .. k
           /\ Ends([r \in 0 .. k |-> v * Loaded(r)], k)
<1>1. k \in Nat \ {0} /\ DOMAIN Validations = 1 .. k
  BY BoundsAssumption
<1>2. \A r \in 0 .. k : Loaded(0) = 0 /\ Loaded(r) \in Nat
  BY LoadedBy
<1>3. \A r \in 0 .. k : v * Loaded(r) \in Nat
  BY <1>2
<1>4. ASSUME NEW r \in 1 .. k PROVE v * Loaded(r - 1) <= v * Loaded(r)
  <2>1. PICK a, b, c \in Nat : a = Loaded(r - 1) /\ b = Loaded(r) /\ b = a + c
    <3>1. r \in 0 .. k /\ r # 0 /\ r - 1 \in 0 .. k
      BY <1>1
    <3>2. Validations[r] \in Nat /\ Loaded(r) = Loaded(r - 1) + Validations[r]
      BY <3>1, LoadedBy
    <3> QED
      BY <1>2, <3>1, <3>2
  <2>2. v * b = v * a + v * c /\ v * c \in Nat /\ v * a \in Nat
    BY <2>1
  <2> QED
    BY <2>1, <2>2
<1>5. v * Loaded(0) = 0
  BY <1>1, <1>2
<1> HIDE DEF Loaded
<1> QED
  BY <1>1, <1>3, <1>4, <1>5 DEF Ends

LEMMA ValidatedTable ==
    ASSUME config \in Configs, NEW v \in Nat \ {0}, v = config.valSamples
    PROVE  FoundBy(Concat([n \in DOMAIN Validations |-> Validated(n)]), v * Loaded(Len(Validations)), v)
<1> DEFINE k == Len(Validations)
           e == [r \in 0 .. k |-> v * Loaded(r)]
           parts == [n \in DOMAIN Validations |-> Validated(n)]
           data == Concat(parts)
           names == TableColumns
<1>1. k \in Nat \ {0} /\ DOMAIN Validations = 1 .. k /\ Ends(e, k) /\ DOMAIN parts = 1 .. k
  BY ValidationEnds
<1> HIDE DEF k
<1>2. ASSUME NEW r \in 1 .. k
      PROVE  \E b, w \in Nat : /\ e[r - 1] = v * b /\ e[r] = v * b + v * w /\ e[r] - e[r - 1] = v * w
                               /\ ValidatedOf(parts[r], w, v, b)
  <2>1. r \in 0 .. Len(Validations) /\ r # 0 /\ r - 1 \in 0 .. Len(Validations) /\ r \in 1 .. Len(Validations)
    BY <1>1 DEF k
  <2>2. Validations[r] \in Nat \ {0} /\ Loaded(r) = Loaded(r - 1) + Validations[r] /\ Loaded(r - 1) \in Nat
    BY <2>1, LoadedBy
  <2>3. PICK b \in Nat, w \in Nat \ {0} : b = Loaded(r - 1) /\ w = Validations[r] /\ Loaded(r) = b + w
    BY <2>2
  <2>4. ValidatedOf(Validated(r), w, v, b)
    BY <2>1, <2>3, ValidatedRows
  <2>5. e[r - 1] = v * b /\ e[r] = v * (b + w)
    BY <2>1, <2>3 DEF k
  <2>6. v * (b + w) = v * b + v * w /\ v * b \in Nat /\ v * w \in Nat
    OBVIOUS
  <2>7. parts[r] = Validated(r)
    BY <1>1
  <2>8. e[r] = v * b + v * w
    BY <2>5, <2>6
  <2>9. e[r] - e[r - 1] = v * w
    BY <2>5, <2>6, <2>8
  <2> HIDE DEF e, parts
  <2> QED
    BY <2>3, <2>4, <2>5, <2>7, <2>8, <2>9
<1>3. e[k] = v * Loaded(k)
  BY <1>1
<1> HIDE DEF e, parts
<1>4. \A r \in 1 .. k : Table(parts[r], e[r] - e[r - 1]) /\ DOMAIN parts[r] = names
  <2> TAKE r \in 1 .. k
  <2>1. PICK b, w \in Nat : e[r] - e[r - 1] = v * w /\ ValidatedOf(parts[r], w, v, b)
    BY <1>2
  <2> QED
    BY <2>1 DEF ValidatedOf
<1>5. Table(data, e[k]) /\ JoinedParts(data, parts, names, e, k)
  <2> HIDE DEF names
  <2> QED
    BY <1>1, <1>4, ConcatOver
<1> HIDE DEF data
<1>6. ASSUME NEW i \in 1 .. e[k] PROVE TableRow(data, i, SourceRow(i, v))
  <2>1. PICK r \in 1 .. k : \E j \in 1 .. e[r] - e[r - 1] : i = e[r - 1] + j
    BY <1>1, PieceOfPlace
  <2>2. PICK b, w \in Nat : /\ e[r - 1] = v * b /\ e[r] - e[r - 1] = v * w
                            /\ ValidatedOf(parts[r], w, v, b)
    BY <1>2
  <2>3. PICK j \in 1 .. v * w : i = v * b + j
    BY <2>1, <2>2
  <2>4. TableRow(parts[r], j, b + SourceRow(j, v))
    BY <2>2, <2>3 DEF ValidatedOf
  <2>5. SourceRow(i, v) = b + SourceRow(j, v)
    BY <2>3, PromptOfPlace
  <2>6. \A c \in TableColumns : data[c][i] = parts[r][c][j]
    BY <1>5, <2>2, <2>3 DEF JoinedParts
  <2> QED
    BY <2>4, <2>5, <2>6 DEF TableRow, TableColumns
<1>7. FoundBy(data, e[k], v)
  BY <1>5, <1>6 DEF FoundBy, JoinedParts
<1> QED
  BY <1>3, <1>7 DEF data, parts, k

\* Such a table is what the metrics of the validation are told of.
AlignedTable(t, v) ==
    /\ t["sample_inputs"] = [i \in 1 .. Loaded(Len(Validations)) * v |-> 1 + ((i - 1) \div v)]
    /\ \A i \in RowsOf(t) : /\ t["responses"][i].prompt = t["sample_inputs"][i]
                            /\ t["data_source"][i] = t["sample_inputs"][i]
                            /\ t["sample_scores"][i].of = t["responses"][i]
LEMMA FoundAligned ==
    ASSUME NEW v \in Nat \ {0}, NEW t, FoundBy(t, v * Loaded(Len(Validations)), v)
    PROVE  AlignedTable(t, v)
<1>1. PICK l \in Nat : l = Loaded(Len(Validations))
  <2>1. Len(Validations) \in 0 .. Len(Validations)
    BY BoundsAssumption
  <2> QED
    BY <2>1, LoadedBy
<1>2. PICK n \in Nat : n = v * l /\ n = l * v
  BY <1>1
<1>3. Table(t, n) /\ DOMAIN t = TableColumns /\ \A i \in 1 .. n : TableRow(t, i, SourceRow(i, v))
  BY <1>1, <1>2 DEF FoundBy
<1>4. Rows(t) = n
  BY <1>2, <1>3, TableRows
<1>5. t["sample_inputs"] = [i \in 1 .. n |-> t["sample_inputs"][i]]
  BY <1>3 DEF Table, IsList, TableColumns
<1>6. t["sample_inputs"] = [i \in 1 .. n |-> 1 + ((i - 1) \div v)]
  <2>1. \A i \in 1 .. n : t["sample_inputs"][i] = 1 + ((i - 1) \div v)
    BY <1>3 DEF TableRow, SourceRow
  <2> QED
    BY <1>5, <2>1
<1>7. \A i \in 1 .. n : /\ t["responses"][i].prompt = t["sample_inputs"][i]
                        /\ t["data_source"][i] = t["sample_inputs"][i]
                        /\ t["sample_scores"][i].of = t["responses"][i]
  BY <1>3 DEF TableRow
<1> QED
  BY <1>1, <1>2, <1>4, <1>6, <1>7 DEF AlignedTable, RowsOf

\* A step of any trainer keeps the table, gives it up, or validates.
TableKept == table' = table \/ table' = Empty
TableFound == table' = Concat([n \in DOMAIN Validations |-> Validated(n)])

LEMMA TableStep == ASSUME TrainersNext PROVE TableKept \/ TableFound
<1> USE DEF TableKept, TableFound
<1>1. CASE NextBatch \/ NextGenBatch \/ NextPrimeBatch
  BY <1>1 DEF NextGenBatch, NextBatch, NextPrimeBatch, PopBatch
<1>2. CASE Generate
  BY <1>2 DEF Generate, Fail
<1>3. CASE Baseline
  BY <1>3 DEF Baseline, Fail
<1>4. CASE Assemble \/ AssembleNew \/ AssembleThen("balance")
  BY <1>4 DEF Assemble, AssembleNew, AssembleThen, Fail
<1>5. CASE ScoreNew \/ NoFilter \/ FilterGroups \/ Exhausted \/ Align \/ DapoEndStep \/ ComputeDapoAdvantage
  BY <1>5 DEF ScoreNew, NoFilter, FilterGroups, Exhausted, Align, DapoEndStep, EndStep, GiveUpBatch,
              ComputeDapoAdvantage
<1>6. CASE Balance \/ BalanceNew \/ BalanceOrSkip("verify")
  BY <1>6 DEF Balance, BalanceNew, BalanceOrSkip, BalanceThen, Skip, Fail
<1>7. CASE RewardModel \/ Score \/ OldLogProb \/ Teacher \/ Values
  BY <1>7 DEF RewardModel, Score, OldLogProb, Teacher, Values, Join, Skip, Fail
<1>8. ASSUME NEW there, ReferenceThen(there) PROVE TableKept
  BY <1>8 DEF ReferenceThen, Join, Skip, Fail
<1>9. CASE GopdReference
  BY <1>9 DEF GopdReference, Join, Skip, Fail
<1>10. CASE ComputeAdvantage \/ ComputeSppoAdvantage \/ UpdateCritic \/ UpdateActor \/ EndStep \/ EndOfBatch
  BY <1>10 DEF ComputeAdvantage, ComputeSppoAdvantage, UpdateCritic, UpdateActor, EndStep, EndOfBatch, GiveUpBatch
<1>11. CASE Validate \/ ValidateThen("last", "done")
  BY <1>11 DEF Validate, ValidateThen
<1>12. CASE Verify \/ FilterAndDownsample
  BY <1>12 DEF Verify, FilterAndDownsample
<1>13. CASE OnlyScore \/ UpdateWhileScoring \/ UpdateFirst \/ ScoreUpdated \/ UpdateLast \/ NoRewardModel
  BY <1>13 DEF OnlyScore, UpdateWhileScoring, UpdateFirst, ScoreUpdated, UpdateLast, NoRewardModel,
               PrimeScore, PrimeUpdate, Join, Skip, Fail
<1>14. CASE BroadcastStatistics \/ ComputePrimeAdvantage \/ PrimeEndStep
  BY <1>14 DEF BroadcastStatistics, ComputePrimeAdvantage, PrimeEndStep, GiveUpBatch
<1> HIDE DEF TableKept, TableFound
<1>15. CASE Next
  BY <1>1, <1>2, <1>3, <1>4, <1>6, <1>7, <1>8, <1>9, <1>10, <1>11, <1>15 DEF Next, Reference
<1>16. CASE Sampling \/ Updating
  BY <1>1, <1>2, <1>3, <1>4, <1>5, <1>6, <1>7, <1>8, <1>9, <1>10, <1>11, <1>16 DEF Sampling, Updating, Reference
<1>17. CASE PrimeNext
  BY <1>1, <1>2, <1>4, <1>6, <1>7, <1>8, <1>10, <1>11, <1>12, <1>13, <1>14, <1>17 DEF PrimeNext
<1>18. CASE SppoNext
  BY <1>1, <1>2, <1>4, <1>6, <1>7, <1>8, <1>10, <1>11, <1>18 DEF SppoNext
<1> QED
  BY <1>15, <1>16, <1>17, <1>18 DEF TrainersNext, DapoNext, EntropyNext, EntropySampling, EntropyUpdating

\* In any of the trainers, whatever the sizes of the validation batches and the
\* number of workers: every validation sample is in the table once, with its own
\* response, data source and score, and no row of the padding is.
THEOREM ValidationStaysAligned == TrainersSpec => []ValidationAligned
<1>1. TrainersInit => ValidationAligned
  BY DEF TrainersInit, DapoInit, Init, ValidationAligned
<1>2. StepInv /\ ValidationAligned /\ [TrainersNext]_allVars => ValidationAligned'
  <2> SUFFICES ASSUME StepInv, ValidationAligned, [TrainersNext]_allVars PROVE ValidationAligned'
    OBVIOUS
  <2>1. CASE UNCHANGED allVars
    BY <2>1 DEF allVars, vars, ValidationAligned, RowsOf
  <2>2. CASE TrainersNext
    <3>1. config' = config
      BY <2>2, ConfigKept
    <3>2. CASE TableKept
      BY <3>1, <3>2 DEF TableKept, ValidationAligned, RowsOf
    <3>3. CASE TableFound
      <4>1. config \in Configs
        BY DEF StepInv
      <4>2. PICK v \in Nat \ {0} : v = config.valSamples
        BY <4>1, SizesOfConfig DEF Sizes
      <4>3. FoundBy(table', v * Loaded(Len(Validations)), v)
        BY <3>3, <4>1, <4>2, ValidatedTable DEF TableFound
      <4>4. v = config'.valSamples
        BY <3>1, <4>2
      <4>5. AlignedTable(table', v)
        BY <4>2, <4>3, FoundAligned
      <4> QED
        BY <4>4, <4>5 DEF AlignedTable, ValidationAligned, RowsOf
    <3> QED
      BY <2>2, <3>2, <3>3, TableStep
  <2> QED
    BY <2>1, <2>2
<1> QED
  BY <1>1, <1>2, TrainersInvariant, PTL DEF TrainersSpec

-----------------------------------------------------------------------------
(* The workers of a group: the dispatch and collect functions.               *)

FirstOfGroup(rank, t, g) == rank % t = 0 /\ (rank \div t) % g = 0
HasPlace(rank, t, g, d, x, y) ==
    FirstOfGroup(rank, t, g) /\ (rank \div (t * g)) % d = x /\ rank \div (t * g * d) = y
OfPlace(rank, t, g, d, x, y) == rank = (y * d + x) * (t * g)

\* A rank that is the first of its tensor and context parallel group, by its
\* place in the data and the pipeline parallel group,
LEMMA CoordinatesOf ==
    ASSUME NEW t \in Nat \ {0}, NEW g \in Nat \ {0}, NEW d \in Nat \ {0},
           NEW y \in Nat, NEW x \in Nat, x < d, NEW rank, OfPlace(rank, t, g, d, x, y)
    PROVE  HasPlace(rank, t, g, d, x, y)
<1>1. PICK c \in Nat \ {0} : c = t * g
  OBVIOUS
<1>2. PICK v \in Nat : v = y * d + x
  OBVIOUS
<1>3. rank = v * c + 0 /\ rank \in Nat
  BY <1>1, <1>2 DEF OfPlace
<1>4. PICK u \in Nat : u = v * g + 0
  OBVIOUS
<1>5. rank = u * t + 0
  <2>1. v * (t * g) = (v * g) * t
    OBVIOUS
  <2> QED
    BY <1>1, <1>3, <1>4, <2>1
<1>6. rank \div t = u /\ rank % t = 0
  <2>1. Composed(rank, t, u, 0) /\ 0 < t
    BY <1>5 DEF Composed
  <2> QED
    BY <2>1, QuotientOf
<1>7. u % g = 0
  <2>1. Composed(u, g, v, 0) /\ 0 < g
    BY <1>4 DEF Composed
  <2> QED
    BY <2>1, QuotientOf
<1>8. rank \div c = v
  <2>1. Composed(rank, c, v, 0) /\ 0 < c
    BY <1>1, <1>3 DEF Composed
  <2> QED
    BY <2>1, QuotientOf
<1>9. v % d = x
  <2>1. Composed(v, d, y, x)
    BY <1>2 DEF Composed
  <2> QED
    BY <2>1, QuotientOf
<1>10. rank \div (c * d) = y
  <2>1. PICK k \in Nat \ {0} : k = c * d
    BY <1>1
  <2>2. PICK r \in Nat : r = x * c
    BY <1>1
  <2>3. r < k
    <3>1. PICK z \in Nat \ {0} : d = x + z
      <4>1. d - x \in Nat \ {0} /\ d = x + (d - x)
        OBVIOUS
      <4> QED
        BY <4>1
    <3>2. k = x * c + z * c
      BY <2>1, <3>1
    <3>3. z * c \in Nat \ {0}
      BY <1>1, <3>1
    <3> QED
      BY <2>2, <3>2, <3>3
  <2>4. (y * d + x) * c = y * (c * d) + x * c
    BY <1>1
  <2>5. rank = y * k + r
    BY <1>2, <1>3, <2>1, <2>2, <2>4
  <2>6. rank \div k = y
    <3>1. Composed(rank, k, y, r)
      BY <2>5 DEF Composed
    <3> QED
      BY <2>3, <3>1, QuotientOf
  <2> QED
    BY <2>1, <2>6
<1> QED
  BY <1>1, <1>6, <1>7, <1>8, <1>9, <1>10 DEF HasPlace, FirstOfGroup

\* and every such rank has one.
LEMMA RankOfCoordinates ==
    ASSUME NEW t \in Nat \ {0}, NEW g \in Nat \ {0}, NEW d \in Nat \ {0},
           NEW rank \in Nat, FirstOfGroup(rank, t, g)
    PROVE  \E y, x \in Nat : x < d /\ OfPlace(rank, t, g, d, x, y)
<1>1. PICK u \in Nat : u = rank \div t /\ rank = u * t
  BY Dividing DEF FirstOfGroup
<1>a. u % g = 0
  BY <1>1 DEF FirstOfGroup
<1>2. PICK v \in Nat : v = u \div g /\ u = v * g
  BY <1>a, Dividing
<1>3. PICK y, x \in Nat : v = y * d + x /\ x < d
  BY <1>2, Dividing
<1>4. rank = v * (t * g)
  <2>1. (v * g) * t = v * (t * g)
    OBVIOUS
  <2> QED
    BY <1>1, <1>2, <2>1
<1> QED
  BY <1>3, <1>4 DEF OfPlace

Layouts == [tp : Nat \ {0}, cp : Nat \ {0}, dp : Nat \ {0}, pp : Nat \ {0}]

\* The ranks that answer, in their order.
AnsweringOrder(layout) ==
    [i \in 1 .. layout.dp |->
        ((layout.pp - 1) * layout.dp + (i - 1)) * (layout.tp * layout.cp) + 1]

LEMMA AnsweringRanks ==
    ASSUME NEW layout \in Layouts, NEW chosen,
           chosen = {i \in 1 .. World(layout) : AnswersFor(layout, i - 1)}
    PROVE  /\ World(layout) \in Nat
           /\ Enumerates(AnsweringOrder(layout), layout.dp, chosen, World(layout))
           /\ \A i \in 1 .. layout.dp : /\ AnsweringOrder(layout)[i] - 1 \in Ranks(layout)
                                        /\ RankInfo(layout, AnsweringOrder(layout)[i] - 1).dp = i - 1
<1> DEFINE e == AnsweringOrder(layout)
<1>1. PICK t, g, d, p \in Nat \ {0} : t = layout.tp /\ g = layout.cp /\ d = layout.dp /\ p = layout.pp
  BY DEF Layouts
<1>2. PICK c \in Nat \ {0} : c = t * g
  OBVIOUS
<1>3. PICK n \in Nat \ {0} : n = (p * d) * c /\ n = World(layout)
  <2>1. ((t * g) * d) * p = (p * d) * (t * g)
    OBVIOUS
  <2>2. World(layout) = ((t * g) * d) * p
    BY <1>1 DEF World
  <2>3. (p * d) * c \in Nat \ {0}
    BY <1>2
  <2> QED
    BY <1>2, <2>1, <2>2, <2>3
<1>4. PICK A \in Nat : A = (p - 1) * d
  OBVIOUS
<1>5. \A i \in 1 .. d : e[i] = (A + (i - 1)) * c + 1
  BY <1>1, <1>2, <1>4 DEF AnsweringOrder
<1>6. p * d = A + d
  BY <1>4
<1>7. \A i \in 1 .. d : e[i] \in 1 .. n
  <2> TAKE i \in 1 .. d
  <2>1. PICK q, r \in Nat : q = A + d /\ r = A + i /\ r \in 1 .. q
    BY <1>4
  <2>2. (r - 1) * c + 1 \in 1 .. q * c
    BY <2>1, <1>2, RowInRange
  <2> QED
    BY <1>3, <1>5, <1>6, <2>1, <2>2
<1>8. ASSUME NEW i \in 1 .. d
      PROVE  AnswersFor(layout, e[i] - 1) /\ RankInfo(layout, e[i] - 1).dp = i - 1
  <2>1. PICK x, y, rank \in Nat : x = i - 1 /\ y = p - 1 /\ x < d /\ OfPlace(rank, t, g, d, x, y) /\ rank = e[i] - 1
    <3>1. i - 1 \in Nat /\ p - 1 \in Nat /\ i - 1 < d
      OBVIOUS
    <3>2. PICK z \in Nat : z = (A + (i - 1)) * c
      BY <1>4
    <3>3. e[i] - 1 = z
      BY <1>5, <3>2
    <3> QED
      BY <1>2, <1>4, <3>1, <3>2, <3>3 DEF OfPlace
  <2>2. HasPlace(rank, t, g, d, x, y)
    BY <2>1, CoordinatesOf
  <2> QED
    BY <1>1, <2>1, <2>2 DEF AnswersFor, RankInfo, HasPlace, FirstOfGroup
<1>9. \A a, b \in 1 .. d : a < b => e[a] < e[b]
  <2> TAKE a, b \in 1 .. d
  <2> HAVE a < b
  <2>1. PICK z \in Nat \ {0} : b = a + z
    <3>1. b - a \in Nat \ {0} /\ b = a + (b - a)
      OBVIOUS
    <3> QED
      BY <3>1
  <2>2. PICK u \in Nat : u = A + (a - 1)
    BY <1>4
  <2>3. e[a] = u * c + 1 /\ e[b] = (u + z) * c + 1
    <3>1. A + (b - 1) = u + z
      BY <2>1, <2>2
    <3> QED
      BY <1>5, <2>2, <3>1
  <2>4. (u + z) * c = u * c + z * c /\ z * c \in Nat \ {0} /\ u * c \in Nat
    OBVIOUS
  <2> QED
    BY <2>3, <2>4
<1>10. ASSUME NEW i \in 1 .. n, i \in chosen PROVE \E a \in 1 .. d : e[a] = i
  <2>0. i - 1 \in Nat /\ AnswersFor(layout, i - 1)
    <3>1. AnswersFor(layout, i - 1)
      BY <1>10
    <3> QED
      BY <3>1
  <2>1. PICK rank \in Nat : rank = i - 1 /\ AnswersFor(layout, rank)
    BY <2>0
  <2>2. FirstOfGroup(rank, t, g) /\ rank \div (t * g * d) = p - 1
    BY <1>1, <2>1 DEF AnswersFor, RankInfo, FirstOfGroup
  <2>3. PICK y, x \in Nat : x < d /\ OfPlace(rank, t, g, d, x, y)
    BY <2>2, RankOfCoordinates
  <2>4. rank \div (t * g * d) = y
    <3>1. HasPlace(rank, t, g, d, x, y)
      BY <2>3, CoordinatesOf
    <3> QED
      BY <3>1 DEF HasPlace
  <2>5. y = p - 1 /\ x + 1 \in 1 .. d
    BY <2>2, <2>3, <2>4
  <2>6. rank = (A + x) * c
    BY <1>2, <1>4, <2>3, <2>5 DEF OfPlace
  <2>7. e[x + 1] = (A + x) * c + 1
    BY <1>5, <2>5
  <2>8. e[x + 1] = i
    BY <2>1, <2>6, <2>7
  <2> QED
    BY <2>5, <2>8
<1>11. e \in [1 .. d -> Nat]
  <2>1. e = [i \in 1 .. d |-> e[i]]
    BY <1>1 DEF AnsweringOrder
  <2> HIDE DEF e
  <2> QED
    BY <1>7, <2>1
<1>12. \A i \in 1 .. d : e[i] - 1 \in Ranks(layout)
  BY <1>3, <1>7 DEF Ranks
<1> HIDE DEF e
<1>13. Enumerates(e, d, chosen, n)
  BY <1>3, <1>7, <1>8, <1>9, <1>10, <1>11 DEF Enumerates
<1> QED
  BY <1>1, <1>3, <1>8, <1>12, <1>13 DEF e

LEMMA AllRanks ==
    ASSUME NEW n \in Nat, NEW chosen, chosen = 1 .. n
    PROVE  Enumerates([i \in 1 .. n |-> i], n, chosen, n)
  BY DEF Enumerates

\* The dispatch and collect functions of decorator.py undo each other: whatever the
\* layout of a worker group and the size of a batch that is divided among it, when
\* every rank answers with the rows it was sent, the driver has each row once, at
\* its place.
THEOREM DispatchedCollected ==
    ASSUME NEW layout \in Layouts, NEW mode \in {"dp", "megatron"},
           NEW n \in Nat \ {0}, NEW data, Table(data, n), Divisible(mode, layout, data),
           NEW outputs, \A rank \in Ranks(layout) : outputs[rank] = Dispatched(mode, layout, data, rank)
    PROVE  Collected(mode, layout, outputs) = data
<1> DEFINE chosen == {i \in 1 .. World(layout) : mode = "megatron" => AnswersFor(layout, i - 1)}
           k == IF mode = "megatron" THEN layout.dp ELSE World(layout)
           order == InOrder(chosen, World(layout))
           parts == [i \in DOMAIN order |-> outputs[order[i] - 1]]
<1>1. World(layout) \in Nat \ {0} /\ layout.dp \in Nat \ {0}
  BY DEF World, Layouts
<1>2. Rows(data) = n
  BY TableRows
<1>3. /\ DOMAIN order = 1 .. k
      /\ \A i \in 1 .. k : /\ order[i] - 1 \in Ranks(layout)
                           /\ outputs[order[i] - 1] = Part(data, k, i)
  <2>1. CASE mode = "megatron"
    <3>1. chosen = {i \in 1 .. World(layout) : AnswersFor(layout, i - 1)}
      BY <2>1
    <3> HIDE DEF chosen
    <3>2. /\ Enumerates(AnsweringOrder(layout), layout.dp, chosen, World(layout))
          /\ \A i \in 1 .. layout.dp : /\ AnsweringOrder(layout)[i] - 1 \in Ranks(layout)
                                       /\ RankInfo(layout, AnsweringOrder(layout)[i] - 1).dp = i - 1
      BY <3>1, AnsweringRanks
    <3>3. order = AnsweringOrder(layout)
      BY <1>1, <3>2, EnumeratedAppended, InOrderAppended
    <3>4. DOMAIN order = 1 .. layout.dp
      BY <3>3 DEF AnsweringOrder
    <3> HIDE DEF order
    <3>5. ASSUME NEW i \in 1 .. layout.dp
          PROVE  order[i] - 1 \in Ranks(layout) /\ outputs[order[i] - 1] = Part(data, layout.dp, i)
      <4>1. order[i] - 1 \in Ranks(layout) /\ RankInfo(layout, order[i] - 1).dp = i - 1
        BY <3>2, <3>3
      <4>2. outputs[order[i] - 1] = Part(data, layout.dp, RankInfo(layout, order[i] - 1).dp + 1)
        BY <2>1, <4>1 DEF Dispatched
      <4>3. (i - 1) + 1 = i
        OBVIOUS
      <4> QED
        BY <4>1, <4>2, <4>3
    <3> QED
      BY <2>1, <3>4, <3>5
  <2>2. CASE mode = "dp"
    <3>1. chosen = 1 .. World(layout)
      BY <2>2
    <3> HIDE DEF chosen
    <3>2. order = [i \in 1 .. World(layout) |-> i]
      BY <1>1, <3>1, AllRanks, EnumeratedAppended, InOrderAppended
    <3> HIDE DEF order
    <3>3. ASSUME NEW i \in 1 .. World(layout)
          PROVE  order[i] - 1 \in Ranks(layout) /\ outputs[order[i] - 1] = Part(data, World(layout), i)
      <4>1. order[i] = i /\ i - 1 \in Ranks(layout) /\ (i - 1) + 1 = i
        BY <1>1, <3>2 DEF Ranks
      <4>2. outputs[i - 1] = Part(data, World(layout), (i - 1) + 1)
        BY <2>2, <4>1 DEF Dispatched
      <4> QED
        BY <4>1, <4>2
    <3> QED
      BY <2>2, <3>2, <3>3
  <2> QED
    BY <2>1, <2>2
<1>4. k \in Nat \ {0} /\ n % k = 0
  BY <1>1, <1>2 DEF Divisible
<1> HIDE DEF order, k
<1>5. parts = [i \in 1 .. k |-> Part(data, k, i)]
  BY <1>3
<1>6. Collected(mode, layout, outputs) = Concat(parts)
  BY DEF Collected, order, chosen
<1> HIDE DEF parts
<1>7. PICK q \in Nat \ {0} : n = k * q
  <2>1. PICK q \in Nat : n = q * k
    BY <1>4, Dividing
  <2>2. q # 0 /\ q * k = k * q
    BY <1>4, <2>1
  <2> QED
    BY <2>1, <2>2
<1>8. PartsOf(parts, data, n, k, q)
  BY <1>4, <1>5, <1>7 DEF PartsOf
<1> QED
  BY <1>6, <1>8, PartsTogether
=============================================================================
