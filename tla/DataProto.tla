------------------------------- MODULE DataProto -------------------------------
(***************************************************************************)
(* The batch the trainer passes around, verl/protocol.py, and how a worker *)
(* group takes it: split among its workers and put together again          *)
(* (Dispatch.DP_COMPUTE_PROTO of verl/single_controller).                  *)
(*                                                                         *)
(* A batch is a function from column names to sequences of the same        *)
(* length, tensors and numpy arrays alike.  The operators are pure; what   *)
(* the code does in place is the new value.                                *)
(*                                                                         *)
(* A definition commented "Fault" is the definition after it with a        *)
(* plausible mistake; nothing uses it.                                     *)
(***************************************************************************)
EXTENDS Integers, Sequences, SequencesExt, FiniteSetsExt

\* len(data)
Rows(data) == Len(data[CHOOSE c \in DOMAIN data : TRUE])

\* The rows at the places `index', a sequence: select_idxs, slices, reorder.
Take(data, index) ==
    [c \in DOMAIN data |-> [i \in DOMAIN index |-> data[c][index[i]]]]

FirstRows(data, n) == Take(data, [i \in 1 .. n |-> i])

\* The numbers up to n that are in S, in order: a loop that appends its index.
InOrder(S, n) ==
    LET upto[i \in 0 .. n] == IF i = 0 THEN <<>>
                              ELSE IF i \in S THEN Append(upto[i - 1], i) ELSE upto[i - 1]
    IN upto[n]

\* repeat with interleave: every row n times, next to one another.
FaultRepeat(data, n) ==
    Take(data, [i \in 1 .. n * Rows(data) |-> 1 + ((i - 1) % Rows(data))])
Repeat(data, n) ==
    Take(data, [i \in 1 .. n * Rows(data) |-> 1 + ((i - 1) \div n)])

\* What pop returns, and what it leaves.
Columns(data, names) == [c \in names |-> data[c]]
Without(data, names) == [c \in DOMAIN data \ names |-> data[c]]

FaultRename(data, old, new) == data
Rename(data, old, new) ==
    [c \in (DOMAIN data \ {old}) \cup {new} |-> IF c = new THEN data[old] ELSE data[c]]

\* union, and its assertions: as many rows, and no column with two contents.
CanUnion(a, b) ==
    /\ Rows(a) = Rows(b)
    /\ \A c \in DOMAIN a \cap DOMAIN b : a[c] = b[c]
Union(a, b) ==
    [c \in DOMAIN a \cup DOMAIN b |-> IF c \in DOMAIN b THEN b[c] ELSE a[c]]

\* A batch with one more, or another, column.
Put(data, name, column) ==
    [c \in DOMAIN data \cup {name} |-> IF c = name THEN column ELSE data[c]]

\* The k equal parts of chunk, and concat of parts.
Part(data, k, r) ==
    LET size == Rows(data) \div k IN
    Take(data, [i \in 1 .. size |-> (r - 1) * size + i])
Concat(parts) ==
    [c \in DOMAIN parts[1] |->
        FlattenSeq([r \in DOMAIN parts |-> parts[r][c]])]

\* pad_dataproto_to_divisor: the rows from the start, as often as it takes.
PadSize(rows, k) == (k - (rows % k)) % k
Padded(data, k) ==
    Take(data, [i \in 1 .. Rows(data) + PadSize(Rows(data), k) |-> 1 + ((i - 1) % Rows(data))])

\* unpad_dataproto
FaultUnpad(data, pad) == Take(data, [i \in 1 .. Rows(data) - pad |-> i + pad])
Unpad(data, pad) == FirstRows(data, Rows(data) - pad)

-----------------------------------------------------------------------------
(* A call of a worker group of k workers.                                    *)

\* padding, which dispatch_dp_compute_data_proto lets replace its argument:
\* the last row again.
AutoPadded(data, k) ==
    Take(data, [i \in 1 .. Rows(data) + PadSize(Rows(data), k) |->
                    IF i > Rows(data) THEN Rows(data) ELSE i])

\* Only equal chunks, unless padding is enabled.
CanDispatch(data, k, autoPadding) == autoPadding \/ Rows(data) % k = 0

\* Groups of g neighbouring workers shard one model's sequences or its engine:
\* each gathers the parts of its group, and keeps its own part of the outcome.
Gathered(argument, k, g, r) ==
    IF g = 1 THEN Part(argument, k, r)
    ELSE Concat([s \in 1 .. g |-> Part(argument, k, ((r - 1) \div g) * g + s)])
FaultOwn(outcome, g, r) == Part(outcome, g, 1 + (((r - 1) \div g) % g))
Own(outcome, g, r) == IF g = 1 THEN outcome ELSE Part(outcome, g, 1 + ((r - 1) % g))

\* The argument as the call leaves it, and the result: of the workers' outputs
\* put together, as many rows go as were added to the argument.
Argument(data, k, autoPadding) == IF autoPadding THEN AutoPadded(data, k) ELSE data
Result(outputs, argument, data) == Unpad(Concat(outputs), Rows(argument) - Rows(data))
=============================================================================
