-------------------------------- MODULE Dispatch --------------------------------
(***************************************************************************)
(* What a method of a worker group does with its argument and with the     *)
(* outputs of the workers, by the dispatch mode it is registered with:     *)
(*   verl/single_controller/base/decorator.py                              *)
(*   verl/single_controller/base/megatron/worker.py, worker_group.py       *)
(* A group has a layout: the sizes of its parallel dimensions.  A worker   *)
(* is its rank, from 0.                                                    *)
(*                                                                         *)
(* A definition commented "Fault" is the definition after it with a        *)
(* plausible mistake; nothing uses it.                                     *)
(***************************************************************************)
EXTENDS DataProto

World(layout) == layout.tp * layout.cp * layout.dp * layout.pp
Ranks(layout) == 0 .. World(layout) - 1

\* get_megatron_rank_info: megatron's order of ranks is tp, cp, dp, pp.
RankInfo(layout, rank) ==
    [tp |-> rank % layout.tp,
     cp |-> (rank \div layout.tp) % layout.cp,
     dp |-> (rank \div (layout.tp * layout.cp)) % layout.dp,
     pp |-> rank \div (layout.tp * layout.cp * layout.dp)]

\* The modes the workers register are ONE_TO_ALL, DP_COMPUTE_PROTO and
\* MEGATRON_COMPUTE_PROTO; chunk asserts equal parts.
Divisible(mode, layout, data) ==
    CASE mode = "one_to_all" -> TRUE
      [] mode = "dp" -> Rows(data) % World(layout) = 0
      [] mode = "megatron" -> Rows(data) % layout.dp = 0

\* dispatch_one_to_all, dispatch_dp_compute_data_proto,
\* dispatch_megatron_compute_data_proto: every rank of a model's replica is
\* given the replica's part.
Dispatched(mode, layout, data, rank) ==
    CASE mode = "one_to_all" -> data
      [] mode = "dp" -> Part(data, World(layout), rank + 1)
      [] mode = "megatron" -> Part(data, layout.dp, RankInfo(layout, rank).dp + 1)

\* collect_megatron_compute: one rank of each replica, which has gone through all
\* stages of the pipeline.
FaultAnswersFor(layout, rank) ==
    LET info == RankInfo(layout, rank) IN info.tp = 0 /\ info.pp = layout.pp - 1
AnswersFor(layout, rank) ==
    LET info == RankInfo(layout, rank) IN
    info.tp = 0 /\ info.pp = layout.pp - 1 /\ info.cp = 0

\* The collect functions, `outputs' by rank; ONE_TO_ALL gives a list.
Collected(mode, layout, outputs) ==
    LET chosen == {i \in 1 .. World(layout) : mode = "megatron" => AnswersFor(layout, i - 1)}
        order == InOrder(chosen, World(layout))
        parts == [i \in DOMAIN order |-> outputs[order[i] - 1]]
    IN IF mode = "one_to_all" THEN parts ELSE Concat(parts)
=============================================================================
