----------------------------- MODULE WorkerGroups -----------------------------
(***************************************************************************)
(* The driver's worker groups: pools of GPUs, the start of the workers,    *)
(* and the calls by which the driver has them work.                        *)
(*   verl/single_controller/ray/base.py, base/worker.py, worker_group.py   *)
(*   verl/trainer/ppo/ray_trainer.py, init_workers, ResourcePoolManager    *)
(*                                                                         *)
(* A worker is a Ray actor, <<its pool, its rank>>.  It runs one call at a *)
(* time, whoever sent it; calls of one sender come in order, those of two  *)
(* in any.  A call's collective operations need all workers of a scope: of *)
(* the pool ("world") or of an engine ("tp").  A training method's         *)
(* collectives, whatever their groups, are one of "world".                 *)
(*                                                                         *)
(* `pc' is "next" (of the plan), "place" (placement groups), "spawn" (a    *)
(* worker), "center" (waits for the register center), "call" (waits for    *)
(* workers), AsyncServers' "listen" and "serve", or an end: "done",        *)
(* "refused" (not enough GPUs), "timeout" (no register center), "lost" (a  *)
(* server), "failed" (an assertion).                                       *)
(*                                                                         *)
(* A definition commented "Fault" is the definition after it with a        *)
(* plausible mistake; no action uses it.                                   *)
(***************************************************************************)
EXTENDS Dispatch, FiniteSets

CONSTANTS
    Configs,        \* configurations, see ConfigsAssumption
    MaxRestarts,    \* servers whose address is taken, in all
    MaxRounds       \* steps of an engine in a generation

\* cluster: the free GPUs of each node, nodes in the order of their addresses.
\* pools: process_on_nodes and layout of each, with the roles mapped to it.
\* tp: tensor_model_parallel_size of the rollout, and its name.  rows: of the batch.
Pool == [store : Seq(Nat \ {0}), roles : SUBSET STRING,
         layout : [tp : Nat \ {0}, cp : Nat \ {0}, dp : Nat \ {0}, pp : Nat \ {0}]]

\* main_ppo: as many GPUs of every node; the layout is of the whole pool.
ASSUME ConfigsAssumption ==
    \A c \in Configs :
        /\ \A p \in DOMAIN c.pools :
            LET pool == c.pools[p] IN
            /\ \A i \in DOMAIN pool.store : pool.store[i] \in Nat \ {0}
            /\ World(pool.layout) = FoldLeft(+, 0, pool.store)
            /\ "actor_rollout" \in pool.roles => World(pool.layout) % c.tp = 0
            /\ c.rows % World(pool.layout) = 0
        /\ \E p \in DOMAIN c.pools : "actor_rollout" \in c.pools[p].roles
        /\ c.strategy \in {"fsdp", "megatron"} /\ c.async \in BOOLEAN
        /\ c.rollout \in {"vllm", "sglang"}

ASSUME BoundsAssumption == MaxRestarts \in Nat /\ MaxRounds \in Nat

VARIABLES
    config,         \* the configuration of this run
    pc, next,       \* of the driver: place, next entry of its plan
    building,       \* the pool whose workers are created
    free,           \* GPUs no placement group has
    hosts,          \* [pool -> its placement groups in order: node and bundles]
    status,         \* [worker -> "absent", "started", "registered", "ready"]
    center,         \* [pool -> the register center's workers, by rank their node]
    queue, running, \* [worker -> calls it was sent, the one it runs]
    pending,        \* [sender -> workers it waits for]
    output,         \* [worker -> what it answered the driver last]
    batch,          \* what the driver's last call returned
    \* Of AsyncServers:
    server,         \* [server -> "absent", "starting", "ready", "listening", "exited"]
    addressed,      \* servers that have answered with their address
    serverNode,     \* [server -> its node]
    engine,         \* [server -> the workers its engine drives, in order]
    todo,           \* [server -> the calls it has yet to send]
    asleep,         \* workers whose weights and cache are released
    restarts        \* servers that found their address taken

driverVars == <<config, pc, next, building, free, hosts, batch>>
workerVars == <<status, center, queue, running, pending, output>>
serverVars == <<server, addressed, serverNode, engine, todo, asleep, restarts>>
vars == <<driverVars, workerVars, serverVars>>

Workers(p) == {<<p, rank>> : rank \in Ranks(config.pools[p].layout)}
AllWorkers == UNION {Workers(p) : p \in DOMAIN config.pools}

PoolOf(role) == CHOOSE p \in DOMAIN config.pools : role \in config.pools[p].roles
HasRole(role) == \E p \in DOMAIN config.pools : role \in config.pools[p].roles

RolloutWorld == World(config.pools[PoolOf("actor_rollout")].layout)
Servers == 0 .. (RolloutWorld \div config.tp) - 1

\* Who sends calls: servers by their number, and the driver.
TheDriver == -1
Nobody == -2
NoRows == [row |-> <<>>]
Nothing == [from |-> Nobody, method |-> "none", scopes |-> <<>>, data |-> NoRows]
InitialBatch(c) == [row |-> [i \in 1 .. c.rows |-> i]]

-----------------------------------------------------------------------------
(* The plan: init_workers, the validation before training, a step of fit.    *)

Entry(op) == [op |-> op, method |-> "none", pool |-> 0, mode |-> "none", scopes |-> <<>>]
CallEntry(role, method, mode, scopes) ==
    [op |-> "call", method |-> method, pool |-> PoolOf(role), mode |-> mode, scopes |-> scopes]
ServerEntry(method) == [Entry("serve") EXCEPT !.method = method]

\* The methods of the trained and the frozen models.
TrainMode == IF config.strategy = "megatron" THEN "megatron" ELSE "dp"

\* NVMegatronRayWorkerGroup asks the workers for their ranks.
CreatePlan ==
    FlattenSeq([p \in DOMAIN config.pools |->
        <<[Entry("create") EXCEPT !.pool = p]>> \o
        (IF config.strategy # "megatron" THEN <<>>
         ELSE <<[Entry("call") EXCEPT !.pool = p, !.mode = "one_to_all",
                                     !.method = "get_megatron_rank_info"]>>)])

\* "we should create rollout at the end"
InitPlan ==
    LET order == SelectSeq(<<"critic", "ref", "gopd_ref", "rm", "actor_rollout">>, HasRole)
    IN [i \in DOMAIN order |-> CallEntry(order[i], "init_model", "one_to_all", <<"world">>)]

GeneratePlan ==
    IF config.async
    THEN <<ServerEntry("wake_up"), ServerEntry("execute_model"), ServerEntry("sleep")>>
    ELSE <<CallEntry("actor_rollout", "generate_sequences", "dp", <<"world", "tp">>)>>

\* Their answers are metrics.
Updates == {"update_critic", "update_actor"}

StepPlan ==
    LET calls == SelectSeq(
            <<<<"rm", "compute_rm_score">>, <<"actor_rollout", "compute_log_prob">>,
              <<"ref", "compute_ref_log_prob">>, <<"gopd_ref", "compute_ref_log_prob">>,
              <<"critic", "compute_values">>, <<"critic", "update_critic">>,
              <<"actor_rollout", "update_actor">>>>,
            LAMBDA call : HasRole(call[1]))
    IN [i \in DOMAIN calls |-> CallEntry(calls[i][1], calls[i][2], TrainMode, <<"world">>)]

Plan == <<Entry("pools")>> \o CreatePlan \o InitPlan
        \o (IF config.async THEN <<Entry("servers"), ServerEntry("init_engine")>> ELSE <<>>)
        \o GeneratePlan \o GeneratePlan \o StepPlan

Due(op) == pc = "next" /\ next <= Len(Plan) /\ Plan[next].op = op

-----------------------------------------------------------------------------
(* Pools and placement groups.                                               *)

\* _check_resource_available: of the nodes in order, those with room for as many
\* processes as the pool has on its first one.
Reserved(available, store) ==
    LET fit == {n \in DOMAIN available : available[n] >= store[1]}
        first == {n \in fit : Cardinality({k \in fit : k <= n}) <= Len(store)}
    IN IF Cardinality(first) < Len(store) THEN <<>>
       ELSE [n \in DOMAIN available |-> IF n \in first THEN available[n] - store[1]
                                        ELSE available[n]]

ResourceAvailable ==
    LET stores == [p \in DOMAIN config.pools |-> config.pools[p].store] IN
    /\ FoldLeft(+, 0, config.cluster) >= FoldLeft(+, 0, FlattenSeq(stores))
    /\ FoldLeft(Reserved, config.cluster, stores) # <<>>

CreateResourcePool ==
    /\ Due("pools")
    /\ IF ResourceAvailable THEN pc' = pc /\ next' = next + 1
       ELSE pc' = "refused" /\ next' = next
    /\ UNCHANGED <<config, building, free, hosts, batch, workerVars, serverVars>>

CreateGroup ==
    /\ Due("create")
    /\ pc' = "place"
    /\ building' = Plan[next].pool
    /\ UNCHANGED <<config, next, free, hosts, batch, workerVars, serverVars>>

\* get_placement_groups waits until each has a node with room for all of its
\* bundles, of Ray's choosing; they are sorted by the address of the node.
PlacementGroupsReady ==
    LET store == config.pools[building].store
        Taken(place, n) == FoldLeft(+, 0, [i \in DOMAIN store |-> IF place[i] = n THEN store[i] ELSE 0])
    IN
    /\ pc = "place"
    /\ \E place \in [DOMAIN store -> DOMAIN free] :
        /\ \A n \in DOMAIN free : Taken(place, n) <= free[n]
        /\ free' = [n \in DOMAIN free |-> free[n] - Taken(place, n)]
        /\ hosts' = [hosts EXCEPT ![building] =
                        SortSeq([i \in DOMAIN store |-> [node |-> place[i], bundles |-> store[i]]],
                                LAMBDA a, b : a.node < b.node)]
    /\ pc' = "spawn"
    /\ UNCHANGED <<config, next, building, batch, workerVars, serverVars>>

-----------------------------------------------------------------------------
(* The workers.                                                              *)

\* local_world_size is of the first placement group, for all of them.
LocalSize(p) == config.pools[p].store[1]
GroupIndex(w) == 1 + (w[2] \div LocalSize(w[1]))
NodeOf(w) == hosts[w[1]][GroupIndex(w)].node

Created(p) == {w \in Workers(p) : status[w] # "absent"}

\* _init_with_resource_pool, a turn of its loop: the actor is only asked for.
CreateWorker ==
    LET worker == <<building, Cardinality(Created(building))>> IN
    /\ pc = "spawn" /\ worker[2] < LocalSize(building) * Len(hosts[building])
    /\ IF LocalSize(building) > hosts[building][GroupIndex(worker)].bundles
       THEN pc' = "failed" /\ status' = status
       ELSE /\ status' = [status EXCEPT ![worker] = "started"]
            /\ pc' = IF worker[2] = 0 THEN "center" ELSE pc
    /\ UNCHANGED <<config, next, building, free, hosts, batch, center, queue, running, pending,
                   output, serverVars>>

\* Rank 0 is waited for, since the others are told its address.
FindRegisterCenter ==
    /\ pc = "center" /\ DOMAIN center[building] # {}
    /\ pc' = "spawn"
    /\ UNCHANGED <<config, next, building, free, hosts, batch, workerVars, serverVars>>

RegisterCenterTimesOut ==
    /\ pc = "center" /\ DOMAIN center[building] = {}
    /\ pc' = "timeout"
    /\ UNCHANGED <<config, next, building, free, hosts, batch, workerVars, serverVars>>

GroupCreated ==
    /\ pc = "spawn" /\ Cardinality(Created(building)) = LocalSize(building) * Len(hosts[building])
    /\ pc' = "next" /\ next' = next + 1
    /\ UNCHANGED <<config, building, free, hosts, batch, workerVars, serverVars>>

\* Worker.__new__, before __init__: rank 0 creates the center, every rank tells
\* it the node it is on.
Register(w) ==
    /\ status[w] = "started"
    /\ w[2] = 0 \/ DOMAIN center[w[1]] # {}
    /\ status' = [status EXCEPT ![w] = "registered"]
    /\ center' = [center EXCEPT ![w[1]] =
                    [rank \in DOMAIN @ \cup {w[2]} |-> IF rank = w[2] THEN NodeOf(w) ELSE @[rank]]]
    /\ UNCHANGED <<driverVars, queue, running, pending, output, serverVars>>

\* init_process_group in the __init__ of the first role's worker.
JoinProcessGroup(p) ==
    /\ \A w \in Workers(p) : status[w] = "registered"
    /\ status' = [w \in AllWorkers |-> IF w \in Workers(p) THEN "ready" ELSE status[w]]
    /\ UNCHANGED <<driverVars, center, queue, running, pending, output, serverVars>>

Peers(w, scope) ==
    IF scope = "world" THEN Workers(w[1])
    ELSE {v \in Workers(w[1]) : v[2] \div config.tp = w[2] \div config.tp}

\* An actor takes up a call when it has no other.
TakeCall(w) ==
    /\ status[w] = "ready" /\ running[w] = Nothing
    /\ \E call \in queue[w] :
        /\ running' = [running EXCEPT ![w] = call]
        /\ queue' = [queue EXCEPT ![w] = @ \ {call}]
    /\ UNCHANGED <<driverVars, status, center, pending, output, serverVars>>

\* A collective operation of `w's call, for which all its peers have come.
Collective(w) ==
    LET Waits(v) == running[v].scopes # <<>>
        peers == Peers(w, Head(running[w].scopes))
    IN
    /\ Waits(w)
    /\ \A v \in peers : /\ Waits(v)
                        /\ running[v].method = running[w].method
                        /\ running[v].scopes = running[w].scopes
    /\ running' = [v \in AllWorkers |->
                    IF v \in peers THEN [running[v] EXCEPT !.scopes = Tail(@)] ELSE running[v]]
    /\ UNCHANGED <<driverVars, status, center, queue, pending, output, serverVars>>

Answer(w) ==
    /\ running[w] # Nothing /\ running[w].scopes = <<>>
    /\ pending' = [pending EXCEPT ![running[w].from] = @ \ {w}]
    /\ output' = IF running[w].from = TheDriver THEN [output EXCEPT ![w] = running[w].data]
                 ELSE output
    /\ running' = [running EXCEPT ![w] = Nothing]
    /\ asleep' = CASE running[w].method = "sleep" -> asleep \cup {w}
                   [] running[w].method = "wake_up" -> asleep \ {w}
                   [] OTHER -> asleep
    /\ UNCHANGED <<driverVars, status, center, queue, server, addressed, serverNode, engine, todo,
                   restarts>>

-----------------------------------------------------------------------------
(* The driver's calls, func_generator.                                       *)

\* Every worker is sent its part of the argument, then all are waited for.
CallWorkers ==
    LET entry == Plan[next]
        layout == config.pools[entry.pool].layout
        Sent(w) == [from |-> TheDriver, method |-> entry.method, scopes |-> entry.scopes,
                    data |-> Dispatched(entry.mode, layout, batch, w[2])]
    IN
    /\ Due("call")
    /\ IF Divisible(entry.mode, layout, batch)
       THEN /\ pc' = "call"
            /\ queue' = [w \in AllWorkers |-> IF w \in Workers(entry.pool)
                                              THEN queue[w] \cup {Sent(w)} ELSE queue[w]]
            /\ pending' = [pending EXCEPT ![TheDriver] = Workers(entry.pool)]
       ELSE pc' = "failed" /\ UNCHANGED <<queue, pending>>
    /\ UNCHANGED <<config, next, building, free, hosts, batch, status, center, running, output,
                   serverVars>>

CallReturns ==
    LET entry == Plan[next]
        layout == config.pools[entry.pool].layout
    IN
    /\ pc = "call" /\ pending[TheDriver] = {}
    /\ batch' = IF entry.mode = "one_to_all" \/ entry.method \in Updates THEN batch
                ELSE Collected(entry.mode, layout,
                               [rank \in Ranks(layout) |-> output[<<entry.pool, rank>>]])
    /\ pc' = "next" /\ next' = next + 1
    /\ UNCHANGED <<config, building, free, hosts, workerVars, serverVars>>

Finish ==
    /\ pc = "next" /\ next > Len(Plan)
    /\ pc' = "done"
    /\ UNCHANGED <<config, next, building, free, hosts, batch, workerVars, serverVars>>
=============================================================================
