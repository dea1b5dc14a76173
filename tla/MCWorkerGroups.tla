---------------------------- MODULE MCWorkerGroups ----------------------------
(***************************************************************************)
(* Small instances of AsyncServers: two to eight workers on one or two     *)
(* nodes.                                                                  *)
(***************************************************************************)
EXTENDS AsyncServers

Layout(tp, cp, dp, pp) == [tp |-> tp, cp |-> cp, dp |-> dp, pp |-> pp]
OneDim(n) == Layout(1, 1, n, 1)
PoolOfRoles(store, roles, layout) == [store |-> store, roles |-> roles, layout |-> layout]

Ppo == {"actor_rollout", "critic"}
Gopd == {"actor_rollout", "ref", "gopd_ref"}

Config(cluster, pools, strategy, async, tp, rows) ==
    [cluster |-> cluster, pools |-> pools, strategy |-> strategy, async |-> async,
     tp |-> tp, rows |-> rows, rollout |-> "vllm"]

\* Two engines of two workers, on three nodes, of which Ray chooses, or both on one;
\* an engine over two nodes.
AsyncConfigs ==
    {Config(<<2, 2, 2>>, <<PoolOfRoles(<<2, 2>>, {"actor_rollout"}, OneDim(4))>>, "fsdp", TRUE, 2, 4),
     Config(<<1, 4>>, <<PoolOfRoles(<<2, 2>>, {"actor_rollout"}, OneDim(4))>>, "fsdp", TRUE, 2, 4),
     Config(<<2, 4>>, <<PoolOfRoles(<<2, 2>>, {"actor_rollout"}, OneDim(4))>>, "fsdp", TRUE, 4, 4),
     Config(<<1, 1>>, <<PoolOfRoles(<<1, 1>>, Gopd, OneDim(2))>>, "fsdp", TRUE, 1, 2),
     Config(<<3>>, <<PoolOfRoles(<<3>>, {"actor_rollout"}, OneDim(3))>>, "fsdp", TRUE, 1, 3),
     Config(<<2>>, <<PoolOfRoles(<<2>>, {"actor_rollout"}, Layout(1, 2, 1, 1))>>, "megatron", TRUE, 1, 2)}

\* SGLang's servers: on one node, and where there are as many of them as GPUs of a
\* node, or a single one.
WithSglang(c) == [c EXCEPT !.rollout = "sglang"]
SglangConfigs ==
    {WithSglang(Config(<<2, 4>>, <<PoolOfRoles(<<2, 2>>, {"actor_rollout"}, OneDim(4))>>, "fsdp", TRUE, tp, 4)) :
        tp \in {2, 4}}
    \cup {WithSglang(Config(<<4>>, <<PoolOfRoles(<<4>>, {"actor_rollout"}, OneDim(4))>>, "fsdp", TRUE, 2, 4)),
          WithSglang(Config(<<2>>, <<PoolOfRoles(<<2>>, Gopd, OneDim(2))>>, "fsdp", TRUE, 1, 2))}

\* Two servers on two nodes of four GPUs, and four on two nodes of two.
SglangElsewhere ==
    {WithSglang(Config(<<4, 4>>, <<PoolOfRoles(<<4, 4>>, {"actor_rollout"}, OneDim(8))>>, "fsdp", TRUE, 4, 8)),
     WithSglang(Config(<<2, 2>>, <<PoolOfRoles(<<2, 2>>, {"actor_rollout"}, OneDim(4))>>, "fsdp", TRUE, 1, 4))}

\* The parallel dimensions by pairs and by threes, and split placement on two pools.
SyncConfigs ==
    {Config(<<2, 2>>, <<PoolOfRoles(<<2, 2>>, {"actor_rollout"}, layout)>>, "megatron", FALSE, 2, 4) :
        layout \in {Layout(2, 1, 2, 1), Layout(1, 2, 2, 1), Layout(1, 1, 2, 2), Layout(2, 1, 1, 2),
                    Layout(1, 2, 1, 2)}}
    \cup {Config(<<8>>, <<PoolOfRoles(<<8>>, {"actor_rollout"}, layout)>>, "megatron", FALSE, 4, 8) :
            layout \in {Layout(2, 2, 2, 1), Layout(1, 2, 2, 2)}}
    \cup {Config(<<2>>, <<PoolOfRoles(<<2>>, Ppo \cup {"rm"}, OneDim(2))>>, "fsdp", FALSE, 1, 4),
          Config(<<2, 2>>, <<PoolOfRoles(<<2>>, {"actor_rollout"}, OneDim(2)),
                             PoolOfRoles(<<2>>, {"critic"}, OneDim(2))>>, "fsdp", FALSE, 1, 4),
          Config(<<2, 2>>, <<PoolOfRoles(<<2>>, {"actor_rollout"}, Layout(1, 1, 2, 1)),
                             PoolOfRoles(<<2>>, {"critic"}, Layout(1, 2, 1, 1))>>, "megatron", FALSE, 1, 4)}

\* Five GPUs, but not two on each of two nodes.
TooSmall == {Config(<<3, 1, 1>>, <<PoolOfRoles(<<2, 2>>, Ppo, OneDim(4))>>, "fsdp", FALSE, 1, 4)}

MCConfigs == AsyncConfigs \cup SglangConfigs \cup SyncConfigs \cup TooSmall

\* Pools of two and of four GPUs: the check has the first take the node of two, Ray
\* may have it take the other.
UnequalPools ==
    {Config(<<2, 4>>, <<PoolOfRoles(<<2>>, {"actor_rollout"}, OneDim(2)),
                        PoolOfRoles(<<4>>, {"critic"}, OneDim(4))>>, "fsdp", FALSE, 1, 4)}
=============================================================================
