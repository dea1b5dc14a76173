----------------------------- MODULE AsyncServers -----------------------------
(***************************************************************************)
(* The inference servers beside the driver: how they are started, find     *)
(* their workers among the actors of the worker group, and call them while *)
(* the driver waits.                                                       *)
(*   verl/workers/rollout/async_server.py                                  *)
(*   verl/workers/rollout/vllm_rollout/vllm_async_server.py                *)
(*   verl/workers/rollout/sglang_rollout/async_sglang_server.py            *)
(* A server and its engine are one process that sends one call after the   *)
(* other (collective_rpc), `todo' those that are left.                     *)
(***************************************************************************)
EXTENDS WorkerGroups

RolloutPool == PoolOf("actor_rollout")
RolloutWorkers == Workers(RolloutPool)

Sglang == config.rollout = "sglang"

Unready == Servers \ addressed

-----------------------------------------------------------------------------
(* AsyncLLMServerManager.__init__                                            *)

\* All servers without an address are created anew, each on the node of its
\* first worker, as the register center knows it.
StartServers ==
    LET known == center[RolloutPool] IN
    /\ Due("servers")
    /\ IF Cardinality(DOMAIN known) = RolloutWorld
       THEN /\ pc' = "listen"
            /\ server' = [s \in Servers |-> IF s \in Unready THEN "starting" ELSE server[s]]
            /\ serverNode' = [s \in Servers |-> IF s \in Unready THEN known[s * config.tp]
                                                ELSE serverNode[s]]
       ELSE pc' = "failed" /\ UNCHANGED <<server, serverNode>>
    /\ UNCHANGED <<config, next, building, free, hosts, batch, workerVars, addressed, engine,
                   todo, asleep, restarts>>

ServerIs(s, new) ==
    /\ server' = [server EXCEPT ![s] = new]
    /\ UNCHANGED <<driverVars, workerVars, addressed, serverNode, engine, todo, asleep>>

\* _start_fastapi_server: uvicorn starts the application, whose lifespan sets
\* server_ready, then binds the port; if that fails the process exits.
Ready(s) == server[s] = "starting" /\ ServerIs(s, "ready") /\ restarts' = restarts
Listen(s) == server[s] = "ready" /\ ServerIs(s, "listening") /\ restarts' = restarts
AddressTaken(s) ==
    /\ server[s] = "ready" /\ restarts < MaxRestarts
    /\ ServerIs(s, "exited")
    /\ restarts' = restarts + 1

\* get_server_address
Address(s) ==
    /\ server[s] \in {"ready", "listening"} /\ s \notin addressed
    /\ addressed' = addressed \cup {s}
    /\ UNCHANGED <<driverVars, workerVars, server, serverNode, engine, todo, asleep, restarts>>

\* The answers of a round, and another round for servers that gave none.
ServersAnswered ==
    /\ pc = "listen" /\ \A s \in Unready : server[s] = "exited"
    /\ pc' = "next"
    /\ next' = IF Unready = {} THEN next + 1 ELSE next
    /\ UNCHANGED <<config, building, free, hosts, batch, workerVars, serverVars>>

-----------------------------------------------------------------------------
(* The manager asks all servers, then waits for all of them.                 *)

\* The handlers of AsyncvLLMServer as calls of the workers, whose engine in
\* generation makes steps as it has requests; of AsyncSglangServer, whose workers
\* have engines of their own, a request is a call.
Rpcs(method, rounds) ==
    CASE method = "init_engine" /\ ~Sglang -> <<"init_worker", "init_device", "load_model">>
      [] method = "execute_model" ->
            [i \in 1 .. rounds |-> IF Sglang THEN "chat_completion" ELSE "execute_model"]
      [] OTHER -> <<method>>

\* The rollout workers come together to set up the engines' process groups and,
\* if they sleep, to gather the weights on a wake-up.
Scopes(rpc, w) ==
    CASE rpc = "init_device" \/ (rpc = "wake_up" /\ w \in asleep) -> <<"world">>
      [] rpc = "execute_model" -> <<"tp">>
      [] OTHER -> <<>>

\* Fault: the servers are asked one after the other, each waited for.
FaultAskServers ==
    /\ Due("serve")
    /\ todo' = [s \in Servers |-> IF s = 0 THEN Rpcs(Plan[next].method, 1) ELSE <<>>]
    /\ pc' = "serve"
    /\ UNCHANGED <<config, next, building, free, hosts, batch, workerVars, server, addressed,
                   serverNode, engine, asleep, restarts>>
AskServers ==
    /\ Due("serve") /\ \A s \in Servers : server[s] # "exited"
    /\ \E rounds \in [Servers -> 0 .. MaxRounds] :
        /\ Plan[next].method = "execute_model" \/ \A s \in Servers : rounds[s] = 0
        /\ todo' = [s \in Servers |-> Rpcs(Plan[next].method, rounds[s])]
    /\ pc' = "serve"
    /\ UNCHANGED <<config, next, building, free, hosts, batch, workerVars, server, addressed,
                   serverNode, engine, asleep, restarts>>

\* _init_executor: of the actors of the group, in the order of their names
\* (placement group, then local rank), those that are this server's.
FaultOwnWorkers(s) ==
    LET Local(w) == w[2] % LocalSize(RolloutPool)
        named == SetToSortSeq(Created(RolloutPool),
                              LAMBDA a, b : \/ Local(a) < Local(b)
                                            \/ Local(a) = Local(b) /\ GroupIndex(a) < GroupIndex(b))
    IN SubSeq(named, s * config.tp + 1, (s + 1) * config.tp)
OwnWorkers(s) ==
    LET Local(w) == w[2] % LocalSize(RolloutPool)
        named == SetToSortSeq(Created(RolloutPool),
                              LAMBDA a, b : \/ GroupIndex(a) < GroupIndex(b)
                                            \/ GroupIndex(a) = GroupIndex(b) /\ Local(a) < Local(b))
    IN SubSeq(named, s * config.tp + 1, (s + 1) * config.tp)

\* AsyncSglangServer.init_engine: those whose place, counted with as many workers
\* on a node as there are servers, is of this server's.
Place(w) == Cardinality(Servers) * (GroupIndex(w) - 1) + (w[2] % LocalSize(RolloutPool))
SglangWorkers(s) ==
    SetToSortSeq({w \in Created(RolloutPool) : Place(w) \div config.tp = s},
                 LAMBDA a, b : Place(a) < Place(b))

\* The first place is the master's.
IsMaster(w, s) == Place(w) = s * config.tp

FindSglangWorkers(s) ==
    /\ Sglang
    /\ todo[s] # <<>> /\ Head(todo[s]) = "init_engine" /\ server[s] # "exited"
    /\ engine' = [engine EXCEPT ![s] = SglangWorkers(s)]
    /\ todo' = [todo EXCEPT ![s] = Tail(@)]
    /\ UNCHANGED <<driverVars, workerVars, server, addressed, serverNode, asleep, restarts>>

FindWorkers(s) ==
    /\ ~Sglang
    /\ todo[s] # <<>> /\ engine[s] = <<>> /\ server[s] # "exited"
    /\ IF Cardinality(Created(RolloutPool)) = Cardinality(Servers) * config.tp
       THEN engine' = [engine EXCEPT ![s] = OwnWorkers(s)] /\ pc' = pc
       ELSE engine' = engine /\ pc' = "failed"
    /\ UNCHANGED <<config, next, building, free, hosts, batch, workerVars, server, addressed,
                   serverNode, todo, asleep, restarts>>

\* collective_rpc, and a call of each worker or, for a request, of the master, who
\* is None if no worker is this server's.
CallOwnWorkers(s) ==
    LET rpc == Head(todo[s])
        own == {w \in Range(engine[s]) : rpc = "chat_completion" => IsMaster(w, s)}
        Call(w) == [from |-> s, method |-> rpc, scopes |-> Scopes(rpc, w), data |-> NoRows]
    IN
    /\ todo[s] # <<>> /\ pending[s] = {} /\ server[s] # "exited"
    /\ IF Sglang THEN rpc # "init_engine" ELSE engine[s] # <<>>
    /\ queue' = [w \in AllWorkers |-> IF w \in own THEN queue[w] \cup {Call(w)} ELSE queue[w]]
    /\ pending' = [pending EXCEPT ![s] = own]
    /\ todo' = [todo EXCEPT ![s] = Tail(@)]
    /\ pc' = IF rpc = "chat_completion" /\ own = {} THEN "failed" ELSE pc
    /\ UNCHANGED <<config, next, building, free, hosts, batch, status, center, running, output,
                   server, addressed, serverNode, engine, asleep, restarts>>

\* ray.get of a call to an actor that is gone.
ServerLost ==
    /\ Due("serve") \/ pc = "serve"
    /\ \E s \in Servers : server[s] = "exited"
    /\ pc' = "lost"
    /\ UNCHANGED <<config, next, building, free, hosts, batch, workerVars, serverVars>>

ServersReturn ==
    /\ pc = "serve" /\ \A s \in Servers : todo[s] = <<>> /\ pending[s] = {}
    /\ pc' = "next" /\ next' = next + 1
    /\ UNCHANGED <<config, building, free, hosts, batch, workerVars, serverVars>>

-----------------------------------------------------------------------------

Init ==
    /\ config \in Configs
    /\ pc = "next" /\ next = 1 /\ building = 0
    /\ free = config.cluster
    /\ hosts = [p \in DOMAIN config.pools |-> <<>>]
    /\ status = [w \in AllWorkers |-> "absent"]
    /\ center = [p \in DOMAIN config.pools |-> <<>>]
    /\ queue = [w \in AllWorkers |-> {}]
    /\ running = [w \in AllWorkers |-> Nothing]
    /\ pending = [from \in {TheDriver} \cup Servers |-> {}]
    /\ output = [w \in AllWorkers |-> NoRows]
    /\ batch = InitialBatch(config)
    /\ server = [s \in Servers |-> "absent"]
    /\ addressed = {}
    /\ serverNode = [s \in Servers |-> 0]
    /\ engine = [s \in Servers |-> <<>>]
    /\ todo = [s \in Servers |-> <<>>]
    /\ asleep = IF config.async /\ Sglang THEN RolloutWorkers ELSE {}
    /\ restarts = 0

Driver ==
    \/ CreateResourcePool \/ CreateGroup \/ PlacementGroupsReady
    \/ CreateWorker \/ FindRegisterCenter \/ GroupCreated
    \/ CallWorkers \/ CallReturns \/ Finish
    \/ StartServers \/ ServersAnswered \/ AskServers \/ ServerLost \/ ServersReturn

Worker(w) == Register(w) \/ TakeCall(w) \/ Collective(w) \/ Answer(w)
Server(s) == Ready(s) \/ Listen(s) \/ Address(s) \/ FindWorkers(s) \/ FindSglangWorkers(s) \/ CallOwnWorkers(s)

Next ==
    \/ Driver
    \/ RegisterCenterTimesOut
    \/ \E p \in DOMAIN config.pools : JoinProcessGroup(p)
    \/ \E w \in AllWorkers : Worker(w)
    \/ \E s \in Servers : Server(s) \/ AddressTaken(s)

\* A process that can go on does, and so do collectives whose workers have come;
\* a register center that is there is found before the wait is over.
Fairness ==
    /\ WF_vars(Driver)
    /\ WF_vars(\E p \in DOMAIN config.pools : JoinProcessGroup(p))
    /\ WF_vars(\E w \in AllWorkers : Worker(w))
    /\ WF_vars(\E s \in Servers : Server(s))

Spec == Init /\ [][Next]_vars /\ Fairness

-----------------------------------------------------------------------------
(* Properties                                                                *)

\* Types, and where the driver can be: it waits for nobody between its calls.
TypeOK ==
    /\ config \in Configs
    /\ pc \in {"next", "place", "spawn", "center", "call", "listen", "serve",
              "done", "refused", "timeout", "lost", "failed"}
    /\ next \in 1 .. Len(Plan) + 1
    /\ building \in DOMAIN config.pools \cup {0}
    /\ free \in [DOMAIN config.cluster -> Nat]
    /\ status \in [AllWorkers -> {"absent", "started", "registered", "ready"}]
    /\ server \in [Servers -> {"absent", "starting", "ready", "listening", "exited"}]
    /\ addressed \subseteq Servers
    /\ asleep \subseteq RolloutWorkers
    /\ pc = "next" => \A from \in DOMAIN pending : pending[from] = {}

\* The rows the driver dispatches come back from every method each once and in
\* their order, however the workers that answer are laid out (decorator.py).
RowsReturned == batch = InitialBatch(config)

\* The workers that server s finds for itself are ranks s * tp, s * tp + 1, ... in
\* their order, as these workers have it (vllm_dp_rank, vllm_tp_rank of
\* fsdp_workers.py), and it runs on the node of the first of them.
EnginesDriveTheirRanks ==
    \A s \in Servers : engine[s] # <<>> =>
        /\ engine[s] = [i \in 1 .. config.tp |-> <<RolloutPool, s * config.tp + i - 1>>]
        /\ serverNode[s] = NodeOf(engine[s][1])

\* Whatever the order of the workers' and the servers' calls, nobody waits for
\* ever for the others and no assertion fails: a training there are GPUs for, whose
\* first workers come up in time and whose servers live, comes to its end.
Ends == {"done", "refused", "timeout", "lost"}
TrainingEnds == <>(pc \in Ends)

\* "Start all server instances, restart if address already in use"
\* (async_server.py): a server that was not restarted is there when it is called.
ServersRestarted == pc # "lost"
=============================================================================
