# Verification of verl's training protocols

The repository trains language models by reinforcement learning; its own logic is
the library `verl` (`src/verl/verl`), a single-controller program: one Ray driver
(`RayPPOTrainer`) issues every step of a training iteration, groups of workers
hold the models, inference servers generate the answers.  The modules here are
translations of the parts of that program whose correctness depends on the order
in which things happen, or on which row goes where: conversations that interleave
on an event loop, a disk that must make sense after a kill at any point, two
engines on one device, copies that run behind the host, a batch that is repeated,
joined, balanced, split and padded on its way through a training step, workers that
wait for each other in collectives that several callers start.  Each is
model-checked with TLC on small instances, and the safety properties that matter
most are proved with TLAPS for every value of the constants.

## 1. Inventory

Paths are relative to `src/verl/verl`, those of documents (`docs/`) to `src/verl`, unless
they say otherwise.

| component | state it keeps | operations | what is hard | what makes it correct |
|---|---|---|---|---|
| **Chat rollout with asynchronous servers** `workers/rollout/chat_scheduler.py`, `async_server.py` | heap of servers, LRU cache of request id -> server, per conversation `__depth__`, `__done__`, messages | wake_up, generate_sequences, submit, HTTP answer, callback, tool calls, sleep | hundreds of coroutines interleave at every `await`; requests and tools fail one by one; the cache is shared and bounded | every conversation ends and wakes its waiter once; a follow-up finds its server; no request outside a generation; the messages stay a dialog |
| **Trainer checkpoints and restart** `trainer/ppo/ray_trainer.py`, `utils/checkpoint/*` | `global_step_N` directories, tracker file, rotation lists, best score, dataloader position | decide, rotate, write shards, write data, prune, write tracker, load | a kill between or inside any two disk operations; two retention mechanisms; state that lives in memory only | the tracker names something loadable; the model and the data agree after a restart; bounded loss; the best is kept |
| **SGLang multi-turn rollout** `workers/rollout/sglang_rollout/sglang_rollout.py`, `workers/rollout/schemas.py` | one `AsyncRolloutRequest` per sample: state, token ids, loss mask, messages, turns | pending, tool calling, running, interacting, finalize | per-request state machine driven by a completion's finish reason; token and mask lists that must stay aligned through five append operations and a truncation | loss mask marks what the model generated; every tool instance made is released; bounds on turns and lengths |
| **PPO training step** `trainer/ppo/ray_trainer.py`, `core_algos.py` | the batch, weights of actor and critic, the validation table | generate, baseline, reward, balance, log-probs, values, advantage, resample, update, validate | ten estimators and a dozen options decide which columns exist and in which order rows are moved; tensors and numpy arrays move apart | a row is about one response; an advantage is of its group; no assertion on batches fails |
| **Single controller** `single_controller/base/*`, `single_controller/ray/base.py`, `trainer/ppo/ray_trainer.py` (`init_workers`), `protocol.py` | pools of GPUs, placement groups, register center, worker groups, `DataProto` batches | check and create pools, start workers, find each other, split, dispatch, execute, collect | placement is Ray's; a worker is called by the driver and by servers, and its collectives need all the others; dispatch follows five layouts of ranks | each row goes to one worker (or to all that share its model) and comes back at its place; nobody waits for ever |
| **Sequence-length balancing** `utils/seqlen_balancing.py` | none | karmarkar_karp, greedy_partition, rearrange_micro_batches | equal-size partitions, ranks that must agree on a number | a partition of the indices, equal sizes, inverse permutation |
| **DAPO, PRIME and SPPO trainers** `src/verl/recipe/dapo`, `prime`, `sppo` | the PPO step's, a batch under construction, number of generations, the reward model's weights | generate, filter groups, accumulate, oversample, train the reward model, soft mean | loops whose end depends on the data; groups told by their places; a step counted by the epoch | whole groups that qualify are trained on; an advantage is of its group |
| **Actor, critic and reward model; supervised fine-tuning** `workers/actor/dp_actor.py`, `megatron_actor.py`, `workers/critic/dp_critic.py`, `megatron_critic.py`, `workers/reward_model/megatron`, `workers/fsdp_workers.py`, `megatron_workers.py`, `trainer/fsdp_sft_trainer.py` | mini-batches, micro-batches, gradients, random state | compute_log_prob, compute_values, compute_rm_score, update_policy, gradient diagnostics, update_critic, training_step | sizes of the user become sizes of a rank; two orders of rows; every forward is collective; extra backward passes; virtual pipelines want micro-batches in groups | a gradient is its mini-batch once; no rank waits for another; diagnostics leave training as it was |
| **Hybrid engine** `workers/sharding_manager/*`, `workers/fsdp_workers.py` | where weights, cache and optimiser are; random states | enter, exit, wake_up, sleep, offload, load, save | two engines share one GPU; the order of loading, syncing and freeing decides about memory and freshness | generation uses the weights of the last update; nothing is resident twice; the random streams stay apart |
| **Activation offload** `utils/activation_offload.py` | two buffers, copy streams, group counters | group_start, group_commit, reload | asynchronous copies overlap computation; freed blocks are used again | a tensor is read back as it was saved; two groups on the device |
| **Tools and their rate limiter** `tools/sandbox_fusion_tools.py`, `search_tool.py` | semaphore of a shared Ray actor, pool of execution actors | acquire, execute, release | a named singleton shared by tools with different limits; failures inside the guarded call | at most `rate_limit` executions; every token comes back |
| **SPIN and entropy recipes** `src/verl/recipe/spin`, `entropy` | the PPO step's | the entropy trainer's as DAPO's; SPIN pairs preferences | groups after filtering; rows paired by position | as DAPO's |
| **Inference servers: start-up and workers** `workers/rollout/async_server.py`, `vllm_rollout/vllm_async_server.py` | servers, addresses, unready set, the engine's workers | create, bind, give the address, again; find the workers by name; `collective_rpc` | a port may be taken; ranks are found by the names of actors; several callers of one worker | an engine drives the ranks that take themselves for its own, on their node; start-up ends |
| **Reward managers, Megatron checkpoints and weight conversion, synchronous rollouts, datasets, model merger, interactions, tracking, vendored code** | | | | pure or numerical functions, a second backend of the same protocol, or input and output; PROJECT.json gives the reason for each |

How they interact.  In one iteration the driver takes a batch from the
dataloader (after `init_workers` has placed the workers and started the servers) and has it generated: in "sync" mode by a call of the worker group, in
which the sharding manager wakes the engine, copies the weights and puts it to
sleep again; in "async" mode by `wake_up`, `generate_sequences` of the scheduler,
which runs on an event loop in a thread of its own, and `sleep`.  What is generated is joined with
the batch the driver kept, balanced, sent for log-probs, values and
rewards through the dispatch functions, given its advantages on the driver, and
sent to critic and actor, which cut it into mini-batches and micro-batches.
Then the step is validated and saved if it is due, and `global_steps` is
incremented.  The disk is the only state shared by two launches.

## 2. Modules

| module | models | its place |
|---|---|---|
| `ChatScheduler` | `ChatCompletionScheduler`, `ToolCompletionCallback`, the manager and the driver around them | component |
| `GenerationRounds` | what the driver relies on: wake, generate until every conversation has ended, return, sleep | abstract specification of `ChatScheduler` |
| `MCChatScheduler` | the symmetry set | TLC instance |
| `ChatSchedulerProofs` | theorems | TLAPS |
| `RolloutRequest` | `AsyncRolloutRequest` and the state machine of `_async_rollout_a_request`, for the requests of one batch | component, checked directly |
| `RolloutRequestProofs` | theorems | TLAPS |
| `TrainerCheckpoint` | the checkpoint side of `fit`, `_save_checkpoint`, `_prune_checkpoints`, `_load_checkpoint`, `FSDPCheckpointManager` | component, checked directly |
| `DurableTraining` | what whoever restarts the job relies on: it goes on after the step committed last | abstract specification of `TrainerCheckpoint` |
| `TrainerCheckpointProofs` | theorems | TLAPS |
| `DataProto` | `DataProto`'s operations, and a call of a worker group: pad, split, gather in groups, execute, collect, unpad | operators |
| `SeqlenBalance` | Karmarkar-Karp, the number of micro-batches, the reverse index | operators |
| `SeqlenBalanceProofs` | lemmas on the heap, theorems on the partitions; lemmas on rows laid end to end | TLAPS |
| `TrainingStep` | `RayPPOTrainer.fit` and `_validate`, with the columns of the batch | component; extends the two above |
| `DynamicSampling`, `PrimeTrainer`, `SppoTrainer` | the loops of the trainers derived from it | components; extend `TrainingStep` |
| `Trainers` | the five main programs (PPO, DAPO, PRIME, SPPO, entropy) | composition |
| `MCTrainingStep` | the jobs | TLC instance |
| `TrainingStepProofs` | lemmas on batches and calls of worker groups; theorems on padding, dispatch and the steps of PPO, SPPO, DAPO and the entropy recipe | TLAPS |
| `PackedForward` | the forward of a micro-batch, token by token: removed padding, the slices of Ulysses sequence parallelism, labels, the response's part | operators |
| `PolicyUpdate` | `DataParallelPPOActor`, `DataParallelPPOCritic`, the FSDP reward model and the normalisation of sizes in the workers' `__init__` | component; extends `SeqlenBalance` and `PackedForward` |
| `MegatronUpdate` | the updates of the Megatron actor and critic, the Megatron reward model | component; extends `PolicyUpdate` |
| `Updates` | the updates of supervised fine-tuning; the three kinds of ranks | component and composition |
| `MCPolicyUpdate`, `PolicyUpdateProofs` | the jobs; theorems | TLC instance; TLAPS |
| `HybridEngine` | `ActorRolloutRefWorker` and `CriticWorker` with `FSDPVLLMShardingManager` and vLLM, in the order the trainer calls them | component |
| `EngineVariants` | the same with the Megatron workers, with SGLang, and with both | component; extends `HybridEngine` |
| `MCHybridEngine`, `HybridEngineProofs` | the configurations; theorems | TLC instance; TLAPS |
| `ActivationOffload` | `AsyncDoubleBufferGroupOffloadHandler` and the streams it feeds | component |
| `MCActivationOffload`, `ActivationOffloadProofs` | the sizes; theorems | TLC instance; TLAPS |
| `Dispatch` | the layouts of Megatron ranks, the dispatch and collect functions of `decorator.py` | operators; extends `DataProto` |
| `WorkerGroups` | resource pools, placement, the start of the workers, the driver's calls and the workers' collectives | component; extends `Dispatch` |
| `AsyncServers` | the servers of asynchronous rollout, their start and their calls of the same workers; the specification of both | component; extends `WorkerGroups` |
| `MCWorkerGroups` | the clusters, pools and layouts | TLC instance |

A definition whose comment begins with *Fault* is never used by a specification.
It is the definition after it with a plausible mistake (a dropped decrement, an
off-by-one, a missing reset); PROJECT.json pairs each with the property that
fails when the mistake replaces the real definition, so that no property is
listed that a mistake in the code could not break.

### ChatScheduler

| state | code |
|---|---|
| `phase`, `batch` | the driver's place in wake_up; generate_sequences; sleep |
| `task[c]` | the asyncio task that drives conversation `c` (the module's header lists its states) |
| `request[c]`, `address[c]` | the id and the server of the conversation's latest request |
| `depth`, `done`, `messages` | `info["__depth__"]`, `info["__done__"]`, the list of messages: of each its role, the number of tool calls of an answer and the place of the call a response is to |
| `calls` | coroutines of `_call_tool`: before create, executing, releasing, and settled ones that gather holds until the others are |
| `cache` | `request_id_to_address`, oldest entry first; an LRU cache none of whose entries is read without being removed evicts in order of insertion |
| `weight` | the counts of the heap `weighted_addresses`; the head is the least pair |

Everything between two awaits is one action: `Submit`, `StartNew` /
`StartResumed` / `StartLost` (from the start of the task to the HTTP request),
`PostFails` / `AnswerEnds` / `AnswerCallsTools` (from its answer to the end of the
task or to `asyncio.gather`), `CreateTool`, `ExecuteEnds`, `ReleaseTool`, `CallRaises` (one
call: create, execute, release, or an exception of what stands before `try` or in `finally`),
`ToolsFailed` / `Resubmit` (from gather to the end of the task), and the driver's
own `WakeUp`, `GenerateSequences`, `Postprocess`, `PostprocessFails`, `Sleep`.
`asyncio.gather` is modelled as it behaves: results are in the order of the calls, an exception that a call raises, of its
release too, is delivered at once, and the siblings run on without anyone reading their result.  What `execute` raises is returned
by the call and only ends the conversation when all calls are settled.

### RolloutRequest

| state | code |
|---|---|
| `phase` | of `_req_level_generate_sequences` |
| `req[r].state`, `.turns`, `.userTurns`, `.finish` | `_req.state`, `current_turns`, `user_turns`, `finish_reason_type` |
| `req[r].results` | what the gather of the tool calls has so far, by the place of the call: 0, or the call the result is of |
| `req[r].at` | where the coroutine is: head of the loop, waiting for the engine, behind the loop, finalized |
| `req[r].messages`, `.ids`, `.mask`, `.promptLen`, `.response`, `.responseMask` | the lists of the same names; attention mask and positions are extended, stripped and cut together with `loss_mask` |
| `instance[r][t]` | the instance tool `t` keeps under the request's id |

A token is the part of the chat template it belongs to, so that "which tokens are
trained on" and "how many are there" are both visible.  The methods of
`AsyncRolloutRequest` are functions of a request (`Extend`, `Ask`, `AddAnswer`,
`AddReplies`, `Strip`, `Truncate`); each branch of the loop is an action, and the
engine call divides RUNNING in two, and in TOOL_CALLING each call returns for itself (`ToolAnswers`) before the gather
does (`ToolsReturn`).  A message remembers which call it responds to.  `finalize` on a finish reason it does not accept ends in a phase of its own,
"refused".  `Raises` is an exception at any await: it leaves
`asyncio.gather` and ends the rollout of the batch.  The template is assumed to
encode a conversation message by message, which is what the repository's own
sanity check warns about when it fails.

### TrainerCheckpoint

| state | code |
|---|---|
| `status`, `launches` | whether a process runs, has finished, or was refused; how often it was launched |
| `pc` | the next disk operation (the module's header lists them) |
| `step`, `position`, `best`, `score`, `kept`, `garbage` | `global_steps`, batches taken from the dataloader, `best_val_score` / `best_val_step`, this step's validation score, `kept_steps`, the directories still to be removed |
| `rotation[role]` | `previous_saved_paths` of the actor's and the critic's manager |
| `dirs` | for every `global_step_N` the state of its actor, critic and `data.pt` (absent, partial, complete), the position `data.pt` records and the score of the model |
| `tracker` | `latest_checkpointed_iteration.txt`: missing, empty, or a step |

`Crash` may occur before every operation and in the middle of one; `TornDisk`
lists what each operation leaves when it is cut short.  Everything but `dirs` and
`tracker` is lost and set anew by `Launch`, in one of the three resume modes.  A
launch that raises leaves the job "stuck", since the next launch would raise too.

### DataProto and SeqlenBalance

A batch is a function from column names to sequences of one length, tensors and
numpy arrays alike.  `Take` is every selection and reordering; `Repeat`, `Rename`,
`Union`, `Part`, `Concat`, `Padded`, `Unpad`, `AutoPadded` are the methods and
functions of `protocol.py` under their names, with the assertions of `union` and
`chunk` as `CanUnion` and what `Dispatched` needs.  `Dispatched` is a whole
call: split among the workers, gathered and split again in the groups that share
a sequence or an engine, executed by each, collected, unpadded.  `KarmarkarKarp` is
the heap of partial partitions with the order of `State.__lt__`, and so its result is
the code's, ties included.  `sorted` is `Arranged`, which puts an item after as many as
come before it, and not `SortSeq`, whose definition in TLC's module the prover cannot use.

### TrainingStep and the trainers derived from it

| state | code |
|---|---|
| `taken`, `step` | batches taken from the dataloader, `global_steps` |
| `pc` | the next part of `fit` |
| `gen`, `out`, `batch` | `gen_batch`, `gen_batch_output`, `batch`: functions from columns to rows |
| `reward` | `reward_tensor`, or what `future_reward` comes to |
| `actor`, `critic`, `rm` | the number of updates their weights have had (`rm`: PRIME's reward model) |
| `table` | what the last validation gathered |
| `failed` | an assertion on batches has failed |
| `kept`, `num_prompt_in_batch`, `num_gen_batches` | DAPO's `batch`, of which `new_batch` is a part to be, and its counters |

A column holds what its numbers are computed of: a response names its prompt, which
of the prompt's samples it is and the weights that wrote it; a log-prob, a value,
a score names its response; an advantage is the set of rewards it was normalised
with.  A mask is the set of kinds of tokens it lets through.  So a row that
came from two responses, or a group that is not one, can be seen, and numbers
cannot.  `fit` is one action for each part with calls of its own (`NextBatch`, `GenerateRollout`,
`BaselineOrJoin` and so on), and the trainers of the recipes reuse the actions that they
inherit, with those they write anew in their own modules: DAPO filters groups
and goes on generating; PRIME verifies, keeps the groups that pass first, and
trains its reward model after, before or in reverse order with the scores; SPPO
holds a response against the soft mean of the whole batch and advances `global_steps` by the epoch;
the entropy trainer goes through DAPO's actions.
`Trainers` is their union; a configuration says which of them runs.

### PolicyUpdate, MegatronUpdate and Updates

| state | code |
|---|---|
| `job` | the configuration of a rank after the workers' `__init__` normalised it: its kind (`engine`), its `role`, rows, mini- and micro-batches, epochs, `stages` of the virtual pipeline |
| `lengths` | of the rows of every rank |
| `inferred` | what `compute_log_prob`, `compute_values` or `compute_rm_score` answers, for each row and each token of its response |
| `order` | of the rows in this epoch: shuffled by Megatron's `make_minibatch_iterator` where the user says so |
| `pc`, `epoch`, `mini`, `pass`, `micros`, `next` | the place in the four nested loops of `update_policy` |
| `grad` | how often each row is in the accumulated gradient, for each component of the diagnostics |
| `weight` | the sum of the factors by which the micro-batches' losses are multiplied |
| `rng`, `saved` | the random state dropout draws from, and what the diagnostics keep of it |
| `trained` | training forwards so far |

A step is one of all ranks, since every forward gathers parameters: a rank that
has no micro-batch where another has one makes the others wait (`NoRankWaits`).
`PackedForward` follows a token through the forward that answers: rows lose their padding and are packed into one
sequence, which is padded again and sliced among the ranks that share it; the labels are the sequence rolled by one; the
slices are gathered, brought back to the rows and the response is cut out one place early.  What is computed at a
token is the first and the last token it depends on, so that a row that sees another's tokens, a label that is of another
place, or a slice that was cut wrongly all show in `InferredInOrder`.  The tokens are numbered in the flattened
mask, as `unpad_input` numbers them (`Indices`).  The model itself, and `flash_attn`'s packing, are external.

`MegatronUpdate` differs in what is cut (the pipeline schedule takes all micro-batches of a
mini-batch in one call, a multiple of `stages` of them with dynamic sizes), and ends in "raised" when
`rearrange_micro_batches` is asked for more micro-batches than there are rows, or a gradient is not finite.
`Updates` has supervised fine-tuning, which infers nothing and where a batch of the dataloader is a mini-batch, and chooses by `job.engine`.

### HybridEngine and EngineVariants

| state | code |
|---|---|
| `call`, `purpose`, `pc` | the trainer's call of the worker group, what a generation is for (training, baseline, validation), the place in its handler |
| `onDevice` | what of models, optimizers, the engine's weights and its cache is in device memory |
| `version` | the updates the weights of actor and critic have had |
| `engine`, `cached` | the weights the engine generates with, and those its prefix cache was computed with |
| `baseSyncDone`, `isSleep` | the sharding manager's flag for adapters, the asynchronous rollout's flag |
| `rng`, `torchRandom`, `genRandom` | the device's random state and the two that are kept: which stream, how many values drawn |

Each step of a handler that moves something to or from the device is an action
(`Fetch`, `PutAway`, `EnterFetch`, `WakeWeights`, `UpdateParams`, `EnterPutAway`, `EnterEnd`,
`Exit`), since what is there at the same time is what decides; what a handler
computes is `Update`, `Read`, `LoadCheckpoint` or `Generate`, and `Dispatch` is the
trainer's next call.  In "async" mode a generation is three calls, and nothing but the flag
`isSleep` tells whether the engine is awake.  `EngineVariants` has the other three managers on the same
variables: with Megatron `MegatronEnterFetch` and `MegatronLoadWeights` take the place of `EnterFetch` and
`UpdateParams`; an engine of SGLang is built awake, loses what it releases, and throws away what it was
built with when it is first resumed (`needReload`, `Resumed`); the order of waking it and of fetching the
actor differs from manager to manager (`ResumeFirst`, `ResumeAll`, `FetchParams`, `ResumeEnd`).

### ActivationOffload

| state | code |
|---|---|
| `current`, `count`, `state`, `buf`, `mapping` | `current_group`, `offloaded_group_count`, `tensor_tag_to_state`, `tensor_tag_to_buf`, `group_offload_mapping` |
| `micro`, `phase`, `layer` | the place of the host in the forward and backward passes |
| `queue`, `done` | of the compute stream and the two copy streams: operations not yet done, number done |
| `freed`, `device`, `back`, `host` | which blocks the host let go of, and what the blocks and the copies on the host hold |

The host runs ahead and enqueues; `Run(s)` is the next operation of a stream. An operation that
allocates may be given any block freed before it was enqueued in the same pool,
which is all the caching allocator promises.

### WorkerGroups and AsyncServers

| state | code |
|---|---|
| `pc`, `next` | where the driver is, and which entry of its `Plan`: `init_workers`, the servers, the validation before training, one step of `fit` |
| `building`, `free`, `hosts` | the pool whose workers are created, GPUs no placement group has, the placement groups of each pool in the order of their nodes' addresses |
| `status`, `center` | how far a worker's process is; the workers in the register center, by rank |
| `queue`, `running` | calls a worker (a Ray actor) was sent, and the one it is running with the collectives it has yet to do |
| `pending`, `output`, `batch` | the workers a sender waits for, their answers, what the driver's call returned |
| `server`, `addressed`, `serverNode` | how far a server's process is, whether it has given its address, where it runs |
| `engine`, `todo`, `asleep` | the workers a server found for its engine, the calls it has yet to send, the workers without weights and cache |

A worker runs one call at a time; calls of one sender come in order, those of two
senders in any.  A collective goes on when all workers of its scope, the pool or an engine, have come to it.  The
driver waits for the servers, and they call the workers that the driver calls before and after; what must be
shown is that no order in which the calls arrive leaves two workers in different collectives.  `wake_up` is a
collective only of workers that sleep.  A row of a batch is its number: `Dispatch` says to whom it goes and whose
answers are collected for tensor, context, data and pipeline parallel layouts, and the methods are given the
dispatch mode their workers register them with.  A training ends as "done", "refused" (not enough GPUs), "timeout" (the first
worker did not come up in time), "lost" (a server is gone, section 5) or "failed" (an assertion).

## 3. What the runs show

| run | instance | what it shows |
|---|---|---|
| `chat_rounds` | 2 conversations, 2 servers, cache 2, turn limit 4, up to 2 tool calls, 2 batches, failing requests, tools and releases | `__depth__` counts the ongoing requests at every await; an answer is followed by one response per call, in the order of the calls; no request runs beside tool calls or releases of its own conversation; every batch ends; the scheduler implements `GenerationRounds` |
| `chat_eviction` | 3 conversations, cache 2 | with evictions of live ids: a waiter is woken only at the end of its conversation, and always then but when the id was evicted while the tools ran, which leaves the batch without a return (section 5); a conversation never changes server |
| `rollout_turns` | 2 requests, 2 tools, an interaction, 3 assistant turns and 1 user turn, a prompt that fits and one longer than `prompt_length`, answers cut, ended, with calls that parse and that do not | the tokens gathered turn by turn are those of the whole conversation, with one generation prompt per answer; the engine's budget fits the context; the response is the conversation cut to its length and the mask marks its answers with their ends of turn; calls that return in any order are answered in their own; instances are released; the rollout ends and `finalize` does not refuse it |
| `ckpt_rotation` | 8 steps, saved every second one, 2 slots for actor and critic, 4 launches, kills anywhere | the tracker names a checkpoint that loads; the data follows the model; the job completes unless it was killed while the tracker was empty; it implements `DurableTraining` |
| `ckpt_best` | best mode, 4 steps validated each, 2 slots, 2 scores, critic rotation off, three resume modes, 3 launches | the best of the launch stays on disk |
| `ckpt_prune_crash` | best mode, kill while pruning | *violation*: the directory the tracker names is gone and the next launch trains from scratch |
| `train_step` | the five trainers, two steps each, every estimator with and without reference, teacher, reward model, baseline, asynchronous servers; 1 to 4 workers, groups of two and four; rows of length 1 and 3 in any arrangement; validation batches of 3 and 1 | a row is about one response, generated by the weights of this step; its advantage is of its group; each worker gets the same number of rows and a balanced load; assertions on batches hold; validation attributes scores to prompts; no tool's tokens are trained on; dynamic sampling trains on whole groups that qualify |
| `train_tool_mask` | tools called by the chat scheduler | *violation*: the response mask is overwritten before the update and the actor is trained on what tools answered |
| `policy_update` | 2 ranks, rows of 2 and 5 tokens in any assignment to up to 6 rows, padded, or packed on 1 to 4 ranks, fifteen jobs of FSDP and Megatron actors, critics and reward models and of supervised fine-tuning, finite and infinite gradients | what is inferred comes back to its row and its token, computed from the tokens before it and no others; a gradient is its mini-batch once; losses are averaged; diagnostics leave the random state alone; ranks make the same number of micro-batches |
| `hybrid_engine` | 3 steps, FSDP and Megatron workers, vLLM and SGLang, every combination of offloading, adapter, dummy weights, tags, critic, baseline, warm-up and resume, synchronous or asynchronous, but for the kinds named under bounds | a generation is with the weights of the last update and no stale prefix; what computes has its model on the device; what is offloaded never meets the cache; the two random streams stay apart |
| `worker_groups` | 2 to 8 workers on 1 to 3 nodes; FSDP and Megatron layouts with each pair and two threes of dimensions; two pools; a cluster too small; 1 to 3 servers of vLLM or SGLang with engines of 1, 2 and 4 workers, up to two taken addresses, up to 2 rounds of an engine | rows come back from every dispatch in order; engines drive the ranks that take themselves for theirs; no order of calls and collectives leaves anybody waiting |
| `act_offload` | 2 micro-batches, models of 1 to 5 layers with 1 to 4 offloaded, streams at any pace | backward reads what its layer saved; at most two layers are on the device; every micro-batch ends |

Bounds.  Two conversations are enough for every pair of interleaved tasks, and
two batches for entries of an earlier batch to meet the new one; with three
conversations and a cache of two a live id is evicted (the cache of the code has
10000 entries and a batch of `train_batch_size * n` conversations can exceed it).  Two
servers make a tie and an imbalance.  Two tool calls make one fail while the
other runs.  `ContextLimit` bounds the messages of a conversation as the context
of a server does; it also keeps the state space finite.  The context of 14 tokens is filled by
a third turn, by a reply, or by the generation prompt, depending on the lengths of
the answers, so that every way out of the loop occurs.  Eight steps with a
frequency of two give four checkpoints, twice what the rotation keeps, and four
launches give three kills, so that leftovers of two earlier launches meet the
third.  Two scores make a better, a worse and an equal model.

Two steps of training are enough for a column left by one to meet the next, and
for weights to differ; two lengths make every order of rows that
balancing can produce; a validation batch of one row leaves all but one worker
with padding only, one of three leaves half.  DAPO generates batches smaller than the
step's, as large, and larger; PRIME generates twice what it keeps, its loop stops one step before the total,
so that a total of 3 is two steps.  PRIME runs with `balance_batch` off, its own
default; it is on only with one worker, where there is one order (`PrimeBalanced.cfg` shows
the other case).  Its assumptions in `PrimeTrainer` are: an oversampled batch of
a whole number of prompts, and no worker that is left a single row of a group.
The updates' jobs include mini-batches that do not divide the batch (5 rows of 3), one micro-batch and
several, two epochs, rows with and without padding on either side, packed sequences that a group's ranks do and do not divide, a virtual pipeline of two stages, and rows too few for its micro-batches.  `MCHybridEngine` leaves out (`LeftOut`) a job that resumes
with an engine that is awake (`HybridResume.cfg`), an adapter on a dummy base model that resumes, and the two asynchronous
SGLang engines whose `wake_up` leaves something out (section 5).
Three steps put a warm-up of two, with its generations from the same weights,
before an update.  Models of five layers with three or four offloaded use each of the two
buffers more than once in a pass.  Eight workers are the fewest for three parallel dimensions; an engine of four workers on two nodes and two
engines on one node are where names and local ranks could be taken for each other (SGLang's servers only where their number is
that of a node's GPUs, or one node has them all; section 5 has the rest); three nodes of two leave Ray
a choice of nodes for two placement groups.  `MaxRestarts` of two lets one server lose its address twice, or two at once; `MaxRounds`
of two lets the engines of one generation be at different collectives.

`CHECK_DEADLOCK FALSE` is said because the systems stop: the driver after its
last batch or step or after a failed assertion, a job after its last launch, a waiter of
a dead task, a rollout that returned, raised or was refused, an update after its last
mini-batch, streams after the last micro-batch, a training that came to one of its ends.

Fairness.  `ChatScheduler!FairSpec` is weakly fair to the driver, to every
conversation's task, to its answers and to its tool calls: the event loop runs
each ready coroutine, a server answers or fails, and a tool returns or raises.
The client sets no time-out (`ClientTimeout(total=None)`), so a server that never
answers would hold up the batch forever; that a server answers is an assumption.
`EveryBatchEnds` is checked where the cache fits; where it does not, it is false
for the reason `ChatSmallCache.cfg` shows.  `RolloutRequest!FairSpec` is
weakly fair to the coroutine of every request and to the return of the batch, on the
same ground; each request has its own condition, because a request that waits for
its tools does not hold up the others.  `TrainerCheckpoint!FairSpec` is weakly fair to
a running job and to the launch of one that is down.  Kills are bounded by
`MaxLaunches`, so completion is claimed for jobs that die finitely often.
`ActivationOffload!Spec` is weakly fair to the host and to each stream, each on
its own: a device runs what heads a stream, and the only thing that can keep it
waiting is another stream.  `AsyncServers!Spec` is weakly fair to the driver, to collectives all of whose
workers have come, to the steps of workers and to those of servers (all have finitely many): `TrainingEnds` says then that no
order of their calls is a deadlock.  It is not fair to the register center's time-out, which a run may or may not meet, nor
to a taken address.  The other modules state no fairness and claim no liveness.

## 4. What is proved

`ChatSchedulerProofs`, for any finite set of conversations, any finite set of
servers, any limits and any number of batches: `TypeOK`, `WokenUnlessEvicted`,
`QuietOutsideGeneration`, `ConversationsBalanced`, `StickyRouting`, `ToolsOverBeforeFollowUp`, `DialogWellFormed`, and that every
step implements a step of `GenerationRounds` or a stutter.  From
`CacheFits` (`Cardinality(Conversations) <= MaxCacheSize`) in addition:
`LiveRequestCached` and `DepthCountsOngoing`; `ChatSmallCache.cfg` shows that the
assumption cannot be dropped.

The invariant is `Types /\ Control /\ Requests /\ CacheOrder`.  `Control` ties
`depth` and `done` to the state of the task and of the driver.  `Requests` says that a
request id names its conversation and batch.  The difficulty is the cache: entries
of conversations that have ended are never removed, so it fills up with stale
ids and then evicts at every insertion.  That it does not evict a live one needs
`CacheOrder`: ids of earlier batches come first, of this batch there is at most
one per conversation, and none of a conversation that has not started.  If the
cache is full when a new conversation starts and its first entry is of this
batch, then all are, each of another conversation, so there are at least as many
started conversations as places: one more than `CacheFits` allows
(`VictimIsStale`).  A follow-up removes its own id first and so evicts nothing.
`StickyRouting` follows from `Addressed`: an entry with a conversation's current id
carries the current address.

`WokenOrEvicted` says what is left of "the waiter is woken at the end" without `CacheFits`: a task that is over is
finished and `done` is set, or it died, and then its request id is no longer cached (`Evicted`), its last message is a
response, and the driver still waits.

`FollowUpsWait` and `DialogCorrect` (`DialogWellFormed`) need no assumption and an invariant each.  `CallsInTime`: no call
is of a later batch, and of this one a conversation has calls in progress only behind an answer to it, those of this answer alone
while the callback waits.  `Dialog`: what the
task is waiting for says how the messages end, while it waits for tools with an answer of as many calls as have numbers
(`Pending`, `Numbered`), so that the responses that are appended are one for each in the order of the calls (`AppendResponses`).

`TrainerCheckpointProofs`, for any number of steps, any frequencies and any number of
kills: `TypeOK`, in every mode; from `RotationMode` (best mode off, no limit equal to one,
`resume_mode=auto`) `TrackerLoadable`, `DataInStep`, that
the job implements `DurableTraining`, and that a launch fails only on an empty tracker
(`StuckOnlyIfTorn`, which the run has within `JobCompletes`); from `BestMode` (best mode on, no rotation of a critic)
`BestRetained`.  With `MaxActor = 1` in
`CkptRotation.cfg` `TrackerLoadable` fails, which is why a limit of one is excluded; `ckpt_prune_crash` shows why best mode
is, and section 5 why a rotated critic is excluded from the other.

`TrackerLoadable` is not inductive: that a rotation does not remove the tracked
checkpoint depends on the manager's list, on how far the current save has come
and on the tracker lagging behind the step.  `IInv` has a part for each:
`TrackedTaken` (the tracked checkpoint is complete and its `data.pt` was taken at
its step), `TrackerLags`, `CurrentWritten`, `RotationsSpare` (only the last entry of a list
that has not been extended yet may be the tracked one, and a full list of at
least two drops its first), `PositionOfStep`, `NothingPruned`.  There is one lemma per
action, `CrashPreserves` among them.

`BestRetained` has an invariant of its own, `BestInv`: the best step lies behind the one being trained (`BestBehind`),
in the step that validated it its save is still to come (`BestCurrent`), and it is neither
among what is to be removed nor left out of what is kept (`BestSpared`).

`RolloutRequestProofs`, for any number of requests and tools and any lengths:
`TypeOK` (with the equal lengths that the code asserts in four places), `EngineFits`,
`InstancesReleased`, and that `finalize` never refuses a finish reason
(`FinishAccepted`).  The invariant `Inv` says of each request what its place in the loop implies:
instances exist from the end of PENDING to the end of the loop (`InstancesOf`),
a user turn is left while interacting and the finish reason behind the loop is
acceptable (`Control`), and the tokens sent to the engine already end with the
generation prompt, so that the second request for it appends nothing and the
length that was compared is the length that is used (`Asked`).  One lemma per method
says what it leaves alone, one per group of actions that it preserves `Inv`.

The same module has what the lists contain, with the content of the conversation in the invariant (`AllTold`):
`TokensFollowMessages`, `ResponseAligned` and `CallsAnswered`, for any conversation.
The encoding of a conversation is a flattened sequence; that it
grows at its end when a message is appended (`FullAppend`, `FullReplies`) is shown from the function `FlattenSeq` is
defined with, by the least length for which it would not.  `Told` says for each place of the coroutine
whether its tokens are those of its messages (`Exactly`) or these and a generation prompt (`Asks`).  That the test for a
generation prompt at the end of the tokens is decisive is `Ended`: no message's tokens end with one.
`Marked` says of a mask that it marks the answers with what the template puts behind them (`OnlyGeneratedTrained`, the stricter
reading, is false: section 5), `Replied` that each call so far has its tool message behind it, the j-th that of the j-th call, `Gathering` that
a result the gather already has is at the place of its call, in whatever order they came, and `Calls` when no answer is open.

`HybridEngineProofs`, for any set of configurations and any number of steps:
`TypeOK` and `OwnStreams`, and from `SyncedAtStart` (no asynchronous job resumes, no
adapter on a dummy base resumes) `ComputesOnDevice`, `DeviceShared` and `GeneratesLatest`;
`HybridResume.cfg` shows why that assumption is there.  What is on the device depends on the
handler's place alone, which `Tenancy` says for every `pc` (`Place`), call
(`CallMade`) and configuration (`ResidentMemory`, `StreamsApart`).  Freshness is more: between two generations the
engine's weights are stale, discarded or current, and which of them follows from `isSleep`
(`FlagRight`), from what is awake (`EngineMemory`, `OffloadedMemory`), from whether the
base was ever sent to an engine with dummy weights (`BaseSent`); from the synchronisation to the end of the
generation the engine has the actor's weights and its cache none but these (`EngineFresh`).

`ActivationOffloadProofs`, for models of any number of layers, any number of them offloaded and any number of
micro-batches: `BackwardReadsOwn` and `TwoGroupsResident`.  An operation has a place in its stream that it keeps
while it is pending and when it is done; `Before` and `Chain` say that it is done when another one runs, as it is earlier
in the same stream or one that the other waits for, itself or by way of a third stream.  `OpsSupplied` is the invariant of the device: an operation that
is pending reads memory whose last write before it is the right one, and every later write to it comes
after.  It is preserved by whatever stream advances, and what the host enqueues
must satisfy it.  That it does rests on the handler's own bookkeeping (`Handler`): what is in which state and
how far the windows have come (`Progress`), that a group's tensors are let go of when the computation waits for the copy (`Left`,
`OutsWaited`), that a group is called back in time, before its backward pass, and waited for (`InTime`, `Called`,
`InsWaited`), and that what the handler believes of a group is true once the streams have done what they were given
(`Believed`).  At most two groups follows for one layer less offloaded than there are (`Neighbours`), as the property has it.

`SeqlenBalanceProofs`, for any lengths and any number of parts: what `get_seqlen_balanced_partitions` returns is a
partition of the items, of equal sizes where that is asked, whose loads differ by no more than
the longest item is long (`PartitionsBalanced`), and with equal sizes by no more than the longest and the shortest
item do (`EqualPartitionsBalanced`); and what `rearrange_micro_batches` returns is a partition into the number that
the ranks agreed on (`RearrangedRows`).  The states on the heap share no item
and have all of them together, a merge leaves one fewer, and the spread of a
merged state is no more than the longest item either: the largest set of one goes with the smallest of the other.  Sums over
sets, the sort and the number of merges are functions of the code's recursion; what holds of all is shown of
the least set, or number, for which it would not.

`PolicyUpdateProofs`, for any jobs that `JobsAssumption` allows, ranks and rows of the three kinds (the specification of `Updates`), from no
assumption beyond the modules' own (there are finitely many ranks and at least one): `RandomnessUndisturbed`, `NoRankWaits`, `GradientIsMiniBatch`, `InferredInOrder`, and
`LossFactorsAddUp` of the jobs that `Counted` allows: it leaves out the two kinds of which it is false (`UpdateMultiModal.cfg` and `SftAccumulation.cfg`), and no other.
The diagnostics draw from the random state as often as there are micro-batches and
put back what they saved; the invariant says that before a training pass what was saved is the state
training has come to (`Kept`), and that elsewhere the state itself is (`Training`, `Untouched`); that only an actor of the
FSDP workers diagnoses (`Roles`) and that without diagnostics there is no pass but the one that trains (`OnePass`).
Three others are of one invariant, `PassInv`: the mini-batches have every row once (`RowsInv`); the micro-batches of all ranks are
partitions of the mini-batch into the same number (`ReadyInv`), by `split` or by `RearrangedRows`; and what a pass has
gathered is the gradient, and the weight, of the micro-batches before `next` (`RunInv`), which share no row with it.
There is one lemma for each kind of ranks.

`InferredInOrder` takes more than half of the module, and is about the merge alone: nothing that comes later changes what it
returned (`InferInv` is `PassInv`, the fixed micro-batches being those of `split`, and the property).  What is unpadded has the
tokens of all rows in order (`Laid`); with the padding of Ulysses there are as many for each of the group (`Packing`), so that the slices, one
after the other, are what was sliced (`SlicesFlat`).  The latest place with position 0 before a token is the first of
its row (`OutputAt`): the model sees this row and no other.  The label of a place is the token after it
(`PackedLabelsAt`), and of the last token of a row that of the next row: it is the response's part that leaves it out, for this begins one place
early and ends one place early (`ResponseToken`).  Gathered, without the padding, an answer is at the place that `indices` has for its token (`UnpackedAt`).
At last the micro-batches: side by side the rows and the answers have the same order after they are concatenated (`FlattenTogether`),
which is the order of the rows itself when they were split, and what the reverse index undoes when they were rearranged (`CountedRow`, `ReversedRow`).
The reward model's score is that of the last token, which is the last valid place (`LastPlace`), and at this place it is put.

`TrainingStepProofs`, for any set of configurations that `ConfigsAssumption` allows, any lengths and any number of steps.
The first part is about the operations of `DataProto`, for batches of any number of rows: a padded
batch is divided by the workers (`PaddingDivides`), and unpadding what was padded gives the
batch back, row by row (`PaddingUndone`), also when there are fewer rows than
workers and the padding repeats the batch several times; and a call of a worker group - padded, chunked, gathered in groups,
computed, each worker's own part of it put together and cut off - is as if one worker had computed the whole
batch (`CallWhole`, `CallResult`; of log-probs `LogProbsInPlace`).

The rest is about `TrainersSpec`, in the steps of all trainers but PRIME's (`Plain`): `RowsAligned`, `AdvantageOfItsGroup`,
`OnlyGeneratedTrained` (unless tools run and the chat scheduler runs them: `TrainToolMask.cfg`), and `NoAssertionFails` where the workers divide the
prompts and the responses of the batch that is generated (`Fits`; `_validate_config`, `ray_trainer.py:485`, asks this of `train_batch_size`, and
`gen_batch_size` may be another).  The invariant, `StepInv`, follows the batch.  While it is generated for, the prompts are
those of the dataloader's turn, with padding behind them at most, and the answers are those to them, side by side (`GenInv`).
From `assemble` on each column says of each row what is of the response in it (`Told`), the rows with one `uid` are those of one prompt, and every sample
of it is there once (`Whole`); both are independent of the order of the rows, so that balancing keeps them, and which columns
there are follows from the place in `fit` (`Present`), so that no union meets a column of that name (`BatchInv`).  Behind `compute_advantage` the
advantages are of the group (`LearnInv`); pf_ppo's resampling gives up `Whole`, and is only allowed where an advantage is of the row alone.
There is one lemma per action.

DAPO and the entropy recipe take several turns for a step, and `SampInv` is about what is in the making (`Sampled`).  The new
batch is whole groups, side by side, of the last turn (`NewInv`); the kept one is that of all turns since the last step, with
its columns, and, where groups are filtered, no group in it scores alike (`KeptInv`).  What joins the two (`concat`) or cuts off the end of one
(`FirstRows`) is between two groups, so that what is aligned is a batch of a step (`Whole`), of as many rows as `StepSize` has, and `StepInv` goes on from there.
A prompt is never in two turns, since each is of places of its own in the dataloader (`OfBatches`); so its responses are those with one `uid`, whatever was kept.
A turn is only taken while there are too few groups, and adds `genPrompts` at most.  `GroupsStayQualified` is all of this, when it is learned from.
`FitInv` adds that exactly the rows that were asked for are there.

`RanksStayBalanced` adds `EvenInv`: from `balance` on, any bound on the differences of the lengths is one on the
differences of the workers' loads (`Evened`; `BalanceEvens` has it from `EqualPartitionsBalanced` and the places at which the partitions are
put), and since it only mentions the responses, the steps that join columns keep it (`JoinKeeps`).  `ValidationStaysAligned` holds of
all trainers, since none of them changes the table but by a validation, by giving it up, or not at all (`TableStep`).  What a validation finds
is computed through: the answers to a padded batch, cut (`AnswersToPadded`), the columns of one batch of the dataloader
(`ValidatedRows`), and `concat` of batches of different sizes (`ConcatOver`: a place in the table is in one of the pieces,
`PieceOfPlace`).

`DispatchedCollected` is about `Dispatch` alone, for layouts of any four sizes.  A rank is its coordinates (`RankOfCoordinates`,
`CoordinatesOf`, two divisions at a time: `Composed`), so that the ranks that answer - of the last stage of the pipeline, the first of their
tensor and context groups - are one of each replica, and in the order of ranks they are in the order of replicas (`AnsweringRanks`).
A loop that appends the indices it chooses is `InOrder`, and gives the only enumeration of the chosen that grows
(`EnumeratedInOrder`, `InOrderEnumerates`).

Only model-checked: liveness (`EveryBatchEnds`, `JobCompletes`, `EveryRequestEnds`,
`MicroBatchesEnd`, `TrainingEnds`, and the fairness part of `RoundsSpec`), which is beyond the prover; the training steps of PRIME, whose
advantages are told by places; and the properties of worker groups, `RowsReturned`, of which `DispatchedCollected` is the part about
layouts while the calls, their collectives and their order are TLC's, and `EnginesDriveTheirRanks`; their
type invariant holds when it is added to `WorkerGroups.cfg`.  The library's induction theorems
take an operator as a parameter, which the prover cannot instantiate; where the proofs need an induction they
take the least counterexample instead.

## 5. Disagreements

Besides the two runs marked *violation* above, twelve instances have no listed run, ten of them with a
configuration of their own; TLC finds their property violated.

| configuration | module | property | what happens |
|---|---|---|---|
| `ChatSmallCache` | `MCChatScheduler` | `DepthCountsOngoing` | eviction of a live id kills the task by the assertion at `chat_scheduler.py:309`, outside the try block: `__depth__` stays 1, the done event is never set and `generate_sequences` never returns (the default cache has 10000 entries) |
| `ChatEmptyResponse` | `MCChatScheduler` | `ResponsesNotEmpty` | a request that fails on the first turn reaches the assertion that no response is empty |
| `CkptBestForgotten` | `TrainerCheckpoint` | `BestScoreKept` | the best score does not survive a restart and the best checkpoint is pruned |
| `RolloutMask` | `RolloutRequest` | `OnlyGeneratedTrained` | an answer cut at `max_new_tokens` is trained on an end of turn the model did not write |
| `UpdateMultiModal` | `MCPolicyUpdate` | `LossFactorsAddUp` | with images and dynamic micro-batches a micro-batch is a dict, and `len(data)` in its loss's factor is the number of keys |
| `DapoExhausted` | `MCTrainingStep` | `RepeatsUntilEnough` | the epochs run out while a batch is being filled: it is dropped, the last step is never reached, nothing is validated or saved; `docs/algo/dapo.md:84` says sampling repeats until there are enough prompts |
| `PrimeBalanced` | `MCTrainingStep` | `AdvantageOfItsGroup` | with `trainer.balance_batch=True` rows are reordered before `filter_and_downsample` and RLOO group them by position; the comment at `prime_ray_trainer.py:381` says this "won't affect the advantage calculation (since it's based on uid)" |
| `SppoSteps` | `MCTrainingStep` | `StepIsIteration` | `sppo_ray_trainer.py:328` to 345 stands outside the loop over batches: `global_steps` advances once an epoch, all batches of an epoch save over one directory, and with the default total the last step is never reached; `docs/examples/config.rst:534` counts `save_freq` by iteration |
| `SftAccumulation` | `MCPolicyUpdate` | `LossFactorsAddUp` | `fsdp_sft_trainer.py:396` runs backward inside `_compute_loss_and_backward`, before the loss is divided by the number of micro-batches (:380): the gradient is their sum, and grows with their number; `docs/algo/ppo.md:24` says of the micro-batch size that its "value should not change algorithmic/convergence behavior" |
| `HybridResume` | `MCHybridEngine` | `GeneratesLatest` | asynchronous and resumed: the first `wake_up` finds the engine awake (`vllm_rollout_spmd.py:407`) and does nothing, so that the first generation is with the weights of the base model |
| `WorkerGroups` with `MaxRestarts = 1`, `MaxRounds = 0` and the invariant `ServersRestarted` | `MCWorkerGroups` | `ServersRestarted` | a server gives its address once its application has started (`async_server.py:55`), before uvicorn has bound the port; if that fails it exits after its address was taken note of, and `init_engine` is sent to an actor that is gone; the comment says "Start all server instances, restart if address already in use." |
| `WorkerGroups` with `Configs <- UnequalPools` and `MaxRestarts = 0` | `MCWorkerGroups` | `TrainingEnds` | pools of 2 and 4 GPUs on nodes of 2 and 4: `_check_resource_available` (`ray_trainer.py:122`) accepts them, Ray may place the first pool on the larger node, and `get_placement_groups` waits for ever for the second |

Met while reading and modelling; they follow from a few lines each, or the
document they disagree with is only a name.

Chat, rollout and checkpoints:

- With one slot (`max_actor_ckpt_to_keep=1`) the only checkpoint is removed before its successor is written
  (`fsdp_checkpoint_manager.py:186`), and a kill between the two leaves the tracker without one.
- `chat_scheduler.py:269` calls the heap "Least requests load balancing"; the count
  of a server is incremented when a conversation is given to it (:313) and never
  decremented, so that it balances conversations ever given, not requests.
- An empty tracker file, which a kill between `open(..., "w")` and `write` leaves
  (`ray_trainer.py:1467`), makes `int("")` raise in `find_latest_ckpt_path`
  (`checkpoint_manager.py:187`): every later launch fails until someone removes the
  file.  `StuckOnlyIfTorn` and `JobCompletes` say that nothing else does.
- A job that finished and is launched again trains one step beyond
  `total_training_steps` (`ray_trainer.py:1786` increments before the loop).
- The rotation forgets the checkpoints of earlier launches (`checkpoint_manager.py:60`), so
  `max_actor_ckpt_to_keep` is a limit per launch.
- `docs/sglang_multiturn/interaction_system.rst:266` says "Always call
  `finalize_interaction()`"; the rollout starts a session for every request
  (`sglang_rollout.py:931`) and never ends one.
- `SandboxFusionTool` with `enable_global_rate_limit=False` has no rate limiter
  (`sandbox_fusion_tools.py:67`), and `execute` uses it all the same (:79).
- In best mode the critic is still rotated (`ray_trainer.py:1433`): with
  `max_critic_ckpt_to_keep` set, the best checkpoint loses its critic and cannot be
  loaded.
- With `resume_mode=disable` in a used directory, pruning in best mode may set the tracker
  to a step of the earlier training (`ray_trainer.py:1454`).

Training step and updates:

- Auto padding: the driver's argument is padded in place (`decorator.py:105`) while the
  result is trimmed (`ray/base.py:53`), so that the next `union` has two lengths
  and asserts, although the dispatch of `decorator.py:373` is there to "enable auto padding".  Keyword arguments are padded by `chunks - len % chunks` also when nothing is
  missing, and positional ones after them are not.
- `_validate_config` accepts sizes at which `chunk` asserts in "sync" mode (3 prompts, 2
  samples, 2 workers); the comment at `ray_trainer.py:655` names it as to be done.
- The KL penalty in rewards is computed without `multi_turn`, so tool tokens are
  penalised where the loss leaves them out; asynchronous servers with `multi_turn.enable` have no
  `loss_mask` column and raise.
- pf_ppo resamples after balancing, so that ranks are no longer balanced.
- Normalising floors `ppo_mini_batch_size * n` by the number of ranks; that it is positive is
  asserted for the actor only.
- `rearrange_micro_batches` says a micro-batch holds at most `max_token_len`; three rows of
  length 3 with a limit of 5 become micro-batches of 6 and 3.
- A critic with images and dynamic micro-batches uses indices it has not set
  (`dp_critic.py:145` to 180).

Hybrid engine:

- An asynchronous engine starts awake, so that its first `sleep` runs `__exit__` without
  `__enter__`: the random state of generation is replaced by the one training goes on
  from, and no longer the same on the ranks of one engine, which is what it is for (the comment
  at `fsdp_vllm.py:90`).  `OwnStreams` is said of the synchronous engine.
- `FSDPSGLangShardingManager.wake_up` (`fsdp_sglang.py:190`) never resumes the engine's memory, which is asleep as far as
  the rollout's flag tells; it sends weights to memory that was released (`ComputesOnDevice` fails with
  `Configs <- ServersDef` in `HybridResume.cfg`).  `megatron_sglang.py:155` resumes it but does not bring an offloaded
  actor to the device before it reads it (the same property, the same instance).
- `fsdp_sglang.py:129` resumes the cache of `_engine` on every rank of a tensor-parallel group, and `_engine` is None on all but
  the first.
- An engine of SGLang is built with its cache on the device, and an actor or critic that is restored before the first generation
  is fetched beside it.
- Adapters with a dummy base model that resume: the first synchronisation sends the base only,
  so that the first generation is without the restored adapter.  Adapters in
  asynchronous mode fail in `update_params`.

Worker groups:

- `MEGATRON_PP_AS_DP` is registered by no worker; `docs/workers/megatron_workers.rst:155` says `generate_sequences` uses it
  (the code: `DP_COMPUTE_PROTO`, `megatron_workers.py:474`).  Its comment says that only the first pipeline stage is collected;
  `collect_megatron_pp_as_dp` collects every rank whose tensor-parallel rank is 0.
- `AsyncSglangServer.init_engine` counts the workers of a node by `dp_size`, the number of servers (`async_sglang_server.py:56`), not by
  its GPUs: of two servers on two nodes of four GPUs the first takes six workers and the second two, four servers on two nodes of two
  leave servers without a worker (`Configs <- SglangElsewhere` in `WorkerGroups.cfg`: `EnginesDriveTheirRanks` and
  `TrainingEnds` fail).
- `start_worker_aliveness_check` is called nowhere: a dead worker is found by the next `ray.get`.
- With unequal `process_on_nodes`, `local_world_size` is the first entry for all groups (`ray/base.py:333`).

Recipes:

- DAPO calls `compute_advantage` without the configuration, which GAE, GRPO_PASSK,
  REINFORCE++ and GOPD read, and applies the KL penalty before the log-probs it is of exist.
- PRIME: an oversampled batch that is not a whole number of prompts keeps part of a
  group; `compute_dpo_accuracy` raises where a worker's part ends with a single row
  of a group; `q` and the scores of `update_rm` are not put back in order
  with dynamic micro-batches; the loop stops one step before the total; its own load does not restore
  the dataloader's position.
- SPIN's `update_actor_dpo` reads `meta_info["global_token_num"]`
  (`spin/fsdp_workers.py:242`), which the trainer does not set, so that the first step stops;
  it pairs rows by position after they were balanced.

## 6. Not modelled, and the plan

Inside the modelled components: the manager's single-request entry point
(`async_server.py:189`), custom callbacks with fan-out, tokenisation and padding in
`postprocess`; the batch-level SGLang rollout without tools, multi-modal data,
`use_inference_chat_template`, prompt tokens that the dataset cut (`schemas.py:153` takes them as they are when there are no tools; the
model's end with the generation prompt), the server's `chat_completion`; HDFS paths
(they raise NotImplementedError), the order of the ranks within one save (a part is
partial until its last shard is written); the arithmetic of estimators, losses and
whitening, G-OPD's lambda and PRIME's normalisation, `meta_info` and metrics; a reference or
reward model with a device of its own, the ranks of one SGLang engine;
dispatch modes no worker registers, detached and fused worker groups, calls that do not block, the death of a
worker and the liveness checker; tied embeddings and the pipeline's own schedule; which tensors of a layer are offloaded, and activation
checkpointing; PRIME's own save and load.

Components left out: the tools' rate limiter, whose faults are in the order in which Ray runs the
methods of an actor with two concurrency groups, which is not in this repository;
SPIN, which stops in its first step.  The greater part of the
repository by lines is kernels, losses, scoring of answers, input and output, checkpoints and weight conversion of
Megatron, vendored code: there is no order of events in them to check, so that the modules cover the protocols
and a smaller share of the lines.

What could follow, in this order:

1. A proof of `RowsReturned` from `DispatchedCollected`, with an invariant of the calls of a group.
2. `StepInv` for the loop of PRIME, whose filter sorts groups by their places and whose advantages are told by places.
3. `EngineVariants` in the proofs of `HybridEngine`, whose invariant holds there with another `Place`.
4. `Dispatch`: the remaining dispatch modes as operators, with their proofs.
