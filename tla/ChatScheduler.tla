--------------------------- MODULE ChatScheduler ---------------------------
(***************************************************************************)
(* ChatCompletionScheduler with its default ToolCompletionCallback         *)
(* (verl/workers/rollout/chat_scheduler.py), driven by the trainer through *)
(* AsyncLLMServerManager (async_server.py): wake_up, generate_sequences,   *)
(* sleep, once per training batch.                                         *)
(*                                                                         *)
(* Everything between two awaits of the scheduler's event loop is one      *)
(* step.  A conversation is driven by one asyncio task at a time; its      *)
(* status in `task' is                                                     *)
(*   "none"      _submit_chat_completions_semaphore has not run yet        *)
(*   "created"   create_task was called, the coroutine has not started     *)
(*   "posting"   waiting for the HTTP answer of an inference server        *)
(*   "calling"   in the callback, waiting for asyncio.gather of the tools  *)
(*   "finished"  the last task of the conversation has returned            *)
(*   "dead"      the task died of the assertion before the try block       *)
(*                                                                         *)
(* A definition commented "Fault" is not part of the specification: it is  *)
(* the definition after it with a plausible mistake, and PROJECT.json      *)
(* names the property that finds the mistake.                              *)
(***************************************************************************)
EXTENDS Integers, FiniteSets, SequencesExt

CONSTANTS
    Conversations,      \* the conversations of a batch: len(batch) * n of them
    Servers,            \* server addresses; integers, since the heap orders them
    MaxCacheSize,       \* max_cache_size of request_id_to_address
    MaxAssistantTurns,  \* multi_turn.max_assistant_turns, 0 for null
    PromptLength,       \* messages in a raw prompt
    ContextLimit,       \* messages that fit a server's context: no tool calls beyond
    MaxToolCalls,       \* tool calls one assistant message may contain
    NumBatches          \* bound: batches the trainer generates

ASSUME ServersAssumption == Servers \subseteq Int /\ Servers # {} /\ IsFiniteSet(Servers)
ASSUME ConversationsAssumption == IsFiniteSet(Conversations)
ASSUME CacheAssumption == MaxCacheSize \in Nat \ {0}
ASSUME LimitsAssumption ==
    /\ MaxAssistantTurns \in Nat
    /\ PromptLength \in Nat \ {0}
    /\ ContextLimit \in Nat
    /\ MaxToolCalls \in Nat
    /\ NumBatches \in Nat

VARIABLES
    phase,      \* where the trainer is in wake_up; generate_sequences; sleep
    batch,      \* number of batches submitted so far
    task,       \* the state of a conversation's asyncio task
    request,    \* id of a conversation's latest request
    address,    \* the server a conversation's latest request was sent to
    depth,      \* info["__depth__"]
    done,       \* info["__done__"].is_set()
    messages,   \* a conversation's messages, see Message
    calls,      \* tool calls in progress, those of abandoned callbacks included
    cache,      \* request_id_to_address, least recently used entry first
    weight      \* weighted_addresses

vars == <<phase, batch, task, request, address, depth, done, messages, calls,
          cache, weight>>

(* A request id is a fresh uuid4; naming the submission it was made for    *)
(* makes it unique.  Batch 0 stands for request_id=None.                   *)
RequestId == [batch: Nat, conv: Conversations, turn: Nat]
NoRequest(c) == [batch |-> 0, conv |-> c, turn |-> 0]
NewRequest(c) == [batch |-> batch, conv |-> c, turn |-> Len(messages[c])]

(* A message, by its role and its place among the tool calls: an answer    *)
(* has the number of calls the callback makes for it, a tool response the  *)
(* place of its call, anything else 0.                                     *)
Message == [role: {"user", "assistant", "tool"}, call: Nat]
Asked == [role |-> "user", call |-> 0]
AnswerWith(n) == [role |-> "assistant", call |-> n]
Response(j) == [role |-> "tool", call |-> j]

(* What a tool call awaits: create(), execute() or, whatever execute() did,*)
(* release(); or its outcome, while gather waits for other calls.          *)
CallState == {"pending", "live", "releasing", "ok", "error"}
ToolCall == [request: RequestId, index: Nat, state: CallState]
CallsOf(r) == {k \in calls : k.request = r}

(* cachetools.LRUCache: assignment evicts the least recently used entry    *)
(* when the cache is full.  Nothing reads an entry without removing it, so *)
(* the order of use is the order of insertion.                             *)
CacheEntry == [id: RequestId, address: Servers]
Cached(r) == {i \in DOMAIN cache : cache[i].id = r}
CacheInsert(cc, r, a) ==
    Append(IF Len(cc) >= MaxCacheSize THEN Tail(cc) ELSE cc,
           [id |-> r, address |-> a])

(* The head of the heap weighted_addresses of [count, address] pairs.      *)
HeapLess(s, t) == weight[s] < weight[t] \/ (weight[s] = weight[t] /\ s <= t)
IsHeapTop(s) == \A t \in Servers : HeapLess(s, t)

-----------------------------------------------------------------------------
Init ==
    /\ phase = "asleep"
    /\ batch = 0
    /\ task = [c \in Conversations |-> "none"]
    /\ request = [c \in Conversations |-> NoRequest(c)]
    /\ address \in [Conversations -> {CHOOSE s \in Servers : TRUE}]
    /\ depth = [c \in Conversations |-> 0]
    /\ done = [c \in Conversations |-> FALSE]
    /\ messages = [c \in Conversations |-> <<>>]
    /\ calls = {}
    /\ cache = <<>>
    /\ weight = [s \in Servers |-> 0]

(* RayPPOTrainer.fit: async_rollout_manager.wake_up().                     *)
WakeUp ==
    /\ phase = "asleep"
    /\ batch < NumBatches
    /\ phase' = "awake"
    /\ UNCHANGED <<batch, task, request, address, depth, done, messages, calls, cache, weight>>

(* Fault: the next batch is generated before the servers were put to sleep.*)
GenerateWithoutSleep ==
    /\ phase \in {"awake", "returned"}
    /\ phase' = "generating"
    /\ batch' = batch + 1
    /\ task' = [c \in Conversations |-> "none"]
    /\ request' = [c \in Conversations |-> NoRequest(c)]
    /\ depth' = [c \in Conversations |-> 0]
    /\ done' = [c \in Conversations |-> FALSE]
    /\ messages' = [c \in Conversations |-> [i \in 1..PromptLength |-> Asked]]
    /\ UNCHANGED <<address, calls, cache, weight>>

(* generate_sequences: one coroutine per conversation of the new batch.    *)
GenerateSequences ==
    /\ phase = "awake"
    /\ phase' = "generating"
    /\ batch' = batch + 1
    /\ task' = [c \in Conversations |-> "none"]
    /\ request' = [c \in Conversations |-> NoRequest(c)]
    /\ depth' = [c \in Conversations |-> 0]
    /\ done' = [c \in Conversations |-> FALSE]
    /\ messages' = [c \in Conversations |-> [i \in 1..PromptLength |-> Asked]]
    /\ UNCHANGED <<address, calls, cache, weight>>

(* Fault: the semaphore wrapper counts the request it submits once more.   *)
SubmitCountedTwice(c) ==
    /\ phase = "generating"
    /\ task[c] = "none"
    /\ depth' = [depth EXCEPT ![c] = @ + 2]
    /\ task' = [task EXCEPT ![c] = "created"]
    /\ UNCHANGED <<phase, batch, request, address, done, messages, calls, cache, weight>>

(* _submit_chat_completions_semaphore up to done.wait().                   *)
Submit(c) ==
    /\ phase = "generating"
    /\ task[c] = "none"
    /\ depth' = [depth EXCEPT ![c] = @ + 1]
    /\ task' = [task EXCEPT ![c] = "created"]
    /\ UNCHANGED <<phase, batch, request, address, done, messages, calls, cache, weight>>

(* _submit_chat_completions_and_callback up to the HTTP request, without a *)
(* request id: the least weighted server gets the conversation.            *)
StartNew(c, s) ==
    /\ task[c] = "created"
    /\ request[c] = NoRequest(c)
    /\ IsHeapTop(s)
    /\ weight' = [weight EXCEPT ![s] = @ + 1]
    /\ request' = [request EXCEPT ![c] = NewRequest(c)]
    /\ address' = [address EXCEPT ![c] = s]
    /\ cache' = CacheInsert(cache, NewRequest(c), s)
    /\ task' = [task EXCEPT ![c] = "posting"]
    /\ UNCHANGED <<phase, batch, depth, done, messages, calls>>

(* Fault: a resumed conversation goes to the least weighted server too.    *)
StartRebalanced(c) ==
    /\ task[c] = "created"
    /\ request[c] # NoRequest(c)
    /\ \E i \in Cached(request[c]), s \in Servers :
        /\ IsHeapTop(s)
        /\ address' = [address EXCEPT ![c] = s]
        /\ cache' = CacheInsert(RemoveAt(cache, i), NewRequest(c), s)
    /\ request' = [request EXCEPT ![c] = NewRequest(c)]
    /\ task' = [task EXCEPT ![c] = "posting"]
    /\ UNCHANGED <<phase, batch, depth, done, messages, calls, weight>>

(* The same with the id of the previous completion: the request goes to    *)
(* the server the cache remembers, under a new id.                         *)
StartResumed(c) ==
    /\ task[c] = "created"
    /\ request[c] # NoRequest(c)
    /\ \E i \in Cached(request[c]) :
        /\ address' = [address EXCEPT ![c] = cache[i].address]
        /\ cache' = CacheInsert(RemoveAt(cache, i), NewRequest(c), cache[i].address)
    /\ request' = [request EXCEPT ![c] = NewRequest(c)]
    /\ task' = [task EXCEPT ![c] = "posting"]
    /\ UNCHANGED <<phase, batch, depth, done, messages, calls, weight>>

(* The same when the id is no longer cached: the assertion, outside the    *)
(* try block, kills the task before it gives back its depth.               *)
StartLost(c) ==
    /\ task[c] = "created"
    /\ request[c] # NoRequest(c)
    /\ Cached(request[c]) = {}
    /\ task' = [task EXCEPT ![c] = "dead"]
    /\ UNCHANGED <<phase, batch, request, address, depth, done, messages, calls, cache, weight>>

(* The end of _submit_chat_completions_and_callback: the conversation is   *)
(* done when it has no ongoing request.                                    *)
Finish(c, d) ==
    /\ task' = [task EXCEPT ![c] = "finished"]
    /\ done' = [done EXCEPT ![c] = @ \/ d = 0]

(* Fault: an exception of the request skips the decrement.                 *)
PostFailsCounted(c) ==
    /\ task[c] = "posting"
    /\ Finish(c, depth[c])
    /\ UNCHANGED <<phase, batch, request, address, depth, messages, calls, cache, weight>>

(* Fault: an exception of the request skips done.set().                    *)
PostFailsSilently(c) ==
    /\ task[c] = "posting"
    /\ depth' = [depth EXCEPT ![c] = @ - 1]
    /\ task' = [task EXCEPT ![c] = "finished"]
    /\ UNCHANGED <<phase, batch, request, address, done, messages, calls, cache, weight>>

(* The HTTP request raises: the exception is logged, the callback is not   *)
(* called.                                                                 *)
PostFails(c) ==
    /\ task[c] = "posting"
    /\ depth' = [depth EXCEPT ![c] = @ - 1]
    /\ Finish(c, depth[c] - 1)
    /\ UNCHANGED <<phase, batch, request, address, messages, calls, cache, weight>>

(* ToolCompletionCallback: the turn limit counts every message.            *)
ReachedMaxTurns(c) == MaxAssistantTurns # 0 /\ Len(messages[c]) + 1 >= MaxAssistantTurns

(* The answer arrives and the callback ends the conversation: the turn     *)
(* limit is reached or the answer calls no tool.                           *)
AnswerEnds(c) ==
    /\ task[c] = "posting"
    /\ messages' = [messages EXCEPT ![c] = Append(@, AnswerWith(0))]
    /\ depth' = [depth EXCEPT ![c] = @ - 1]
    /\ Finish(c, depth[c] - 1)
    /\ UNCHANGED <<phase, batch, request, address, calls, cache, weight>>

(* The answer arrives with n tool calls and the callback starts them.      *)
AnswerCallsTools(c, n) ==
    /\ task[c] = "posting"
    /\ ~ReachedMaxTurns(c)
    /\ Len(messages[c]) < ContextLimit
    /\ messages' = [messages EXCEPT ![c] = Append(@, AnswerWith(n))]
    /\ depth' = [depth EXCEPT ![c] = @ - 1]
    /\ calls' = calls \cup [request: {request[c]}, index: 1..n, state: {"pending"}]
    /\ task' = [task EXCEPT ![c] = "calling"]
    /\ UNCHANGED <<phase, batch, request, address, done, cache, weight>>

-----------------------------------------------------------------------------
(* A callback still waits for the call; otherwise nobody reads its result. *)
Awaited(k) == \E c \in Conversations : task[c] = "calling" /\ request[c] = k.request
IsSettled(k) == k.state \in {"ok", "error"}

(* _call_tool: the arguments parse, the tool exists, create() returns.     *)
CreateTool(k) ==
    /\ k.state = "pending"
    /\ calls' = (calls \ {k}) \cup {[k EXCEPT !.state = "live"]}
    /\ UNCHANGED <<phase, batch, task, request, address, depth, done, messages, cache, weight>>

(* execute() returns or raises, and the finally clause calls release().    *)
ExecuteEnds(k) ==
    /\ k.state = "live"
    /\ calls' = (calls \ {k}) \cup {[k EXCEPT !.state = "releasing"]}
    /\ UNCHANGED <<phase, batch, task, request, address, depth, done, messages, cache, weight>>

(* release() returns and with it the call, with the response or, if        *)
(* execute() raised, the exception as its result, which is kept for the    *)
(* callback that waits for it.                                             *)
ReleaseTool(k, outcome) ==
    /\ k.state = "releasing"
    /\ calls' = (calls \ {k}) \cup
                    IF Awaited(k) THEN {[k EXCEPT !.state = outcome]} ELSE {}
    /\ UNCHANGED <<phase, batch, task, request, address, depth, done, messages, cache, weight>>

(* Fault: the callback catches the exception and goes on without responses.*)
CallRaisesCaught(k) ==
    /\ k.state \in {"pending", "releasing"}
    /\ calls' = {j \in calls \ {k} : j.request = k.request => ~IsSettled(j)}
    /\ IF Awaited(k)
         THEN /\ task' = [task EXCEPT ![k.request.conv] = "created"]
              /\ depth' = [depth EXCEPT ![k.request.conv] = @ + 1]
         ELSE UNCHANGED <<task, depth>>
    /\ UNCHANGED <<phase, batch, request, address, done, messages, cache, weight>>

(* _call_tool raises: before the try block, because the arguments do not   *)
(* parse, the tool is unknown or create() raises, or in the finally clause,*)
(* because release() raises, whatever execute() did.  asyncio.gather hands *)
(* the exception to the callback at once, which ends the conversation, and *)
(* leaves the sibling calls running.                                       *)
CallRaises(k) ==
    /\ k.state \in {"pending", "releasing"}
    /\ calls' = {j \in calls \ {k} : j.request = k.request => ~IsSettled(j)}
    /\ IF Awaited(k) THEN Finish(k.request.conv, depth[k.request.conv])
                     ELSE UNCHANGED <<task, done>>
    /\ UNCHANGED <<phase, batch, request, address, depth, messages, cache, weight>>

Settled(c) == \A k \in CallsOf(request[c]) : IsSettled(k)
Errors(c) == {k \in CallsOf(request[c]) : k.state = "error"}

(* gather returns and some call returned an exception: the conversation is *)
(* over.                                                                   *)
ToolsFailed(c) ==
    /\ task[c] = "calling"
    /\ Settled(c) /\ Errors(c) # {}
    /\ calls' = calls \ CallsOf(request[c])
    /\ Finish(c, depth[c])
    /\ UNCHANGED <<phase, batch, request, address, depth, messages, cache, weight>>

(* Fault: the responses join in the order in which the calls ended.        *)
ResubmitAsCompleted(c) ==
    /\ task[c] = "calling"
    /\ Settled(c) /\ Errors(c) = {}
    /\ \E order \in Permutations({k.index : k \in CallsOf(request[c])}) :
        messages' = [messages EXCEPT ![c] =
                        @ \o [i \in 1..Cardinality(CallsOf(request[c])) |-> Response(order[i])]]
    /\ calls' = calls \ CallsOf(request[c])
    /\ depth' = [depth EXCEPT ![c] = @ + 1]
    /\ task' = [task EXCEPT ![c] = "created"]
    /\ UNCHANGED <<phase, batch, request, address, done, cache, weight>>

(* gather returns the responses in the order of the calls: they join the   *)
(* conversation, which is submitted again with the id of the completion    *)
(* that asked for them.                                                    *)
Resubmit(c) ==
    /\ task[c] = "calling"
    /\ Settled(c) /\ Errors(c) = {}
    /\ messages' = [messages EXCEPT ![c] =
                        @ \o [i \in 1..Cardinality(CallsOf(request[c])) |-> Response(i)]]
    /\ calls' = calls \ CallsOf(request[c])
    /\ depth' = [depth EXCEPT ![c] = @ + 1]
    /\ task' = [task EXCEPT ![c] = "created"]
    /\ UNCHANGED <<phase, batch, request, address, done, cache, weight>>

-----------------------------------------------------------------------------
Gathered == phase = "generating" /\ \A c \in Conversations : done[c]
HasResponse(c) == Len(messages[c]) > PromptLength

(* Every done.wait() returned; postprocess builds the output batch.        *)
Postprocess ==
    /\ Gathered
    /\ \A c \in Conversations : HasResponse(c)
    /\ phase' = "returned"
    /\ UNCHANGED <<batch, task, request, address, depth, done, messages, calls, cache, weight>>

(* _mask_out_tools_calling_tokens asserts that no response is empty: the   *)
(* assertion fails the whole batch and with it the trainer.                *)
PostprocessFails ==
    /\ Gathered
    /\ \E c \in Conversations : ~HasResponse(c)
    /\ phase' = "failed"
    /\ UNCHANGED <<batch, task, request, address, depth, done, messages, calls, cache, weight>>

(* RayPPOTrainer.fit: async_rollout_manager.sleep().                       *)
Sleep ==
    /\ phase = "returned"
    /\ phase' = "asleep"
    /\ UNCHANGED <<batch, task, request, address, depth, done, messages, calls, cache, weight>>

Request(c) ==
    \/ Submit(c)
    \/ \E s \in Servers : StartNew(c, s)
    \/ StartResumed(c)
    \/ StartLost(c)
    \/ ToolsFailed(c)
    \/ Resubmit(c)

Answer(c) ==
    \/ PostFails(c)
    \/ AnswerEnds(c)
    \/ \E n \in 1..MaxToolCalls : AnswerCallsTools(c, n)

Tool(k) ==
    \/ CreateTool(k)
    \/ CallRaises(k)
    \/ ExecuteEnds(k)
    \/ \E outcome \in {"ok", "error"} : ReleaseTool(k, outcome)

Driver == WakeUp \/ GenerateSequences \/ Postprocess \/ PostprocessFails \/ Sleep

Next ==
    \/ Driver
    \/ \E c \in Conversations : Request(c) \/ Answer(c)
    \/ \E k \in calls : Tool(k)

(* The event loop runs every ready coroutine, the servers answer (with a   *)
(* completion or an error) and the tools return; the client sets no        *)
(* timeout, so nothing else ends a wait.                                   *)
Fairness ==
    /\ WF_vars(Driver)
    /\ \A c \in Conversations : WF_vars(Request(c)) /\ WF_vars(Answer(c))
    /\ \A c \in Conversations : WF_vars(\E k \in calls : k.request.conv = c /\ Tool(k))

Spec == Init /\ [][Next]_vars
FairSpec == Spec /\ Fairness

-----------------------------------------------------------------------------
TypeOK ==
    /\ phase \in {"asleep", "awake", "generating", "returned", "failed"}
    /\ batch \in Nat
    /\ task \in [Conversations ->
                    {"none", "created", "posting", "calling", "finished", "dead"}]
    /\ request \in [Conversations -> RequestId]
    /\ address \in [Conversations -> Servers]
    /\ depth \in [Conversations -> Int]
    /\ done \in [Conversations -> BOOLEAN]
    /\ messages \in [Conversations -> Seq(Message)]
    /\ calls \in SUBSET ToolCall
    /\ cache \in Seq(CacheEntry)
    /\ weight \in [Servers -> Nat]

Ongoing(c) == task[c] \in {"created", "posting"}

(* info["__depth__"] says how many completion requests of a conversation   *)
(* are ongoing, whatever became of the earlier ones.                       *)
DepthCountsOngoing ==
    \A c \in Conversations : depth[c] = IF Ongoing(c) THEN 1 ELSE 0

(* The waiter of a conversation is woken only when its last task ends,     *)
(* never while a request or a callback of it is under way.  It is not woken*)
(* at all when that task died of the assertion: this happens only to a     *)
(* conversation whose request id was evicted from the cache while its tools*)
(* ran, and then the batch never returns, rather than being trained on     *)
(* with a conversation that was cut short.                                 *)
Over(c) == task[c] \in {"finished", "dead"}
WokenUnlessEvicted ==
    \A c \in Conversations :
        /\ done[c] => Over(c)
        /\ Over(c) /\ ~done[c] =>
              /\ Cached(request[c]) = {}
              /\ messages[c] # <<>> /\ Last(messages[c]).role = "tool"
              /\ phase = "generating"

(* A conversation that may still come back with its request id finds the   *)
(* id in the cache, with the server that served it.                        *)
MayResume(c) == request[c] # NoRequest(c) /\ task[c] \in {"created", "posting", "calling"}
LiveRequestCached ==
    \A c \in Conversations :
        MayResume(c) => \E i \in Cached(request[c]) : cache[i].address = address[c]

(* No server is put to sleep, woken or handed a new batch while a request  *)
(* of an earlier one is in flight.                                         *)
QuietOutsideGeneration ==
    phase # "generating" => \A c \in Conversations : task[c] \in {"none", "finished"}

(* A conversation goes on after an answer only with the responses to its   *)
(* tool calls, one for each in the order of the calls, and the next answer,*)
(* whatever failed in between; a chat template joins no others.            *)
IsDialog(m) ==
    \A i \in DOMAIN m :
        /\ m[i].role = "assistant" /\ i < Len(m) =>
              /\ m[i].call > 0
              /\ \A j \in 1..m[i].call : i + j \in DOMAIN m /\ m[i + j] = Response(j)
              /\ \A k \in DOMAIN m : k = i + m[i].call + 1 => m[k].role = "assistant"
        /\ m[i].role = "tool" =>
              i - m[i].call \in DOMAIN m /\ m[i - m[i].call].role = "assistant"
DialogWellFormed == \A c \in Conversations : IsDialog(messages[c])

(* The conversations given to any two servers differ by at most one.       *)
ConversationsBalanced ==
    \A s, t \in Servers : weight[s] - weight[t] <= 1

(* Within a batch a conversation stays with the server of its first        *)
(* request, the one that holds its prefix.                                 *)
StickyRouting ==
    [][\A c \in Conversations :
        (request[c] # NoRequest(c) /\ request'[c] # request[c] /\ batch' = batch)
            => address'[c] = address[c]]_vars

(* The assertion of _mask_out_tools_calling_tokens: every conversation of  *)
(* a gathered batch has a response.                                        *)
ResponsesNotEmpty == Gathered => \A c \in Conversations : HasResponse(c)

(* While a request of a conversation is under way, none of the tool calls  *)
(* made for it in this batch is still in progress: a follow-up waits for   *)
(* every call and its release, and after an exception, which leaves the    *)
(* sibling calls running, there is no follow-up.                           *)
ToolsOverBeforeFollowUp ==
    \A c \in Conversations, k \in calls :
        Ongoing(c) => ~(k.request.conv = c /\ k.request.batch = batch)

(* generate_sequences always returns or raises: no conversation waits      *)
(* forever.                                                                *)
EveryBatchEnds == phase = "generating" ~> phase \in {"returned", "failed"}

(* What the trainer relies on.                                             *)
Rounds == INSTANCE GenerationRounds WITH
    open <- {c \in Conversations : ~done[c]},
    inflight <- {c \in Conversations : task[c] = "posting"}
RoundsSpec == Rounds!Spec
=============================================================================
