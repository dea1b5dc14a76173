--------------------------- MODULE RolloutRequest ---------------------------
(***************************************************************************)
(* The requests of the SGLang multi-turn rollout: the state machine of     *)
(* SGLangRollout._async_rollout_a_request                                  *)
(* (verl/workers/rollout/sglang_rollout/sglang_rollout.py) and the tokens  *)
(* and masks an AsyncRolloutRequest keeps for the trainer                  *)
(* (verl/workers/rollout/schemas.py).                                      *)
(*                                                                         *)
(* A token is the part of the chat template it belongs to:                 *)
(*   "prompt"  the raw prompt            "ask"    the generation prompt    *)
(*   "text"    what the model wrote      "reply"  a tool's or user's words *)
(*   "eos"     the end of turn the model wrote itself                      *)
(*   "end"     what the template puts after an answer otherwise            *)
(* Re-encoding the text of an answer gives the tokens the model wrote: the *)
(* code warns when it does not.                                            *)
(*                                                                         *)
(* `at' is where the coroutine of a request is:                            *)
(*   "loop"     at the head of the while loop                              *)
(*   "engine"   waiting for the inference engine                           *)
(*   "leaving"  behind the loop: rewards, release of the tools             *)
(*   "done"     finalize has run                                           *)
(*                                                                         *)
(* A definition commented "Fault" is the definition after it with a        *)
(* plausible mistake; no action uses it.                                   *)
(***************************************************************************)
EXTENDS Integers, FiniteSets, SequencesExt

CONSTANTS
    Requests,           \* the requests of a batch
    Tools,              \* the tools of a request: the keys of tools_kwargs
    HasInteraction,     \* interaction_kwargs is not empty
    MaxAssistantTurns,  \* multi_turn.max_assistant_turns
    MaxUserTurns,       \* multi_turn.max_user_turns
    MaxModelLen,        \* config.max_model_len
    PromptLength,       \* config.prompt_length
    ResponseLength,     \* config.response_length
    AskLen,             \* tokens of the generation prompt
    EndLen,             \* tokens of the template after an answer
    ReplyLen,           \* tokens of a tool's or a user's message
    PromptSizes,        \* tokens a raw prompt may have
    TextSizes,          \* tokens an answer that stops by itself may have
    MaxCalls            \* bound: tool calls of one answer

ASSUME LengthAssumption ==
    /\ PromptLength \in Nat \ {0} /\ ResponseLength \in Nat \ {0}
    /\ MaxModelLen \in Nat /\ MaxModelLen >= PromptLength + ResponseLength
ASSUME TemplateAssumption ==
    /\ AskLen \in Nat /\ EndLen \in Nat \ {0} /\ ReplyLen \in Nat
    /\ PromptSizes \subseteq Nat \ {0} /\ TextSizes \subseteq Nat
ASSUME TurnAssumption ==
    /\ MaxAssistantTurns \in Nat \ {0} /\ MaxUserTurns \in Nat
    /\ HasInteraction \in BOOLEAN /\ MaxCalls \in Nat

VARIABLES
    phase,      \* of _req_level_generate_sequences
    req,        \* the AsyncRolloutRequests and the variables of their coroutines
    instance    \* the tools' instances for a request

vars == <<phase, req, instance>>

Token == {"prompt", "ask", "text", "eos", "end", "reply"}
Tokens(kind, n) == [i \in 1..n |-> kind]

(* What is kept of a message: who wrote it, how many tokens, the number of *)
(* tool calls, the call whose response it is (0: none) and whether the     *)
(* model ended it.                                                         *)
Message ==
    [role: {"prompt", "assistant", "tool", "user"}, size: Nat, calls: Nat, call: Nat,
     ended: BOOLEAN]

Lesser(m, n) == IF m <= n THEN m ELSE n

-----------------------------------------------------------------------------
(* The methods of AsyncRolloutRequest, as functions of a request q.        *)

(* _update_input_ids.                                                      *)
Extend(q, new, trained) ==
    [q EXCEPT !.ids = @ \o new, !.mask = @ \o [i \in 1..Len(new) |-> trained]]

GenerationPrompt == Tokens("ask", AskLen)

(* Fault: every call appends it.                                           *)
AskAgain(q) == Extend(q, GenerationPrompt, 0)

(* get_generation_prompt_ids: the generation prompt is appended unless the *)
(* tokens end with it.                                                     *)
Ask(q) ==
    IF IsSuffix(GenerationPrompt, q.ids) THEN q ELSE Extend(q, GenerationPrompt, 0)

AnswerTokens(size, ended) ==
    Tokens("text", size) \o
        IF ended THEN <<"eos">> \o Tokens("end", EndLen - 1) ELSE Tokens("end", EndLen)

(* add_assistant_message.                                                  *)
AddAnswer(q, size, n, ended) ==
    Extend([q EXCEPT !.messages =
                Append(@, [role |-> "assistant", size |-> size, calls |-> n, call |-> 0,
                           ended |-> ended])],
           AnswerTokens(size, ended), 1)

(* add_tool_response_messages, add_user_message: the messages of role      *)
(* `role' that respond to these calls.                                     *)
Reply(role, call) ==
    [role |-> role, size |-> ReplyLen, calls |-> 0, call |-> call, ended |-> FALSE]
AddReplies(q, role, calls) ==
    Extend([q EXCEPT !.messages = @ \o [i \in 1..Len(calls) |-> Reply(role, calls[i])]],
           Tokens("reply", Len(calls) * ReplyLen), 0)

(* Fault: an unanswered generation prompt stays.                           *)
StripNothing(q) == q

(* finalize: an unanswered generation prompt is taken back.                *)
Strip(q) ==
    IF IsSuffix(GenerationPrompt, q.ids)
    THEN [q EXCEPT !.ids = SubSeq(@, 1, Len(@) - AskLen),
                   !.mask = SubSeq(@, 1, Len(@) - AskLen)]
    ELSE q

(* max_model_len of a request.                                             *)
MaxRequestLen == Lesser(MaxModelLen, PromptLength + ResponseLength)

Cut(s) == SubSeq(s, 1, Lesser(Len(s), MaxRequestLen))
Response(s, from) == SubSeq(s, from + 1, Lesser(Len(s), from + ResponseLength))

(* truncate_output_ids.                                                    *)
Truncate(q) ==
    [q EXCEPT !.ids = Cut(@), !.mask = Cut(@),
              !.response = Response(Cut(q.ids), q.promptLen),
              !.responseMask = Response(Cut(q.mask), q.promptLen)]

-----------------------------------------------------------------------------
(* With tools the prompt is encoded here, the generation prompt included;  *)
(* without them the tokens come from the dataset, which may have cut them: *)
(* the model's always end with the generation prompt.                      *)
NewRequest(size) ==
    [state |-> "pending", at |-> "loop", turns |-> 0, userTurns |-> 0, finish |-> "none",
     messages |-> <<[role |-> "prompt", size |-> size, calls |-> 0, call |-> 0,
                   ended |-> FALSE]>>,
     results |-> <<>>,
     ids |-> Tokens("prompt", size) \o GenerationPrompt,
     mask |-> Tokens(0, size + AskLen),
     promptLen |-> size + AskLen,
     response |-> <<>>, responseMask |-> <<>>]

Init ==
    /\ phase = "generating"
    /\ \E size \in [Requests -> PromptSizes] : req = [r \in Requests |-> NewRequest(size[r])]
    /\ instance = [r \in Requests |-> [t \in Tools |-> "none"]]

(* The coroutine of request r goes on with q.                              *)
Continue(r, q) ==
    /\ phase = "generating"
    /\ req' = [req EXCEPT ![r] = q]
    /\ UNCHANGED <<phase, instance>>

Leave(q, finish) == [q EXCEPT !.at = "leaving", !.finish = finish]

InLoop(r, state) ==
    req[r].at = "loop" /\ req[r].turns < MaxAssistantTurns /\ req[r].state = state

SetInstance(r, t, from, to) ==
    /\ phase = "generating"
    /\ instance[r][t] = from
    /\ instance' = [instance EXCEPT ![r][t] = to]
    /\ UNCHANGED <<phase, req>>

(* _handle_pending_state: the instances are created concurrently.          *)
CreateInstance(r, t) == InLoop(r, "pending") /\ SetInstance(r, t, "none", "live")

(* Fault: the gather of the creations is not awaited.                      *)
PendingAtOnce(r) ==
    /\ InLoop(r, "pending")
    /\ Continue(r, [req[r] EXCEPT !.state = "running"])

(* PENDING, when they are all there.                                       *)
Pending(r) ==
    /\ InLoop(r, "pending")
    /\ \A t \in Tools : instance[r][t] = "live"
    /\ Continue(r, [req[r] EXCEPT !.state = "running"])

(* Fault: the token for the end of the answer is forgotten.                *)
TooLongWithoutEnd(q) == Len(q.ids) >= MaxModelLen
(* Is there no room left for an answer of one token and its end?           *)
TooLong(q) == Len(q.ids) + 1 >= MaxModelLen

(* RUNNING, up to the call of the engine.                                  *)
Generate(r) ==
    /\ InLoop(r, "running")
    /\ LET q == Ask(req[r])
       IN  Continue(r, IF TooLong(q) THEN Leave(q, "length") ELSE [q EXCEPT !.at = "engine"])

(* _handle_engine_call asks for the prompt once more.                      *)
EnginePrompt(q) == Ask(q)
MaxNewTokens(q) ==
    Lesser(ResponseLength, MaxModelLen - Len(EnginePrompt(q).ids) - 1)

(* The answer of the engine: of `size' tokens and n parsed tool calls,     *)
(* `ended' by the model.                                                   *)
Answered(r, size, n, ended) ==
    AddAnswer([EnginePrompt(req[r]) EXCEPT !.turns = @ + 1, !.at = "loop"], size, n, ended)

Stops(r, size) == req[r].at = "engine" /\ size + 1 <= MaxNewTokens(req[r])

(* RUNNING, after the call: the answer was cut at max_new_tokens.          *)
AnswerCut(r) ==
    /\ req[r].at = "engine"
    /\ Continue(r, Leave(Answered(r, MaxNewTokens(req[r]), 0, FALSE), "length"))

(* The answer calls n tools. `results' is the list asyncio.gather fills:   *)
(* at each place the call whose result it holds, 0 before there is one.    *)
AnswerCalls(r, size, n) ==
    /\ Stops(r, size)
    /\ Continue(r, [Answered(r, size, n, TRUE) EXCEPT !.state = "tool_calling",
                                                      !.finish = "tool_calls",
                                                      !.results = Tokens(0, n)])

(* The answer looks like tool calls, none of which can be parsed.          *)
AnswerBroken(r, size) ==
    /\ Stops(r, size)
    /\ Continue(r, Leave([Answered(r, size, 0, TRUE) EXCEPT !.state = "completed"], "stop"))

(* The answer calls no tool: the user's turn, if there is one left.        *)
AnswerPlain(r, size) ==
    /\ Stops(r, size)
    /\ LET q == Answered(r, size, 0, TRUE)
       IN  Continue(r, IF HasInteraction /\ q.userTurns < MaxUserTurns
                           /\ q.turns < MaxAssistantTurns
                       THEN [q EXCEPT !.state = "interacting", !.finish = "stop"]
                       ELSE Leave(q, "stop"))

(* On with the answer to a reply, unless the reply filled the context.     *)
RunOrStop(q) ==
    IF Len(q.ids) >= MaxModelLen THEN Leave(q, "stop") ELSE [q EXCEPT !.state = "running"]

(* Fault: the results are kept in the order the calls return.              *)
ToolAnswersAsCompleted(r, i) ==
    /\ InLoop(r, "tool_calling")
    /\ i \in DOMAIN req[r].results /\ ~Contains(req[r].results, i)
    /\ Continue(r, [req[r] EXCEPT !.results = ReplaceFirstSubSeq(<<i>>, <<0>>, @)])

(* TOOL_CALLING: the i-th call of the last message returns; the calls run  *)
(* concurrently and return in any order.                                   *)
ToolAnswers(r, i) ==
    /\ InLoop(r, "tool_calling")
    /\ i \in DOMAIN req[r].results /\ req[r].results[i] = 0
    /\ Continue(r, [req[r] EXCEPT !.results[i] = i])

(* The gather returns when they all have: a response for each result.      *)
ToolsReturn(r) ==
    /\ InLoop(r, "tool_calling")
    /\ ~Contains(req[r].results, 0)
    /\ Continue(r, RunOrStop(AddReplies([req[r] EXCEPT !.results = <<>>],
                                        "tool", req[r].results)))

(* INTERACTING: the user ends the conversation or replies.                 *)
UserEnds(r) ==
    /\ InLoop(r, "interacting")
    /\ Continue(r, Leave([req[r] EXCEPT !.userTurns = @ + 1, !.state = "completed"], "stop"))

UserReplies(r) ==
    /\ InLoop(r, "interacting")
    /\ Continue(r, RunOrStop(AddReplies([req[r] EXCEPT !.userTurns = @ + 1], "user", <<0>>)))

(* The condition of the while loop fails.                                  *)
LastTurn(r) ==
    /\ req[r].at = "loop" /\ req[r].turns >= MaxAssistantTurns
    /\ Continue(r, [req[r] EXCEPT !.at = "leaving"])

-----------------------------------------------------------------------------
(* calc_reward_and_release_fn, for all tools concurrently.                 *)
Release(r, t) == req[r].at = "leaving" /\ SetInstance(r, t, "live", "released")

(* Fault: the finish reason of the last answer is kept.                    *)
FinishOfAnswer(q) == q.finish
FinishReason(q) == IF q.turns >= MaxAssistantTurns THEN "stop" ELSE q.finish

(* Fault: the request is finalized before its tools are released.          *)
FinalizeEarly(r) ==
    /\ req[r].at = "leaving"
    /\ FinishReason(req[r]) \in {"stop", "length"}
    /\ Continue(r, [Truncate(Strip(req[r])) EXCEPT !.at = "done", !.state = "completed"])

AllReleased(r) ==
    req[r].at = "leaving" /\ \A t \in Tools : instance[r][t] = "released"

(* finalize, which raises on any other finish reason: the program itself   *)
(* refuses the batch.                                                      *)
Finalize(r) ==
    /\ AllReleased(r)
    /\ IF FinishReason(req[r]) \in {"stop", "length"}
       THEN Continue(r, [Truncate(Strip(req[r])) EXCEPT !.at = "done", !.state = "completed"])
       ELSE /\ phase = "generating" /\ phase' = "refused"
            /\ UNCHANGED <<req, instance>>

(* An exception of the engine, a tool or the interaction at any await of a *)
(* request leaves asyncio.gather and ends the rollout of the whole batch.  *)
Raises(r) ==
    /\ phase = "generating" /\ req[r].at # "done"
    /\ phase' = "failed"
    /\ UNCHANGED <<req, instance>>

(* _req_level_generate_sequences returns the batch.                        *)
Return ==
    /\ phase = "generating" /\ \A r \in Requests : req[r].at = "done"
    /\ phase' = "returned"
    /\ UNCHANGED <<req, instance>>

Advance(r) ==
    \/ \E t \in Tools : CreateInstance(r, t) \/ Release(r, t)
    \/ Pending(r) \/ Generate(r) \/ AnswerCut(r)
    \/ \E size \in TextSizes :
        \/ AnswerBroken(r, size) \/ AnswerPlain(r, size)
        \/ \E n \in 1..MaxCalls : AnswerCalls(r, size, n)
    \/ \E i \in 1..MaxCalls : ToolAnswers(r, i)
    \/ ToolsReturn(r) \/ UserEnds(r) \/ UserReplies(r)
    \/ LastTurn(r) \/ Finalize(r)

Next == Return \/ \E r \in Requests : Advance(r) \/ Raises(r)

Spec == Init /\ [][Next]_vars

(* The event loop runs every coroutine whose await has ended; the engine,  *)
(* the tools and the interaction answer or raise.                          *)
FairSpec == Spec /\ WF_vars(Return) /\ \A r \in Requests : WF_vars(Advance(r))

-----------------------------------------------------------------------------
(* The lists of a request have the same length at all times, as its        *)
(* assertions say.                                                         *)
RequestType ==
    [state: {"pending", "running", "tool_calling", "interacting", "completed"},
     at: {"loop", "engine", "leaving", "done"},
     turns: 0..MaxAssistantTurns, userTurns: 0..MaxUserTurns,
     finish: {"none", "stop", "length", "tool_calls"},
     messages: Seq(Message), ids: Seq(Token), mask: Seq({0, 1}), promptLen: Nat,
     results: Seq(Nat), response: Seq(Token), responseMask: Seq({0, 1})]

TypeOK ==
    /\ phase \in {"generating", "returned", "failed", "refused"}
    /\ req \in [Requests -> RequestType]
    /\ instance \in [Requests -> [Tools -> {"none", "live", "released"}]]
    /\ \A r \in Requests :
        /\ Len(req[r].ids) = Len(req[r].mask)
        /\ Len(req[r].response) = Len(req[r].responseMask)

(* The chat template applied to all messages at once, which puts the       *)
(* generation prompt before every answer.                                  *)
Segment(m) ==
    CASE m.role = "prompt" -> Tokens("prompt", m.size)
      [] m.role = "assistant" -> GenerationPrompt \o AnswerTokens(m.size, m.ended)
      [] OTHER -> Tokens("reply", m.size)
FullEncoding(messages) == FlattenSeq([i \in DOMAIN messages |-> Segment(messages[i])])

(* The tokens collected message by message are those of the whole          *)
(* conversation, with one generation prompt before each answer and one at  *)
(* the end while an answer is asked for.                                   *)
TokensFollowMessages ==
    \A r \in Requests : req[r].at # "done" =>
        LET full == FullEncoding(req[r].messages)
        IN  /\ req[r].ids \in {full, full \o GenerationPrompt}
            /\ req[r].at = "engine" => req[r].ids = full \o GenerationPrompt

(* The engine is never asked for more than the context holds, the end of   *)
(* the answer included, nor for nothing.                                   *)
EngineFits ==
    \A r \in Requests : req[r].at = "engine" =>
        /\ MaxNewTokens(req[r]) \in 1..ResponseLength
        /\ Len(EnginePrompt(req[r]).ids) + MaxNewTokens(req[r]) + 1 <= MaxModelLen

(* What the trainer gets: the conversation after the prompt, cut to the    *)
(* response length, and a mask that marks the answers in it, with the end  *)
(* of turn the template puts behind them, and nothing else; the assertions *)
(* before the batch is built hold.                                         *)
ResponseAligned ==
    \A r \in Requests : req[r].at = "done" =>
        LET q == req[r]
        IN  /\ q.response = Response(Cut(FullEncoding(q.messages)), q.promptLen)
            /\ Len(q.response) = Len(q.responseMask)
            /\ \A i \in DOMAIN q.response :
                q.responseMask[i] = 1 <=> q.response[i] \in {"text", "eos", "end"}
            /\ Len(q.ids) = Len(q.mask) /\ Len(q.ids) <= MaxModelLen

(* An answer that called n tools is followed by nothing or by n responses, *)
(* the j-th of them the result of its j-th call, and no other tool message *)
(* exists: nothing but its place tells whose response a message is.        *)
CallsAnswered ==
    \A r \in Requests :
        LET M == req[r].messages
        IN  \A i \in DOMAIN M :
            /\ M[i].calls > 0 /\ i # Len(M) =>
                /\ i + M[i].calls <= Len(M)
                /\ \A j \in 1..M[i].calls : M[i + j].role = "tool" /\ M[i + j].call = j
            /\ M[i].role = "tool" => \E j \in 1..(i - 1) : j + M[j].calls >= i

(* A tool is called only on an instance that exists, and no request is     *)
(* completed with an instance left.                                        *)
InstancesReleased ==
    \A r \in Requests, t \in Tools :
        /\ req[r].state = "tool_calling" /\ req[r].at = "loop" => instance[r][t] = "live"
        /\ req[r].at = "done" => instance[r][t] = "released"

(* The rollout of a batch returns or is ended by an exception of its       *)
(* engine, tools or interaction; finalize does not refuse it.              *)
EveryRequestEnds == <>(phase \in {"returned", "failed"})

(* "only tokens generated by the assistant are included in the loss mask". *)
OnlyGeneratedTrained ==
    \A r \in Requests : \A i \in DOMAIN req[r].response :
        req[r].responseMask[i] = 1 => req[r].response[i] \in {"text", "eos"}
=============================================================================
