------------------------ MODULE RolloutRequestProofs ------------------------
(***************************************************************************)
(* Theorems about RolloutRequest for any number of requests, tools and     *)
(* turns and any lengths: the lists of a request stay aligned and its      *)
(* turns bounded, the engine is never asked for more than its context      *)
(* holds, every instance of a tool is released; the tokens are those of    *)
(* the conversation, the trainer's mask marks the answers in them, and     *)
(* every call of a tool is answered.                                       *)
(***************************************************************************)
EXTENDS RolloutRequest, SequenceTheorems, FiniteSetTheorems, WellFoundedInduction, TLAPS

Aligned(q) == Len(q.ids) = Len(q.mask) /\ Len(q.response) = Len(q.responseMask)
Good(q) == q \in RequestType /\ Aligned(q)

(* The methods that add tokens leave the coroutine's own variables alone.  *)
SameControl(p, q) ==
    /\ p.state = q.state /\ p.at = q.at /\ p.finish = q.finish
    /\ p.turns = q.turns /\ p.userTurns = q.userTurns

-----------------------------------------------------------------------------
(* Tokens and lists of tokens.                                             *)
LEMMA TokensType ==
    ASSUME NEW S, NEW kind \in S, NEW n \in Nat
    PROVE  Tokens(kind, n) \in Seq(S) /\ Len(Tokens(kind, n)) = n
  BY DEF Tokens

LEMMA GenerationPromptType ==
    GenerationPrompt \in Seq(Token) /\ Len(GenerationPrompt) = AskLen
<1>1. "ask" \in Token /\ AskLen \in Nat
  BY TemplateAssumption DEF Token
<1> QED
  BY <1>1, TokensType DEF GenerationPrompt

LEMMA AnswerTokensType ==
    ASSUME NEW size \in Nat, NEW ended \in BOOLEAN
    PROVE  AnswerTokens(size, ended) \in Seq(Token)
<1>1. /\ EndLen \in Nat /\ EndLen - 1 \in Nat
      /\ "text" \in Token /\ "end" \in Token /\ "eos" \in Token
  BY TemplateAssumption DEF Token
<1>2. /\ Tokens("text", size) \in Seq(Token)
      /\ Tokens("end", EndLen) \in Seq(Token)
      /\ Tokens("end", EndLen - 1) \in Seq(Token)
  BY <1>1, TokensType
<1>3. <<"eos">> \in Seq(Token)
  BY <1>1
<1>4. <<"eos">> \o Tokens("end", EndLen - 1) \in Seq(Token)
  BY <1>2, <1>3, ConcatProperties
<1>5. (IF ended THEN <<"eos">> \o Tokens("end", EndLen - 1) ELSE Tokens("end", EndLen)) \in Seq(Token)
  BY <1>2, <1>4
<1> QED
  BY <1>2, <1>5, ConcatProperties DEF AnswerTokens

(* A list that was just extended by s ends with s.                         *)
LEMMA SuffixOfConcat ==
    ASSUME NEW S, NEW s \in Seq(S), NEW t \in Seq(S)
    PROVE  IsSuffix(s, t \o s)
<1> DEFINE u == t \o s
<1>1. u \in Seq(S) /\ Len(u) = Len(t) + Len(s) /\ Len(s) \in Nat /\ Len(t) \in Nat
  OBVIOUS
<1>2. \A i \in 1..Len(s) : u[Len(u) - i + 1] = s[Len(s) - i + 1]
  <2> TAKE i \in 1..Len(s)
  <2>1. Len(u) - i + 1 \in (Len(t) + 1)..(Len(t) + Len(s))
    BY <1>1
  <2> QED
    BY <1>1, <2>1
<1>3. /\ Len(Reverse(s)) = Len(s) /\ Len(Reverse(u)) = Len(u)
      /\ Reverse(s) \in Seq(S) /\ Reverse(u) \in Seq(S)
      /\ \A i \in 1..Len(s) : Reverse(s)[i] = s[Len(s) - i + 1]
      /\ \A i \in 1..Len(u) : Reverse(u)[i] = u[Len(u) - i + 1]
  <2> HIDE DEF u
  <2> QED
    BY <1>1 DEF Reverse
<1>4. \A i \in 1..Len(s) : Reverse(s)[i] = Reverse(u)[i]
  BY <1>1, <1>2, <1>3
<1> HIDE DEF u
<1>5. Len(s) <= Len(u)
  BY <1>1
<1>6. SubSeq(Reverse(s), 1, Len(s)) = SubSeq(Reverse(u), 1, Len(s))
  BY <1>1, <1>3, <1>4, <1>5
<1> QED
  BY <1>3, <1>5, <1>6 DEF IsSuffix, IsPrefix, u

-----------------------------------------------------------------------------
(* The methods of AsyncRolloutRequest keep a request well formed.          *)
LEMMA ExtendKeeps ==
    ASSUME NEW q, Good(q), NEW new \in Seq(Token), NEW trained \in {0, 1}
    PROVE  /\ Good(Extend(q, new, trained))
           /\ SameControl(Extend(q, new, trained), q)
           /\ Extend(q, new, trained).ids = q.ids \o new
           /\ Extend(q, new, trained).messages = q.messages
<1> DEFINE m == [i \in 1..Len(new) |-> trained]
<1>1. m \in Seq({0, 1}) /\ Len(m) = Len(new)
  OBVIOUS
<1> HIDE DEF m
<1>2. /\ q \in RequestType /\ q.ids \in Seq(Token) /\ q.mask \in Seq({0, 1})
      /\ Len(q.ids) = Len(q.mask)
  BY DEF Good, Aligned, RequestType
<1>3. /\ q.ids \o new \in Seq(Token) /\ Len(q.ids \o new) = Len(q.ids) + Len(new)
      /\ q.mask \o m \in Seq({0, 1}) /\ Len(q.mask \o m) = Len(q.mask) + Len(m)
  BY <1>1, <1>2, ConcatProperties
<1> DEFINE ids == q.ids \o new
           mask == q.mask \o m
           e == [q EXCEPT !.ids = ids, !.mask = mask]
<1>4. Extend(q, new, trained) = e
  BY <1>2 DEF Extend, m, RequestType
<1>5. ids \in Seq(Token) /\ mask \in Seq({0, 1}) /\ Len(ids) = Len(mask)
  BY <1>1, <1>2, <1>3
<1> HIDE DEF ids, mask
<1>6. e \in RequestType
  BY <1>2, <1>5 DEF RequestType
<1>7. /\ e.ids = ids /\ e.mask = mask
      /\ e.response = q.response /\ e.responseMask = q.responseMask
      /\ e.messages = q.messages
  BY <1>2 DEF RequestType
<1>8. SameControl(e, q)
  BY <1>2 DEF SameControl, RequestType
<1>9. Len(q.response) = Len(q.responseMask)
  BY DEF Good, Aligned
<1> HIDE DEF e
<1>10. Good(e)
  BY <1>5, <1>6, <1>7, <1>9 DEF Good, Aligned
<1> QED
  BY <1>4, <1>7, <1>8, <1>10 DEF ids

LEMMA AskKeeps ==
    ASSUME NEW q, Good(q)
    PROVE  /\ Good(Ask(q)) /\ SameControl(Ask(q), q)
           /\ Ask(q).messages = q.messages
           /\ IsSuffix(GenerationPrompt, Ask(q).ids)
<1>1. CASE IsSuffix(GenerationPrompt, q.ids)
  BY <1>1 DEF Ask, SameControl
<1>2. CASE ~IsSuffix(GenerationPrompt, q.ids)
  <2>1. Ask(q) = Extend(q, GenerationPrompt, 0)
    BY <1>2 DEF Ask
  <2>2. q.ids \in Seq(Token)
    BY DEF Good, RequestType
  <2>3. IsSuffix(GenerationPrompt, q.ids \o GenerationPrompt)
    BY <2>2, GenerationPromptType, SuffixOfConcat
  <2> QED
    BY <2>1, <2>3, ExtendKeeps, GenerationPromptType
<1> QED
  BY <1>1, <1>2

(* Asking twice is asking once.                                            *)
LEMMA AskIsIdempotent ==
    ASSUME NEW q, Good(q)
    PROVE  Ask(Ask(q)) = Ask(q)
  BY AskKeeps DEF Ask

LEMMA AddAnswerKeeps ==
    ASSUME NEW q, Good(q), NEW size \in Nat, NEW n \in Nat, NEW ended \in BOOLEAN
    PROVE  /\ Good(AddAnswer(q, size, n, ended))
           /\ SameControl(AddAnswer(q, size, n, ended), q)
           /\ AddAnswer(q, size, n, ended).messages # <<>>
<1> DEFINE msg == [role |-> "assistant", size |-> size, calls |-> n, call |-> 0, ended |-> ended]
<1> DEFINE p == [q EXCEPT !.messages = Append(q.messages, msg)]
<1>1. msg \in Message
  BY DEF Message
<1>2. q \in RequestType /\ Aligned(q) /\ q.messages \in Seq(Message)
  BY DEF Good, RequestType
<1>3. Append(q.messages, msg) \in Seq(Message) /\ Append(q.messages, msg) # <<>>
  BY <1>1, <1>2, AppendProperties
<1>4. AddAnswer(q, size, n, ended) = Extend(p, AnswerTokens(size, ended), 1)
  BY <1>2 DEF AddAnswer, RequestType
<1>5. Good(p) /\ SameControl(p, q) /\ p.messages # <<>>
  <2> HIDE DEF msg
  <2> QED
    BY <1>2, <1>3 DEF Good, Aligned, SameControl, RequestType
<1> HIDE DEF p
<1>6. AnswerTokens(size, ended) \in Seq(Token)
  BY AnswerTokensType
<1>7. /\ Good(Extend(p, AnswerTokens(size, ended), 1))
      /\ SameControl(Extend(p, AnswerTokens(size, ended), 1), p)
      /\ Extend(p, AnswerTokens(size, ended), 1).messages = p.messages
  BY <1>5, <1>6, ExtendKeeps
<1> QED
  BY <1>4, <1>5, <1>7 DEF SameControl

(* The replies to a list of calls.                                         *)
Replies(role, c) == [i \in 1..Len(c) |-> Reply(role, c[i])]

LEMMA RepliesType ==
    ASSUME NEW role \in {"tool", "user"}, NEW c \in Seq(Nat)
    PROVE  /\ Len(c) \in Nat
           /\ Replies(role, c) \in Seq(Message) /\ Len(Replies(role, c)) = Len(c)
           /\ \A i \in 1..Len(c) :
                Replies(role, c)[i] = Reply(role, c[i]) /\ Reply(role, c[i]) \in Message
<1>1. Len(c) \in Nat /\ \A i \in 1..Len(c) : c[i] \in Nat
  BY ElementOfSeq, LenProperties
<1>2. \A i \in 1..Len(c) : Reply(role, c[i]) \in Message
  BY <1>1, TemplateAssumption DEF Message, Reply
<1>3. PICK n \in Nat : n = Len(c)
  BY <1>1
<1>4. Replies(role, c) = [i \in 1..n |-> Reply(role, c[i])]
  BY <1>3 DEF Replies
<1>5. /\ Replies(role, c) \in Seq(Message) /\ Len(Replies(role, c)) = n
      /\ \A i \in 1..n : Replies(role, c)[i] = Reply(role, c[i])
  BY <1>2, <1>3, <1>4
<1> QED
  BY <1>1, <1>2, <1>3, <1>5

LEMMA AddRepliesKeeps ==
    ASSUME NEW q, Good(q), NEW c \in Seq(Nat), NEW role \in {"tool", "user"}
    PROVE  /\ Good(AddReplies(q, role, c))
           /\ SameControl(AddReplies(q, role, c), q)
           /\ q.messages # <<>> => AddReplies(q, role, c).messages # <<>>
<1> DEFINE new == Replies(role, c)
           k == Len(c) * ReplyLen
<1> DEFINE p == [q EXCEPT !.messages = q.messages \o new]
<1>1. new \in Seq(Message) /\ k \in Nat /\ "reply" \in Token
  BY RepliesType, TemplateAssumption DEF Token
<1>2. q \in RequestType /\ Aligned(q) /\ q.messages \in Seq(Message)
  BY DEF Good, RequestType
<1>4. AddReplies(q, role, c) = Extend(p, Tokens("reply", k), 0)
  BY <1>2 DEF AddReplies, RequestType, Replies
<1> HIDE DEF new, k
<1>3. /\ q.messages \o new \in Seq(Message)
      /\ q.messages # <<>> => q.messages \o new # <<>>
  BY <1>1, <1>2, ConcatProperties, EmptySeq
<1>5. Good(p) /\ SameControl(p, q) /\ p.messages = q.messages \o new
  BY <1>2, <1>3 DEF Good, Aligned, SameControl, RequestType
<1> HIDE DEF p
<1>6. Tokens("reply", k) \in Seq(Token)
  BY <1>1, TokensType
<1>7. /\ Good(Extend(p, Tokens("reply", k), 0))
      /\ SameControl(Extend(p, Tokens("reply", k), 0), p)
      /\ Extend(p, Tokens("reply", k), 0).messages = p.messages
  BY <1>5, <1>6, ExtendKeeps
<1> QED
  BY <1>3, <1>4, <1>5, <1>7 DEF SameControl

LEMMA StripKeeps ==
    ASSUME NEW q, Good(q)
    PROVE  Good(Strip(q)) /\ SameControl(Strip(q), q)
<1>1. CASE ~IsSuffix(GenerationPrompt, q.ids)
  BY <1>1 DEF Strip, SameControl
<1>2. CASE IsSuffix(GenerationPrompt, q.ids)
  <2> DEFINE n == Len(q.ids) - AskLen
             ids == SubSeq(q.ids, 1, n)
             mask == SubSeq(q.mask, 1, n)
  <2>1. /\ q \in RequestType /\ Aligned(q)
        /\ q.ids \in Seq(Token) /\ q.mask \in Seq({0, 1}) /\ Len(q.mask) = Len(q.ids)
    BY DEF Good, Aligned, RequestType
  <2>2. n \in 0..Len(q.ids)
    <3>1. Len(Reverse(GenerationPrompt)) = AskLen /\ Len(Reverse(q.ids)) = Len(q.ids)
      BY <2>1, GenerationPromptType DEF Reverse
    <3>2. AskLen <= Len(q.ids) /\ AskLen \in Nat
      BY <1>2, <3>1, TemplateAssumption DEF IsSuffix, IsPrefix
    <3> QED
      BY <2>1, <3>2
  <2> HIDE DEF n
  <2>3. /\ ids \in Seq(Token) /\ Len(ids) = n
        /\ mask \in Seq({0, 1}) /\ Len(mask) = n
    BY <2>1, <2>2
  <2>4. Strip(q) = [q EXCEPT !.ids = ids, !.mask = mask]
    BY <1>2, <2>1 DEF Strip, RequestType, n
  <2> HIDE DEF ids, mask
  <2> QED
    BY <2>1, <2>3, <2>4 DEF Good, Aligned, SameControl, RequestType
<1> QED
  BY <1>1, <1>2

LEMMA CutType ==
    ASSUME NEW S, NEW s \in Seq(S)
    PROVE  /\ Cut(s) \in Seq(S)
           /\ Len(Cut(s)) = Lesser(Len(s), MaxRequestLen)
<1> DEFINE n == Lesser(Len(s), MaxRequestLen)
<1>1. n \in 0..Len(s)
  BY LengthAssumption DEF Lesser, MaxRequestLen
<1>2. Cut(s) = SubSeq(s, 1, n)
  BY DEF Cut
<1> HIDE DEF n
<1>3. SubSeq(s, 1, n) \in Seq(S) /\ Len(SubSeq(s, 1, n)) = n
  BY <1>1
<1> QED
  BY <1>2, <1>3 DEF n

(* The length of a response depends on the lengths alone.                  *)
ResponseLen(len, from) == IF from < len THEN Lesser(len, from + ResponseLength) - from ELSE 0

LEMMA ResponseType ==
    ASSUME NEW S, NEW s \in Seq(S), NEW from \in Nat
    PROVE  /\ Response(s, from) \in Seq(S)
           /\ Len(Response(s, from)) = ResponseLen(Len(s), from)
<1> DEFINE n == Lesser(Len(s), from + ResponseLength)
<1>1. Response(s, from) = SubSeq(s, from + 1, n)
  BY DEF Response
<1>2. n \in Nat /\ n <= Len(s) /\ Len(s) \in Nat
  BY LengthAssumption DEF Lesser
<1>3. CASE from < Len(s)
  <2>1. n > from
    BY <1>3, <1>2, LengthAssumption DEF Lesser
  <2>2. ResponseLen(Len(s), from) = n - from
    BY <1>3 DEF ResponseLen
  <2> HIDE DEF n
  <2>3. SubSeq(s, from + 1, n) \in Seq(S) /\ Len(SubSeq(s, from + 1, n)) = n - from
    BY <1>2, <1>3, <2>1
  <2> QED
    BY <1>1, <2>2, <2>3
<1>4. CASE ~(from < Len(s))
  <2>1. n = Len(s) /\ ResponseLen(Len(s), from) = 0
    BY <1>2, <1>4, LengthAssumption DEF Lesser, ResponseLen
  <2> HIDE DEF n
  <2>2. SubSeq(s, from + 1, n) = <<>>
    BY <1>2, <1>4, <2>1
  <2>3. Response(s, from) = <<>>
    BY <1>1, <2>2
  <2>4. <<>> \in Seq(S) /\ Len(<<>>) = 0
    OBVIOUS
  <2> QED
    BY <2>1, <2>3, <2>4
<1> QED
  BY <1>3, <1>4

LEMMA TruncateKeeps ==
    ASSUME NEW q, Good(q)
    PROVE  Good(Truncate(q)) /\ SameControl(Truncate(q), q)
<1>1. /\ q \in RequestType /\ Aligned(q) /\ q.promptLen \in Nat
      /\ q.ids \in Seq(Token) /\ q.mask \in Seq({0, 1}) /\ Len(q.mask) = Len(q.ids)
  BY DEF Good, Aligned, RequestType
<1> DEFINE ids == Cut(q.ids)
           mask == Cut(q.mask)
           resp == Response(ids, q.promptLen)
           respMask == Response(mask, q.promptLen)
<1>2. ids \in Seq(Token) /\ mask \in Seq({0, 1}) /\ Len(mask) = Len(ids)
  BY <1>1, CutType
<1>3. Truncate(q) = [q EXCEPT !.ids = ids, !.mask = mask, !.response = resp, !.responseMask = respMask]
  BY <1>1 DEF Truncate, RequestType
<1> HIDE DEF ids, mask
<1>4. resp \in Seq(Token) /\ respMask \in Seq({0, 1}) /\ Len(respMask) = Len(resp)
  BY <1>1, <1>2, ResponseType
<1> HIDE DEF resp, respMask
<1> QED
  BY <1>1, <1>2, <1>3, <1>4 DEF Good, Aligned, SameControl, RequestType

-----------------------------------------------------------------------------
(* The inductive invariant, for a request q with the instances i.          *)

(* Instances exist from the first iteration of the loop to its end, and    *)
(* are all released when the request is done.                              *)
InstancesOf(q, i) ==
    /\ q.state # "pending" /\ q.at \in {"loop", "engine"} => \A t \in Tools : i[t] = "live"
    /\ q.at = "leaving" => \A t \in Tools : i[t] \in {"live", "released"}
    /\ q.at = "done" => \A t \in Tools : i[t] = "released"

(* Where the coroutine can be in which state.                              *)
Control(q) ==
    /\ q.state = "pending" => q.at = "loop" /\ q.turns = 0
    /\ q.state = "interacting" /\ q.at = "loop" => q.userTurns < MaxUserTurns
    /\ q.at = "leaving" => FinishReason(q) \in {"stop", "length"}

(* What the engine was asked.                                              *)
Asked(q) ==
    q.at = "engine" =>
        /\ q.turns < MaxAssistantTurns
        /\ Ask(q) = q
        /\ ~TooLong(q)

Held(q, i) == q.messages # <<>> /\ InstancesOf(q, i) /\ Control(q) /\ Asked(q)

Inv ==
    /\ TypeOK /\ phase # "refused"
    /\ \A r \in Requests : Held(req[r], instance[r])

LEMMA GoodRequests ==
    ASSUME TypeOK, NEW r \in Requests
    PROVE  /\ Good(req[r])
           /\ req[r].turns \in 0..MaxAssistantTurns /\ req[r].userTurns \in 0..MaxUserTurns
           /\ req[r].messages \in Seq(Message) /\ req[r].ids \in Seq(Token)
           /\ req[r].finish \in {"none", "stop", "length", "tool_calls"}
  BY DEF TypeOK, Good, Aligned, RequestType

(* Replacing one request by a good one keeps the invariant.                *)
LEMMA ContinueKeeps ==
    ASSUME Inv, NEW r \in Requests, NEW q, Good(q), Held(q, instance[r]), Continue(r, q)
    PROVE  Inv'
<1>1. /\ req \in [Requests -> RequestType] /\ req' = [req EXCEPT ![r] = q]
      /\ phase' = phase /\ instance' = instance
  BY DEF Inv, TypeOK, Continue
<1>2. req'[r] = q /\ \A s \in Requests : s # r => req'[s] = req[s]
  BY <1>1
<1>3. req' \in [Requests -> RequestType]
  BY <1>1 DEF Good
<1>4. \A s \in Requests : Aligned(req'[s])
  BY <1>2 DEF Good, Inv, TypeOK, Aligned
<1>5. \A s \in Requests : Held(req'[s], instance'[s])
  <2> TAKE s \in Requests
  <2>1. CASE s = r
    BY <1>1, <1>2, <2>1
  <2>2. CASE s # r
    <3>1. req'[s] = req[s] /\ instance'[s] = instance[s] /\ Held(req[s], instance[s])
      BY <1>1, <1>2, <2>2 DEF Inv
    <3> QED
      BY <3>1
  <2> QED
    BY <2>1, <2>2
<1>6. TypeOK'
  BY <1>1, <1>3, <1>4 DEF Inv, TypeOK, Aligned
<1>7. phase' # "refused"
  BY <1>1 DEF Inv
<1> QED
  BY <1>5, <1>6, <1>7 DEF Inv

LEMMA InitInv == Init => Inv
<1> SUFFICES ASSUME Init PROVE Inv
  OBVIOUS
<1>1. PICK size \in [Requests -> PromptSizes] : req = [r \in Requests |-> NewRequest(size[r])]
  BY DEF Init
<1>2. ASSUME NEW r \in Requests
      PROVE  /\ Good(req[r]) /\ req[r].messages # <<>> /\ req[r].state = "pending"
             /\ req[r].at = "loop" /\ req[r].turns = 0
  <2> DEFINE n == size[r]
  <2>1. req[r] = NewRequest(n) /\ n \in Nat /\ AskLen \in Nat /\ n + AskLen \in Nat
    <3>1. req[r] = NewRequest(n)
      BY <1>1
    <3>2. n \in PromptSizes
      OBVIOUS
    <3> HIDE DEF n
    <3> QED
      BY <3>1, <3>2, TemplateAssumption
  <2> HIDE DEF n
  <2>2. /\ Tokens("prompt", n) \in Seq(Token) /\ Len(Tokens("prompt", n)) = n
        /\ Tokens(0, n + AskLen) \in Seq({0, 1}) /\ Len(Tokens(0, n + AskLen)) = n + AskLen
    BY <2>1, TokensType DEF Token
  <2>3. /\ Tokens("prompt", n) \o GenerationPrompt \in Seq(Token)
        /\ Len(Tokens("prompt", n) \o GenerationPrompt) = n + AskLen
    BY <2>1, <2>2, GenerationPromptType, ConcatProperties
  <2>4. <<[role |-> "prompt", size |-> n, calls |-> 0, call |-> 0, ended |-> FALSE]>> \in Seq(Message)
    BY <2>1 DEF Message
  <2>5. NewRequest(n) \in RequestType
    BY <2>1, <2>2, <2>3, <2>4, TurnAssumption DEF NewRequest, RequestType
  <2>6. Aligned(NewRequest(n))
    BY <2>2, <2>3 DEF NewRequest, Aligned
  <2> QED
    BY <2>1, <2>5, <2>6 DEF Good, NewRequest
<1>3. \A r \in Requests : Held(req[r], instance[r])
  BY <1>2 DEF Held, InstancesOf, Control, Asked
<1>4. req \in [Requests -> RequestType]
  <2>1. DOMAIN req = Requests /\ req = [r \in Requests |-> req[r]]
    BY <1>1
  <2> QED
    BY <1>2, <2>1 DEF Good
<1> QED
  BY <1>2, <1>3, <1>4 DEF Init, Inv, TypeOK, Good, Aligned

-----------------------------------------------------------------------------
(* What a request may go on with, by what is at stake.                     *)

(* From one place in the loop to another.                                  *)
LEMMA LoopHeld ==
    ASSUME NEW p, NEW q, NEW i, Held(p, i), Good(q),
           p.state # "pending", p.at \in {"loop", "engine"},
           q.messages # <<>>, q.at = "loop", q.state # "pending",
           q.state = "interacting" => q.userTurns < MaxUserTurns
    PROVE  Held(q, i)
  BY DEF Held, InstancesOf, Control, Asked

(* Out of the loop with a reason to finish.                                *)
LEMMA LeaveHeld ==
    ASSUME NEW p, NEW q, NEW i, Held(p, i), Good(q),
           p.state # "pending", p.at \in {"loop", "engine"},
           q.messages # <<>>, q.state # "pending", NEW f \in {"stop", "length"}
    PROVE  Good(Leave(q, f)) /\ Held(Leave(q, f), i)
<1>1. q \in RequestType /\ Aligned(q)
  BY DEF Good
<1>2. Leave(q, f) = [q EXCEPT !.at = "leaving", !.finish = f]
  BY DEF Leave
<1>3. Good(Leave(q, f))
  BY <1>1, <1>2 DEF Good, Aligned, RequestType
<1>4. /\ Leave(q, f).at = "leaving" /\ Leave(q, f).finish = f
      /\ Leave(q, f).state = q.state /\ Leave(q, f).messages = q.messages
  BY <1>1, <1>2 DEF RequestType
<1>5. FinishReason(Leave(q, f)) \in {"stop", "length"}
  BY <1>4 DEF FinishReason
<1>6. \A t \in Tools : i[t] = "live"
  BY DEF Held, InstancesOf
<1> HIDE DEF Leave
<1> QED
  BY <1>3, <1>4, <1>5, <1>6 DEF Held, InstancesOf, Control, Asked

(* A reply was added: on or out.                                           *)
LEMMA RunOrStopHeld ==
    ASSUME NEW p, NEW q, NEW i, Held(p, i), Good(q),
           p.state # "pending", p.at = "loop",
           q.messages # <<>>, q.state # "pending", q.at = "loop"
    PROVE  Good(RunOrStop(q)) /\ Held(RunOrStop(q), i)
<1>1. CASE Len(q.ids) >= MaxModelLen
  BY <1>1, LeaveHeld DEF RunOrStop
<1>2. CASE ~(Len(q.ids) >= MaxModelLen)
  <2> DEFINE n == [q EXCEPT !.state = "running"]
  <2>1. RunOrStop(q) = n
    BY <1>2 DEF RunOrStop
  <2>2. Good(n) /\ n.messages = q.messages /\ n.at = "loop" /\ n.state = "running"
    BY DEF Good, Aligned, RequestType
  <2> HIDE DEF n
  <2>3. Held(n, i)
    BY <2>2, LoopHeld
  <2> QED
    BY <2>1, <2>2, <2>3
<1> QED
  BY <1>1, <1>2

(* What the engine has answered.                                           *)
LEMMA AnsweredKeeps ==
    ASSUME Inv, NEW r \in Requests, req[r].at = "engine",
           NEW size \in Nat, NEW n \in Nat, NEW ended \in BOOLEAN
    PROVE  /\ Good(Answered(r, size, n, ended))
           /\ Answered(r, size, n, ended).messages # <<>>
           /\ Answered(r, size, n, ended).at = "loop"
           /\ Answered(r, size, n, ended).state = req[r].state
           /\ req[r].state # "pending"
<1>1. Good(req[r]) /\ Ask(req[r]) = req[r] /\ req[r].turns < MaxAssistantTurns
  BY GoodRequests DEF Inv, Held, Asked
<1> DEFINE q == [req[r] EXCEPT !.turns = req[r].turns + 1, !.at = "loop"]
<1>2. Answered(r, size, n, ended) = AddAnswer(q, size, n, ended)
  BY <1>1 DEF Answered, EnginePrompt, Good, RequestType
<1>3. Good(q) /\ q.at = "loop" /\ q.state = req[r].state
  <2>1. req[r].turns + 1 \in 0..MaxAssistantTurns
    <3>1. req[r].turns \in 0..MaxAssistantTurns
      BY GoodRequests DEF Inv
    <3> QED
      BY <1>1, <3>1, TurnAssumption
  <2> QED
    BY <1>1, <2>1 DEF Good, Aligned, RequestType
<1> HIDE DEF q
<1>4. /\ Good(AddAnswer(q, size, n, ended)) /\ SameControl(AddAnswer(q, size, n, ended), q)
      /\ AddAnswer(q, size, n, ended).messages # <<>>
  BY <1>3, AddAnswerKeeps
<1>5. req[r].state # "pending"
  BY DEF Inv, Held, Control
<1> QED
  BY <1>2, <1>3, <1>4, <1>5 DEF SameControl

-----------------------------------------------------------------------------
(* Every action preserves the invariant.                                   *)
LEMMA InstanceStepsPreserve ==
    ASSUME Inv, NEW r \in Requests, NEW t \in Tools,
           CreateInstance(r, t) \/ Release(r, t)
    PROVE  Inv'
<1>1. PICK from \in {"none", "live"}, to \in {"live", "released"} :
        /\ SetInstance(r, t, from, to)
        /\ \/ from = "none" /\ to = "live" /\ req[r].state = "pending" /\ req[r].at = "loop"
           \/ from = "live" /\ to = "released" /\ req[r].at = "leaving"
  BY DEF CreateInstance, Release, InLoop
<1>2. /\ instance \in [Requests -> [Tools -> {"none", "live", "released"}]]
      /\ instance' = [instance EXCEPT ![r][t] = to]
      /\ req' = req /\ phase' = phase
  BY <1>1 DEF SetInstance, Inv, TypeOK
<1>3. /\ instance' \in [Requests -> [Tools -> {"none", "live", "released"}]]
      /\ \A s \in Requests : s # r => instance'[s] = instance[s]
      /\ \A u \in Tools : u # t => instance'[r][u] = instance[r][u]
      /\ instance'[r][t] = to
  BY <1>2
<1>4. TypeOK'
  BY <1>2, <1>3 DEF Inv, TypeOK
<1>5. InstancesOf(req[r], instance'[r])
  BY <1>1, <1>3 DEF Inv, Held, InstancesOf
<1>6. \A s \in Requests : Held(req[s], instance'[s])
  BY <1>3, <1>5 DEF Inv, Held
<1> QED
  BY <1>2, <1>4, <1>6 DEF Inv

LEMMA PendingPreserves ==
    ASSUME Inv, NEW r \in Requests, Pending(r)
    PROVE  Inv'
<1> DEFINE q == [req[r] EXCEPT !.state = "running"]
<1>1. Good(req[r]) /\ Held(req[r], instance[r])
  BY GoodRequests DEF Inv
<1>2. Good(q) /\ q.messages = req[r].messages /\ q.at = "loop" /\ q.state = "running"
  BY <1>1 DEF Good, Aligned, RequestType, Pending, InLoop
<1>3. Continue(r, q) /\ \A t \in Tools : instance[r][t] = "live"
  BY DEF Pending
<1> HIDE DEF q
<1>4. Held(q, instance[r])
  BY <1>1, <1>2, <1>3 DEF Held, InstancesOf, Control, Asked
<1> QED
  BY <1>2, <1>3, <1>4, ContinueKeeps

LEMMA GeneratePreserves ==
    ASSUME Inv, NEW r \in Requests, Generate(r)
    PROVE  Inv'
<1> DEFINE p == req[r]
           q == Ask(p)
           e == [q EXCEPT !.at = "engine"]
<1>1. /\ Good(p) /\ Held(p, instance[r])
      /\ p.state = "running" /\ p.at = "loop" /\ p.turns < MaxAssistantTurns
  BY GoodRequests DEF Inv, Generate, InLoop
<1>2. Continue(r, IF TooLong(q) THEN Leave(q, "length") ELSE e)
  BY DEF Generate
<1> HIDE DEF p
<1>3. /\ Good(q) /\ q.messages # <<>> /\ q.state = "running" /\ q.at = "loop"
      /\ q.turns < MaxAssistantTurns /\ IsSuffix(GenerationPrompt, q.ids)
  BY <1>1, AskKeeps DEF SameControl, Held
<1> HIDE DEF q
<1>4. CASE TooLong(q)
  <2>1. Good(Leave(q, "length")) /\ Held(Leave(q, "length"), instance[r])
    BY <1>1, <1>3, LeaveHeld
  <2> QED
    BY <1>2, <1>4, <2>1, ContinueKeeps
<1>5. CASE ~TooLong(q)
  <2>1. /\ Good(e) /\ e.messages = q.messages /\ e.ids = q.ids /\ e.turns = q.turns
        /\ e.at = "engine" /\ e.state = "running"
    BY <1>3 DEF Good, Aligned, RequestType
  <2> HIDE DEF e
  <2>2. Ask(e) = e /\ ~TooLong(e)
    BY <1>3, <1>5, <2>1 DEF Ask, TooLong
  <2>3. \A t \in Tools : instance[r][t] = "live"
    BY <1>1 DEF Held, InstancesOf
  <2>4. Held(e, instance[r])
    BY <1>3, <2>1, <2>2, <2>3 DEF Held, InstancesOf, Control, Asked
  <2> QED
    BY <1>2, <1>5, <2>1, <2>4, ContinueKeeps
<1> QED
  BY <1>4, <1>5

LEMMA MaxNewTokensBound ==
    ASSUME NEW q, Good(q), Ask(q) = q, ~TooLong(q)
    PROVE  /\ MaxNewTokens(q) \in 1..ResponseLength
           /\ Len(EnginePrompt(q).ids) + MaxNewTokens(q) + 1 <= MaxModelLen
<1>1. Len(q.ids) \in Nat
  BY DEF Good, RequestType
<1> DEFINE n == Len(q.ids)
<1>2. /\ EnginePrompt(q) = q
      /\ MaxNewTokens(q) = Lesser(ResponseLength, MaxModelLen - n - 1)
      /\ ~(n + 1 >= MaxModelLen)
  BY DEF MaxNewTokens, EnginePrompt, TooLong
<1> HIDE DEF n
<1>3. n \in Nat
  BY <1>1 DEF n
<1>4. /\ Lesser(ResponseLength, MaxModelLen - n - 1) \in 1..ResponseLength
      /\ n + Lesser(ResponseLength, MaxModelLen - n - 1) + 1 <= MaxModelLen
  BY <1>2, <1>3, LengthAssumption DEF Lesser
<1> QED
  BY <1>2, <1>4 DEF n

LEMMA AnswerPreserves ==
    ASSUME Inv, NEW r \in Requests,
           \/ AnswerCut(r)
           \/ \E size \in TextSizes :
                \/ AnswerBroken(r, size) \/ AnswerPlain(r, size)
                \/ \E n \in 1..MaxCalls : AnswerCalls(r, size, n)
    PROVE  Inv'
<1> DEFINE p == req[r]
<1>1. /\ Good(p) /\ Held(p, instance[r]) /\ p.at = "engine" /\ p.state # "pending"
      /\ Ask(p) = p /\ ~TooLong(p)
  BY GoodRequests DEF Inv, Held, Asked, Control, AnswerCut, AnswerBroken, AnswerPlain,
     AnswerCalls, Stops
<1>2. TextSizes \subseteq Nat /\ MaxCalls \in Nat
  BY TemplateAssumption, TurnAssumption
<1>3. CASE AnswerCut(r)
  <2> DEFINE size == MaxNewTokens(p)
             q == Answered(r, size, 0, FALSE)
  <2>1. size \in Nat
    BY <1>1, MaxNewTokensBound
  <2>2. Continue(r, Leave(q, "length"))
    BY <1>3 DEF AnswerCut
  <2> HIDE DEF size
  <2>3. Good(q) /\ q.messages # <<>> /\ q.state # "pending"
    BY <1>1, <2>1, AnsweredKeeps
  <2> HIDE DEF q, p
  <2>4. Good(Leave(q, "length")) /\ Held(Leave(q, "length"), instance[r])
    BY <1>1, <2>3, LeaveHeld
  <2> QED
    BY <2>2, <2>4, ContinueKeeps
<1>4. ASSUME NEW size \in TextSizes, AnswerBroken(r, size)
      PROVE  Inv'
  <2> DEFINE a == Answered(r, size, 0, TRUE)
             q == [a EXCEPT !.state = "completed"]
  <2>1. Good(a) /\ a.messages # <<>>
    BY <1>1, <1>2, AnsweredKeeps
  <2>2. Continue(r, Leave(q, "stop"))
    BY <1>4 DEF AnswerBroken
  <2> HIDE DEF a
  <2>3. Good(q) /\ q.messages # <<>> /\ q.state # "pending"
    BY <2>1 DEF Good, Aligned, RequestType
  <2> HIDE DEF q, p
  <2>4. Good(Leave(q, "stop")) /\ Held(Leave(q, "stop"), instance[r])
    BY <1>1, <2>3, LeaveHeld
  <2> QED
    BY <2>2, <2>4, ContinueKeeps
<1>5. ASSUME NEW size \in TextSizes, AnswerPlain(r, size)
      PROVE  Inv'
  <2> DEFINE q == Answered(r, size, 0, TRUE)
             u == [q EXCEPT !.state = "interacting", !.finish = "stop"]
  <2>1. Good(q) /\ q.messages # <<>> /\ q.state # "pending" /\ q.at = "loop"
    BY <1>1, <1>2, AnsweredKeeps
  <2>2. Continue(r, IF HasInteraction /\ q.userTurns < MaxUserTurns /\ q.turns < MaxAssistantTurns
                    THEN u ELSE Leave(q, "stop"))
    BY <1>5 DEF AnswerPlain
  <2> HIDE DEF q
  <2>3. CASE q.userTurns < MaxUserTurns
    <3>1. /\ Good(u) /\ u.messages # <<>> /\ u.state = "interacting" /\ u.at = "loop"
          /\ u.userTurns < MaxUserTurns
      BY <2>1, <2>3 DEF Good, Aligned, RequestType
    <3> HIDE DEF u, p
    <3>2. Held(u, instance[r])
      BY <1>1, <3>1, LoopHeld
    <3>3. Good(Leave(q, "stop")) /\ Held(Leave(q, "stop"), instance[r])
      BY <1>1, <2>1, LeaveHeld
    <3> QED
      BY <2>2, <3>1, <3>2, <3>3, ContinueKeeps
  <2>4. CASE ~(q.userTurns < MaxUserTurns)
    <3> HIDE DEF u, p
    <3>1. Good(Leave(q, "stop")) /\ Held(Leave(q, "stop"), instance[r])
      BY <1>1, <2>1, LeaveHeld
    <3> QED
      BY <2>2, <2>4, <3>1, ContinueKeeps
  <2> QED
    BY <2>3, <2>4
<1>6. ASSUME NEW size \in TextSizes, NEW n \in 1..MaxCalls, AnswerCalls(r, size, n)
      PROVE  Inv'
  <2> DEFINE a == Answered(r, size, n, TRUE)
             c == Tokens(0, n)
             q == [a EXCEPT !.state = "tool_calling", !.finish = "tool_calls", !.results = c]
  <2>0. n \in Nat /\ c \in Seq(Nat)
    <3>1. n \in Nat /\ 0 \in Nat
      BY <1>2
    <3> QED
      BY <3>1, TokensType
  <2>1. Good(a) /\ a.messages # <<>> /\ a.at = "loop"
    BY <1>1, <1>2, <2>0, AnsweredKeeps
  <2>2. Continue(r, q)
    BY <1>6 DEF AnswerCalls
  <2> HIDE DEF a, c
  <2>3. Good(q) /\ q.messages # <<>> /\ q.state = "tool_calling" /\ q.at = "loop"
    BY <2>0, <2>1 DEF Good, Aligned, RequestType
  <2> HIDE DEF q, p
  <2>4. Held(q, instance[r])
    BY <1>1, <2>3, LoopHeld
  <2> QED
    BY <2>2, <2>3, <2>4, ContinueKeeps
<1> QED
  BY <1>3, <1>4, <1>5, <1>6

LEMMA ReplyPreserves ==
    ASSUME Inv, NEW r \in Requests,
           ToolsReturn(r) \/ UserEnds(r) \/ UserReplies(r)
    PROVE  Inv'
<1> DEFINE p == req[r]
<1>1. /\ Good(p) /\ Held(p, instance[r]) /\ p.at = "loop" /\ p.messages # <<>>
      /\ p.messages \in Seq(Message)
      /\ p.state \in {"tool_calling", "interacting"}
  BY GoodRequests DEF Inv, Held, ToolsReturn, UserEnds, UserReplies, InLoop
<1>2. CASE ToolsReturn(r)
  <2> DEFINE c == p.results
             u == [p EXCEPT !.results = <<>>]
             q == AddReplies(u, "tool", c)
  <2>1. c \in Seq(Nat) /\ <<>> \in Seq(Nat)
    BY <1>1 DEF Good, RequestType
  <2>2. Continue(r, RunOrStop(q))
    BY <1>2 DEF ToolsReturn
  <2>3. Good(u) /\ u.messages # <<>> /\ u.state = p.state /\ u.at = "loop"
    BY <1>1, <2>1 DEF Good, Aligned, RequestType
  <2> HIDE DEF c, p, u
  <2>4. /\ Good(q) /\ q.messages # <<>> /\ q.at = "loop" /\ q.state # "pending"
    BY <1>1, <2>1, <2>3, AddRepliesKeeps DEF SameControl
  <2> HIDE DEF q
  <2>5. Good(RunOrStop(q)) /\ Held(RunOrStop(q), instance[r])
    BY <1>1, <2>4, RunOrStopHeld
  <2> QED
    BY <2>2, <2>5, ContinueKeeps
<1>3. ASSUME UserEnds(r) \/ UserReplies(r)
      PROVE  p.userTurns + 1 \in 0..MaxUserTurns
  <2>1. p.userTurns < MaxUserTurns /\ p.userTurns \in 0..MaxUserTurns
    BY <1>1, <1>3, GoodRequests DEF UserEnds, UserReplies, InLoop, Held, Control, Inv
  <2> QED
    BY <2>1, TurnAssumption
<1>4. CASE UserEnds(r)
  <2> DEFINE q == [p EXCEPT !.userTurns = p.userTurns + 1, !.state = "completed"]
  <2>1. Continue(r, Leave(q, "stop"))
    BY <1>4 DEF UserEnds
  <2> HIDE DEF p
  <2>2. Good(q) /\ q.messages # <<>> /\ q.state # "pending"
    BY <1>1, <1>3, <1>4 DEF Good, Aligned, RequestType
  <2> HIDE DEF q
  <2>3. Good(Leave(q, "stop")) /\ Held(Leave(q, "stop"), instance[r])
    BY <1>1, <2>2, LeaveHeld
  <2> QED
    BY <2>1, <2>3, ContinueKeeps
<1>5. CASE UserReplies(r)
  <2> DEFINE u == [p EXCEPT !.userTurns = p.userTurns + 1]
             c == <<0>>
             q == AddReplies(u, "user", c)
  <2>0. c \in Seq(Nat)
    OBVIOUS
  <2>1. Continue(r, RunOrStop(q))
    BY <1>5 DEF UserReplies
  <2> HIDE DEF p
  <2>2. Good(u) /\ u.messages # <<>> /\ u.state = p.state /\ u.at = "loop"
    BY <1>1, <1>3, <1>5 DEF Good, Aligned, RequestType
  <2> HIDE DEF u, c
  <2>3. Good(q) /\ q.messages # <<>> /\ q.at = "loop" /\ q.state # "pending"
    BY <1>1, <2>0, <2>2, AddRepliesKeeps DEF SameControl
  <2> HIDE DEF q
  <2>4. Good(RunOrStop(q)) /\ Held(RunOrStop(q), instance[r])
    BY <1>1, <2>3, RunOrStopHeld
  <2> QED
    BY <2>1, <2>4, ContinueKeeps
<1> QED
  BY <1>2, <1>4, <1>5

LEMMA ToolAnswersPreserves ==
    ASSUME Inv, NEW r \in Requests, NEW i \in 1..MaxCalls, ToolAnswers(r, i)
    PROVE  Inv'
<1> DEFINE p == req[r]
           c == [p.results EXCEPT ![i] = i]
           q == [p EXCEPT !.results = c]
<1>1. /\ Good(p) /\ Held(p, instance[r]) /\ p.at = "loop" /\ p.state = "tool_calling"
      /\ p.results \in Seq(Nat) /\ i \in DOMAIN p.results
  BY GoodRequests DEF Inv, ToolAnswers, InLoop, Good, RequestType
<1>2. Continue(r, q)
  BY <1>1 DEF ToolAnswers, Good, RequestType
<1>3. i \in Nat
  BY TurnAssumption
<1>4. c \in Seq(Nat)
  BY <1>1, <1>3, ExceptSeq
<1> HIDE DEF p, c
<1>5. /\ Good(q) /\ q.messages = p.messages /\ q.at = "loop" /\ q.state = "tool_calling"
  BY <1>1, <1>4 DEF Good, Aligned, RequestType
<1> HIDE DEF q
<1>6. Held(q, instance[r])
  BY <1>1, <1>5, LoopHeld DEF Held
<1> QED
  BY <1>2, <1>5, <1>6, ContinueKeeps

LEMMA EndPreserves ==
    ASSUME Inv, NEW r \in Requests, LastTurn(r) \/ Finalize(r)
    PROVE  Inv'
<1> DEFINE p == req[r]
<1>1. Good(p) /\ Held(p, instance[r]) /\ p.turns \in 0..MaxAssistantTurns
  BY GoodRequests DEF Inv
<1>2. CASE LastTurn(r)
  <2> DEFINE q == [p EXCEPT !.at = "leaving"]
  <2>1. Continue(r, q) /\ p.at = "loop" /\ p.turns >= MaxAssistantTurns
    BY <1>2 DEF LastTurn
  <2> HIDE DEF p
  <2>2. Good(q) /\ q.messages = p.messages /\ q.at = "leaving" /\ q.state = p.state
        /\ q.turns = p.turns
    BY <1>1 DEF Good, Aligned, RequestType
  <2>3. p.state # "pending"
    BY <1>1, <2>1, TurnAssumption DEF Held, Control
  <2> HIDE DEF q
  <2>4. Held(q, instance[r])
    BY <1>1, <2>1, <2>2, <2>3 DEF Held, InstancesOf, Control, Asked, FinishReason
  <2> QED
    BY <2>1, <2>2, <2>4, ContinueKeeps
<1>3. CASE Finalize(r)
  <2> DEFINE f == Truncate(Strip(p))
             q == [f EXCEPT !.at = "done", !.state = "completed"]
  <2>1. Continue(r, q) /\ \A t \in Tools : instance[r][t] = "released"
    <3>1. p.at = "leaving" /\ FinishReason(p) \in {"stop", "length"}
      BY <1>1, <1>3 DEF Finalize, AllReleased, Held, Control
    <3> QED
      BY <1>3, <3>1 DEF Finalize, AllReleased
  <2> HIDE DEF p
  <2>2. Good(f) /\ f.messages = p.messages
    <3>1. Good(Strip(p)) /\ Strip(p).messages = p.messages
      BY <1>1, StripKeeps DEF Strip, Good, RequestType
    <3>2. Good(Truncate(Strip(p))) /\ Truncate(Strip(p)).messages = Strip(p).messages
      BY <3>1, TruncateKeeps DEF Truncate, Good, RequestType
    <3> QED
      BY <3>1, <3>2
  <2> HIDE DEF f
  <2>3. Good(q) /\ q.messages = p.messages /\ q.at = "done" /\ q.state = "completed"
    BY <2>2 DEF Good, Aligned, RequestType
  <2> HIDE DEF q
  <2>4. Held(q, instance[r])
    BY <1>1, <2>1, <2>3 DEF Held, InstancesOf, Control, Asked
  <2> QED
    BY <2>1, <2>3, <2>4, ContinueKeeps
<1> QED
  BY <1>2, <1>3

LEMMA NextInv == Inv /\ [Next]_vars => Inv'
<1> SUFFICES ASSUME Inv, [Next]_vars PROVE Inv'
  OBVIOUS
<1>1. ASSUME NEW r \in Requests, Advance(r)
      PROVE  Inv'
  BY <1>1, InstanceStepsPreserve, PendingPreserves, GeneratePreserves, AnswerPreserves,
     ReplyPreserves, ToolAnswersPreserves, EndPreserves DEF Advance
<1>2. CASE Return \/ \E r \in Requests : Raises(r)
  BY <1>2 DEF Return, Raises, Inv, TypeOK
<1>3. CASE UNCHANGED vars
  BY <1>3 DEF vars, Inv, TypeOK
<1> QED
  BY <1>1, <1>2, <1>3 DEF Next

LEMMA Invariance == Spec => []Inv
  BY InitInv, NextInv, PTL DEF Spec

-----------------------------------------------------------------------------
(* The token and mask lists of every request keep the same length, and the *)
(* turns their bounds.                                                     *)
THEOREM TypeCorrect == Spec => []TypeOK
<1>1. Inv => TypeOK
  BY DEF Inv
<1> QED
  BY <1>1, Invariance, PTL

(* The engine is asked for at least one token and for no more than its     *)
(* context holds with the end of the answer, on every turn.                *)
THEOREM EngineAlwaysFits == Spec => []EngineFits
<1>1. Inv => EngineFits
  <2> SUFFICES ASSUME Inv, NEW r \in Requests, req[r].at = "engine"
               PROVE  /\ MaxNewTokens(req[r]) \in 1..ResponseLength
                      /\ Len(EnginePrompt(req[r]).ids) + MaxNewTokens(req[r]) + 1 <= MaxModelLen
    BY DEF EngineFits
  <2> QED
    BY GoodRequests, MaxNewTokensBound DEF Inv, Held, Asked
<1> QED
  BY <1>1, Invariance, PTL

(* Tools are called on instances that exist, and a request that is         *)
(* completed has released all of them, whatever way it left the loop.      *)
THEOREM NoInstanceLeft == Spec => []InstancesReleased
<1>1. Inv => InstancesReleased
  BY DEF Inv, Held, InstancesOf, InstancesReleased
<1> QED
  BY <1>1, Invariance, PTL

(* A request behind its loop has a finish reason that finalize accepts, so *)
(* that finalize ends no rollout.                                          *)
FinishAccepted ==
    /\ phase # "refused"
    /\ \A r \in Requests :
        req[r].at = "leaving" => FinishReason(req[r]) \in {"stop", "length"}

THEOREM FinalizeNeverRaises == Spec => []FinishAccepted
<1>1. Inv => FinishAccepted
  BY DEF Inv, Held, Control, FinishAccepted
<1> QED
  BY <1>1, Invariance, PTL

-----------------------------------------------------------------------------
(* Facts for every n in Nat are proved from the least counterexample.      *)
LEMMA NatMin ==
    ASSUME NEW T \in SUBSET Nat, T # {}
    PROVE  \E m \in T : \A n \in T : m <= n
<1> DEFINE Below(n) == {k \in T : k < n}
           F == {Below(n) : n \in T}
           R == StrictSubsetOrdering(Nat)
<1>0. \A k \in T : k \in Nat
  OBVIOUS
<1>1. \A n \in T : IsFiniteSet(Below(n))
  <2> TAKE n \in T
  <2>1. n \in Nat /\ Below(n) \subseteq Nat
    BY <1>0
  <2>2. \A k \in Below(n) : k <= n
    BY <1>0
  <2> QED
    BY <2>1, <2>2, FS_BoundedSetOfNaturals
<1>2. F \subseteq FiniteSubsetsOf(Nat) /\ F # {}
  BY <1>1 DEF FiniteSubsetsOf
<1>3. IsWellFoundedOn(R, FiniteSubsetsOf(Nat))
  BY FS_StrictSubsetOrderingWellFounded
<1> HIDE DEF F, R
<1>4. PICK X \in F : \A Y \in F : ~(<<Y, X>> \in R)
  BY <1>2, <1>3, WFMin
<1>5. PICK m \in T : X = Below(m)
  BY DEF F
<1>6. ASSUME NEW n \in T, n < m
      PROVE  FALSE
  <2>1. Below(n) \in SUBSET Nat /\ Below(m) \in SUBSET Nat /\ Below(n) \in F
    BY DEF F
  <2>4. n \in Nat /\ m \in Nat /\ ~(n < n)
    BY <1>0
  <2>2. Below(n) \subseteq Below(m) /\ n \in Below(m) /\ n \notin Below(n)
    <3>1. \A k \in T : k < n => k < m
      BY <1>0, <1>6, <2>4
    <3> QED
      BY <1>6, <2>4, <3>1
  <2>3. <<Below(n), Below(m)>> \in R
    BY <2>1, <2>2 DEF R, StrictSubsetOrdering
  <2> QED
    BY <1>4, <1>5, <2>1, <2>3
<1> QED
  BY <1>6

-----------------------------------------------------------------------------
(* FlattenSeq, by the function it is defined with.                         *)
Flattens(f, s) == f = [i \in 1..Len(s) |-> IF i = 1 THEN s[i] ELSE f[i - 1] \o s[i]]

(* What the function is at every place.                                    *)
LEMMA FlattensOne ==
    ASSUME NEW S, NEW s \in Seq(Seq(S)), NEW f, Flattens(f, s)
    PROVE  /\ DOMAIN f = 1..Len(s)
           /\ \A i \in 1..Len(s) : f[i] = IF i = 1 THEN s[i] ELSE f[i - 1] \o s[i]
  BY DEF Flattens

(* FlattenSeq chooses a function: there is one for every sequence.         *)
LEMMA FlattensExists ==
    ASSUME NEW S, NEW s \in Seq(Seq(S))
    PROVE  \E f : Flattens(f, s)
<1> DEFINE Upto(f, n) == f = [i \in 1..n |-> IF i = 1 THEN s[i] ELSE f[i - 1] \o s[i]]
           T == {n \in Nat : ~ \E f : Upto(f, n)}
<1>1. ASSUME T # {} PROVE FALSE
  <2>1. PICK m \in T : \A n \in T : m <= n
    BY <1>1, NatMin
  <2>2. m \in Nat /\ ~ \E f : Upto(f, m)
    BY <2>1
  <2>3. CASE m = 0
    <3> DEFINE f == [i \in 1..0 |-> s[i]]
    <3>1. f = [i \in 1..0 |-> IF i = 1 THEN s[i] ELSE f[i - 1] \o s[i]]
      OBVIOUS
    <3>2. Upto(f, m)
      BY <2>3, <3>1
    <3> QED
      BY <2>2, <3>2
  <2>4. CASE m # 0
    <3>0. m - 1 \in Nat /\ m - 1 < m
      BY <2>2, <2>4
    <3>1. m - 1 \notin T
      <4> HIDE DEF T
      <4> QED
        BY <2>1, <2>2, <3>0
    <3>2. PICK f : f = [i \in 1..(m - 1) |-> IF i = 1 THEN s[i] ELSE f[i - 1] \o s[i]]
      BY <3>0, <3>1
    <3> DEFINE g == [i \in 1..m |-> IF i = 1 THEN s[i] ELSE f[i - 1] \o s[i]]
    <3>3. \A i \in 1..m : i # 1 => g[i - 1] = f[i - 1]
      <4> TAKE i \in 1..m
      <4> HAVE i # 1
      <4>1. i - 1 \in 1..m /\ i - 1 \in 1..(m - 1)
        BY <2>2
      <4>2. g[i - 1] = IF i - 1 = 1 THEN s[i - 1] ELSE f[i - 1 - 1] \o s[i - 1]
        BY <4>1
      <4> HIDE DEF g
      <4>3. f[i - 1] = IF i - 1 = 1 THEN s[i - 1] ELSE f[i - 1 - 1] \o s[i - 1]
        BY <3>2, <4>1
      <4> QED
        BY <4>2, <4>3
    <3>4. g = [i \in 1..m |-> IF i = 1 THEN s[i] ELSE g[i - 1] \o s[i]]
      <4> DEFINE h == [i \in 1..m |-> IF i = 1 THEN s[i] ELSE g[i - 1] \o s[i]]
      <4>1. \A i \in 1..m : h[i] = g[i]
        <5> HIDE DEF g
        <5>1. \A i \in 1..m : h[i] = IF i = 1 THEN s[i] ELSE g[i - 1] \o s[i]
          OBVIOUS
        <5>2. \A i \in 1..m : g[i] = IF i = 1 THEN s[i] ELSE f[i - 1] \o s[i]
          BY DEF g
        <5> HIDE DEF h
        <5> QED
          BY <3>3, <5>1, <5>2
      <4> QED
        BY <4>1
    <3> HIDE DEF g
    <3> QED
      BY <2>2, <3>4
  <2> QED
    BY <2>3, <2>4
<1>2. Len(s) \in Nat
  OBVIOUS
<1>3. \E f : Upto(f, Len(s))
  BY <1>1, <1>2
<1> QED
  BY <1>3 DEF Flattens

(* Two sequences of which one begins the other.                            *)
LEMMA FlattensPrefix ==
    ASSUME NEW S, NEW s \in Seq(Seq(S)), NEW t \in Seq(Seq(S)), NEW f, NEW g,
           Flattens(f, s), Flattens(g, t), Len(s) <= Len(t), \A i \in 1..Len(s) : s[i] = t[i]
    PROVE  \A i \in 1..Len(s) : f[i] = g[i] /\ f[i] \in Seq(S)
<1> DEFINE T == {n \in Nat : n \in 1..Len(s) /\ ~(f[n] = g[n] /\ f[n] \in Seq(S))}
<1>1. Len(s) \in Nat /\ Len(t) \in Nat /\ \A i \in 1..Len(s) : i \in 1..Len(t) /\ s[i] \in Seq(S)
  OBVIOUS
<1>2. ASSUME T # {} PROVE FALSE
  <2>1. PICK m \in T : \A n \in T : m <= n
    BY <1>2, NatMin
  <2>2. m \in Nat /\ m \in 1..Len(s) /\ ~(f[m] = g[m] /\ f[m] \in Seq(S))
    BY <2>1
  <2>3. /\ f[m] = IF m = 1 THEN s[m] ELSE f[m - 1] \o s[m]
        /\ g[m] = IF m = 1 THEN t[m] ELSE g[m - 1] \o t[m]
    BY <1>1, <2>2, FlattensOne
  <2>4. CASE m = 1
    BY <1>1, <2>2, <2>3, <2>4
  <2>5. CASE m # 1
    <3>0. m - 1 \in Nat /\ m - 1 \in 1..Len(s) /\ m - 1 < m
      BY <1>1, <2>2, <2>5
    <3>1. m - 1 \notin T
      <4> HIDE DEF T
      <4> QED
        BY <2>1, <2>2, <3>0
    <3>2. f[m - 1] = g[m - 1] /\ f[m - 1] \in Seq(S)
      BY <3>0, <3>1
    <3>3. f[m - 1] \o s[m] \in Seq(S)
      BY <1>1, <2>2, <3>2, ConcatProperties
    <3> QED
      BY <2>2, <2>3, <2>5, <3>2, <3>3
  <2> QED
    BY <2>4, <2>5
<1>3. ASSUME NEW i \in 1..Len(s) PROVE f[i] = g[i] /\ f[i] \in Seq(S)
  <2>1. i \in Nat
    BY <1>1
  <2>2. i \notin T
    <3> HIDE DEF T
    <3> QED
      BY <1>2
  <2> QED
    BY <2>1, <2>2
<1> QED
  BY <1>3

(* The whole is its value at the last place.                               *)
LEMMA FlattenLast ==
    ASSUME NEW S, NEW s \in Seq(Seq(S)), s # <<>>
    PROVE  \E f : Flattens(f, s) /\ FlattenSeq(s) = f[Len(s)] /\ FlattenSeq(s) \in Seq(S)
<1>1. PICK f : f = (CHOOSE h : Flattens(h, s))
  OBVIOUS
<1>2. Flattens(f, s)
  BY <1>1, FlattensExists
<1>3. Len(s) # 0 /\ Len(s) \in Nat
  OBVIOUS
<1>4. FlattenSeq(s) = f[Len(s)]
  BY <1>1, <1>3 DEF FlattenSeq, Flattens
<1>5. f[Len(s)] \in Seq(S)
  BY <1>2, <1>3, FlattensPrefix
<1> QED
  BY <1>2, <1>4, <1>5

(* One more part at the end is one more concatenation.                     *)
LEMMA FlattenAppend ==
    ASSUME NEW S, NEW s \in Seq(Seq(S)), NEW x \in Seq(S)
    PROVE  /\ FlattenSeq(s) \in Seq(S)
           /\ FlattenSeq(Append(s, x)) = FlattenSeq(s) \o x
<1>1. PICK t, n : t = Append(s, x) /\ n = Len(s)
  OBVIOUS
<1>2. /\ t \in Seq(Seq(S)) /\ t # <<>> /\ n \in Nat /\ Len(t) = n + 1 /\ t[n + 1] = x
      /\ \A i \in 1..n : t[i] = s[i]
  BY <1>1, AppendProperties
<1>3. PICK g : Flattens(g, t) /\ FlattenSeq(t) = g[n + 1]
  BY <1>2, FlattenLast
<1>4. g[n + 1] = IF n + 1 = 1 THEN x ELSE g[n] \o x
  <2>1. n + 1 \in 1..Len(t) /\ n + 1 - 1 = n
    BY <1>2
  <2> QED
    BY <1>2, <1>3, <2>1, FlattensOne
<1>5. CASE s = <<>>
  <2>1. FlattenSeq(s) = <<>>
    BY <1>5 DEF FlattenSeq
  <2>2. n = 0
    BY <1>1, <1>5
  <2> QED
    BY <1>1, <1>3, <1>4, <2>1, <2>2, EmptySeq, ConcatEmptySeq
<1>6. CASE s # <<>>
  <2>1. PICK f : Flattens(f, s) /\ FlattenSeq(s) = f[n] /\ FlattenSeq(s) \in Seq(S)
    BY <1>1, <1>6, FlattenLast
  <2>2. n \in 1..n /\ n # 0
    BY <1>1, <1>2, <1>6
  <2>3. f[n] = g[n]
    <3>1. Len(s) <= Len(t) /\ \A i \in 1..Len(s) : s[i] = t[i]
      BY <1>1, <1>2
    <3>2. \A i \in 1..Len(s) : f[i] = g[i] /\ f[i] \in Seq(S)
      BY <1>2, <1>3, <2>1, <3>1, FlattensPrefix
    <3> QED
      BY <1>1, <2>2, <3>2
  <2> QED
    BY <1>1, <1>2, <1>3, <1>4, <2>1, <2>2, <2>3
<1> QED
  BY <1>5, <1>6

-----------------------------------------------------------------------------
(* The encoding of a conversation, message by message.                     *)
(* A message is encoded by tokens.                                         *)
LEMMA SegmentType ==
    ASSUME NEW m \in Message
    PROVE  Segment(m) \in Seq(Token)
<1>1. m.size \in Nat /\ m.ended \in BOOLEAN
  BY DEF Message
<1>2. /\ Tokens("prompt", m.size) \in Seq(Token) /\ Tokens("reply", m.size) \in Seq(Token)
      /\ AnswerTokens(m.size, m.ended) \in Seq(Token) /\ GenerationPrompt \in Seq(Token)
  BY <1>1, TokensType, AnswerTokensType, GenerationPromptType DEF Token
<1>3. GenerationPrompt \o AnswerTokens(m.size, m.ended) \in Seq(Token)
  BY <1>2, ConcatProperties
<1> QED
  BY <1>2, <1>3 DEF Segment, Message

(* One more message puts its own tokens at the end.                        *)
LEMMA FullAppend ==
    ASSUME NEW M \in Seq(Message), NEW m \in Message
    PROVE  /\ FullEncoding(M) \in Seq(Token) /\ FullEncoding(Append(M, m)) \in Seq(Token)
           /\ FullEncoding(Append(M, m)) = FullEncoding(M) \o Segment(m)
<1> DEFINE s == [i \in DOMAIN M |-> Segment(M[i])]
           A == Append(M, m)
           t == [i \in DOMAIN A |-> Segment(A[i])]
<1>1. PICK n : n = Len(M)
  OBVIOUS
<1>2. /\ A \in Seq(Message) /\ Len(A) = n + 1 /\ A[n + 1] = m /\ n \in Nat
      /\ \A i \in 1..n : A[i] = M[i] /\ M[i] \in Message
  BY <1>1, AppendProperties
<1> HIDE DEF A
<1>3. DOMAIN M = 1..n /\ DOMAIN A = 1..(n + 1)
  BY <1>1, <1>2, LenProperties
<1>4. Segment(m) \in Seq(Token) /\ \A i \in 1..n : Segment(M[i]) \in Seq(Token)
  BY <1>2, SegmentType
<1>5. s \in Seq(Seq(Token)) /\ Len(s) = n /\ \A i \in 1..n : s[i] = Segment(M[i])
  BY <1>2, <1>3, <1>4
<1>6. t \in Seq(Seq(Token)) /\ Len(t) = n + 1 /\ \A i \in 1..(n + 1) : t[i] = Segment(A[i])
  <2>1. \A i \in 1..(n + 1) : Segment(A[i]) \in Seq(Token)
    BY <1>2, SegmentType, ElementOfSeq
  <2> QED
    BY <1>2, <1>3, <2>1
<1> HIDE DEF s, t
<1>7. t = Append(s, Segment(m))
  <2>1. PICK u : u = Append(s, Segment(m))
    OBVIOUS
  <2>2. /\ u \in Seq(Seq(Token)) /\ Len(u) = n + 1 /\ u[n + 1] = Segment(m)
        /\ \A i \in 1..n : u[i] = s[i]
    BY <1>4, <1>5, <2>1, AppendProperties
  <2>3. \A i \in 1..(n + 1) : t[i] = u[i]
    <3> TAKE i \in 1..(n + 1)
    <3>1. CASE i = n + 1
      BY <1>2, <1>6, <2>2, <3>1
    <3>2. CASE i # n + 1
      <4>1. i \in 1..n
        BY <1>2, <3>2
      <4> QED
        BY <1>2, <1>5, <1>6, <2>2, <4>1
    <3> QED
      BY <3>1, <3>2
  <2>4. t = u
    BY <1>6, <2>2, <2>3, SeqEqual
  <2> QED
    BY <2>1, <2>4
<1>8. FullEncoding(M) = FlattenSeq(s) /\ FullEncoding(A) = FlattenSeq(t)
  BY DEF FullEncoding, s, t
<1>9. FlattenSeq(s) \in Seq(Token) /\ FlattenSeq(Append(s, Segment(m))) = FlattenSeq(s) \o Segment(m)
  BY <1>4, <1>5, FlattenAppend
<1>10. FlattenSeq(s) \o Segment(m) \in Seq(Token)
  BY <1>4, <1>9, ConcatProperties
<1> QED
  BY <1>7, <1>8, <1>9, <1>10 DEF A

(* Two lists of the same token.                                            *)
LEMMA TokensSum ==
    ASSUME NEW S, NEW kind \in S, NEW a \in Nat, NEW b \in Nat
    PROVE  Tokens(kind, a) \o Tokens(kind, b) = Tokens(kind, a + b)
<1>1. PICK x, y, z : x = Tokens(kind, a) /\ y = Tokens(kind, b) /\ z = Tokens(kind, a + b)
  OBVIOUS
<1>2. /\ x \in Seq(S) /\ y \in Seq(S) /\ z \in Seq(S) /\ Len(x) = a /\ Len(y) = b /\ Len(z) = a + b
      /\ (\A i \in 1..a : x[i] = kind) /\ (\A i \in 1..b : y[i] = kind) /\ (\A i \in 1..(a + b) : z[i] = kind)
  BY <1>1 DEF Tokens
<1>3. /\ x \o y \in Seq(S) /\ Len(x \o y) = a + b
      /\ \A i \in 1..(a + b) : (x \o y)[i] = IF i <= a THEN x[i] ELSE y[i - a]
  BY <1>2, ConcatProperties
<1>4. \A i \in 1..(a + b) : (x \o y)[i] = z[i]
  <2> TAKE i \in 1..(a + b)
  <2>1. CASE i <= a
    BY <1>2, <1>3, <2>1
  <2>2. CASE ~(i <= a)
    <3>1. i - a \in 1..b
      BY <2>2
    <3> QED
      BY <1>2, <1>3, <2>2, <3>1
  <2> QED
    BY <2>1, <2>2
<1>5. x \o y = z
  BY <1>2, <1>3, <1>4, SeqEqual
<1> QED
  BY <1>1, <1>5

(* The tokens of n replies are n times those of one.                       *)
LEMMA FullReplies ==
    ASSUME NEW M \in Seq(Message), NEW role \in {"tool", "user"}, NEW c \in Seq(Nat)
    PROVE  FullEncoding(M \o Replies(role, c)) = FullEncoding(M) \o Tokens("reply", Len(c) * ReplyLen)
<1> DEFINE Some(k) == [i \in 1..k |-> Reply(role, c[i])]
           Right(k) == FullEncoding(M \o Some(k)) = FullEncoding(M) \o Tokens("reply", k * ReplyLen)
<1>1. PICK n \in Nat : n = Len(c)
  BY RepliesType
<1> DEFINE T == {k \in 0..n : ~Right(k)}
<1>2. ReplyLen \in Nat /\ "reply" \in Token
  BY TemplateAssumption DEF Token
<1>3. \A i \in 1..n : /\ Reply(role, c[i]) \in Message
                      /\ Segment(Reply(role, c[i])) = Tokens("reply", ReplyLen)
  <2> TAKE i \in 1..n
  <2>1. PICK m : m = Reply(role, c[i])
    OBVIOUS
  <2>2. m \in Message /\ m.role \in {"tool", "user"} /\ m.size = ReplyLen
    BY <1>1, <2>1, RepliesType DEF Reply
  <2> QED
    BY <2>1, <2>2 DEF Segment
<1>4. FullEncoding(M) \in Seq(Token)
  <2>1. [role |-> "user", size |-> 0, calls |-> 0, call |-> 0, ended |-> FALSE] \in Message
    BY DEF Message
  <2> QED
    BY <2>1, FullAppend
<1>5. Right(0)
  <2>1. Some(0) = <<>> /\ Tokens("reply", 0 * ReplyLen) = <<>>
    BY <1>2 DEF Tokens
  <2> QED
    BY <1>4, <2>1, ConcatEmptySeq
<1>6. ASSUME NEW k \in 0..n, k # n, Right(k) PROVE Right(k + 1)
  <2>0. PICK m : m = Reply(role, c[k + 1])
    OBVIOUS
  <2>1. m \in Message /\ Segment(m) = Tokens("reply", ReplyLen)
    <3>1. k + 1 \in 1..n
      BY <1>6
    <3> QED
      BY <1>3, <2>0, <3>1
  <2>2. PICK a, b : a = Some(k) /\ b = Some(k + 1)
    OBVIOUS
  <2>3. /\ a \in Seq(Message) /\ Len(a) = k /\ (\A i \in 1..k : a[i] = Reply(role, c[i]))
        /\ b \in Seq(Message) /\ Len(b) = k + 1 /\ (\A i \in 1..(k + 1) : b[i] = Reply(role, c[i]))
    <3>1. k \in Nat /\ 1..k \subseteq 1..n /\ 1..(k + 1) \subseteq 1..n
      BY <1>6
    <3> QED
      BY <1>3, <2>2, <3>1
  <2>4. b = Append(a, m)
    <3>1. PICK d : d = Append(a, m)
      OBVIOUS
    <3>2. d \in Seq(Message) /\ Len(d) = k + 1 /\ (\A i \in 1..k : d[i] = a[i]) /\ d[k + 1] = m
      BY <2>1, <2>3, <3>1, AppendProperties
    <3>3. \A i \in 1..(k + 1) : b[i] = d[i]
      BY <2>0, <2>3, <3>2
    <3> QED
      BY <2>3, <3>1, <3>2, <3>3, SeqEqual
  <2>5. M \o a \in Seq(Message)
    BY <2>3, ConcatProperties
  <2>6. M \o b = Append(M \o a, m)
    <3>1. <<m>> \in Seq(Message)
      BY <2>1
    <3>2. b = a \o <<m>>
      BY <2>1, <2>3, <2>4, AppendIsConcat
    <3>3. M \o (a \o <<m>>) = (M \o a) \o <<m>>
      BY <2>3, <3>1, ConcatAssociative
    <3>4. Append(M \o a, m) = (M \o a) \o <<m>>
      BY <2>1, <2>5, AppendIsConcat
    <3> QED
      BY <3>2, <3>3, <3>4
  <2>7. FullEncoding(M \o b) = FullEncoding(M \o a) \o Segment(m)
    BY <2>1, <2>5, <2>6, FullAppend
  <2>8. PICK x \in Nat : x = k * ReplyLen
    BY <1>2
  <2>9. (k + 1) * ReplyLen = x + ReplyLen
    BY <1>2, <2>8
  <2>10. Tokens("reply", x) \in Seq(Token) /\ Tokens("reply", ReplyLen) \in Seq(Token)
    BY <1>2, TokensType
  <2>11. Tokens("reply", x) \o Tokens("reply", ReplyLen) = Tokens("reply", x + ReplyLen)
    BY <1>2, TokensSum
  <2>12. (FullEncoding(M) \o Tokens("reply", x)) \o Tokens("reply", ReplyLen)
            = FullEncoding(M) \o (Tokens("reply", x) \o Tokens("reply", ReplyLen))
    BY <1>4, <2>10, ConcatAssociative
  <2> QED
    BY <1>6, <2>1, <2>2, <2>7, <2>8, <2>9, <2>11, <2>12
<1> HIDE DEF Right
<1>7. ASSUME T # {} PROVE FALSE
  <2>1. PICK k \in T : \A j \in T : k <= j
    <3>1. T \in SUBSET Nat
      OBVIOUS
    <3> HIDE DEF T
    <3> QED
      BY <1>7, <3>1, NatMin
  <2>2. k \in 0..n /\ ~Right(k)
    BY <2>1
  <2>3. k # 0
    BY <1>5, <2>2
  <2>4. k - 1 \in 0..n /\ k - 1 # n /\ k - 1 < k /\ (k - 1) + 1 = k
    BY <2>2, <2>3
  <2>5. k - 1 \notin T
    <3> HIDE DEF T
    <3> QED
      BY <2>1, <2>2, <2>4
  <2>6. Right(k - 1)
    BY <2>4, <2>5
  <2>7. Right((k - 1) + 1)
    BY <1>6, <2>4, <2>6
  <2> QED
    BY <2>2, <2>4, <2>7
<1>8. Right(n)
  BY <1>1, <1>7
<1>9. Some(n) = Replies(role, c)
  BY <1>1 DEF Replies
<1> HIDE DEF Some
<1> QED
  BY <1>1, <1>8, <1>9 DEF Right

-----------------------------------------------------------------------------
(* The mask of a list of tokens.                                           *)
Written == {"text", "eos", "end"}
Marked(s, m) == Len(s) = Len(m) /\ \A i \in 1..Len(s) : m[i] = 1 <=> s[i] \in Written
Ended(s) == s \in Seq(Token) /\ Len(s) >= 1 /\ s[Len(s)] # "ask"

(* A mask that fits two lists fits one after the other.                    *)
LEMMA MarkedConcat ==
    ASSUME NEW s \in Seq(Token), NEW t \in Seq(Token), NEW m \in Seq({0, 1}), NEW n \in Seq({0, 1}),
           Marked(s, m), Marked(t, n)
    PROVE  Marked(s \o t, m \o n)
<1>1. PICK a, b : a = Len(s) /\ b = Len(t)
  OBVIOUS
<1>2. a \in Nat /\ b \in Nat /\ Len(m) = a /\ Len(n) = b
  BY <1>1 DEF Marked
<1>3. /\ Len(s \o t) = a + b /\ Len(m \o n) = a + b
      /\ \A i \in 1..(a + b) : (s \o t)[i] = IF i <= a THEN s[i] ELSE t[i - a]
      /\ \A i \in 1..(a + b) : (m \o n)[i] = IF i <= a THEN m[i] ELSE n[i - a]
  <2>1. \A i \in 1..(a + b) : (s \o t)[i] = IF i <= a THEN s[i] ELSE t[i - a]
    BY <1>1, <1>2, ConcatProperties
  <2>2. \A i \in 1..(a + b) : (m \o n)[i] = IF i <= a THEN m[i] ELSE n[i - a]
    BY <1>2, ConcatProperties
  <2>3. Len(s \o t) = a + b
    BY <1>1, ConcatProperties
  <2>4. Len(m \o n) = a + b
    BY <1>2, ConcatProperties
  <2> QED
    BY <2>1, <2>2, <2>3, <2>4
<1>4. ASSUME NEW i \in 1..(a + b)
      PROVE  (m \o n)[i] = 1 <=> (s \o t)[i] \in Written
  <2>1. CASE i <= a
    <3>1. i \in 1..a
      BY <1>2, <2>1
    <3> QED
      BY <1>1, <1>3, <2>1, <3>1 DEF Marked
  <2>2. CASE ~(i <= a)
    <3>1. i - a \in 1..b
      BY <1>2, <2>2
    <3> QED
      BY <1>1, <1>3, <2>2, <3>1 DEF Marked
  <2> QED
    BY <2>1, <2>2
<1> QED
  BY <1>3, <1>4 DEF Marked

(* A mask that fits a list fits every part of it.                          *)
LEMMA MarkedPart ==
    ASSUME NEW s \in Seq(Token), NEW m \in Seq({0, 1}), Marked(s, m),
           NEW a \in Nat \ {0}, NEW b \in Nat, b <= Len(s)
    PROVE  Marked(SubSeq(s, a, b), SubSeq(m, a, b))
<1>1. Len(s) \in Nat /\ Len(m) = Len(s)
  BY DEF Marked
<1>2. CASE a <= b
  <2>1. a \in 1..Len(s) + 1 /\ b \in (a - 1)..Len(s) /\ a \in 1..Len(m) + 1 /\ b \in (a - 1)..Len(m)
    BY <1>1, <1>2
  <2>2. /\ Len(SubSeq(s, a, b)) = b - a + 1 /\ Len(SubSeq(m, a, b)) = b - a + 1
        /\ \A i \in 1..(b - a + 1) : SubSeq(s, a, b)[i] = s[a + i - 1]
        /\ \A i \in 1..(b - a + 1) : SubSeq(m, a, b)[i] = m[a + i - 1]
    BY <1>1, <1>2, <2>1, SubSeqProperties
  <2>3. ASSUME NEW i \in 1..(b - a + 1)
        PROVE  SubSeq(m, a, b)[i] = 1 <=> SubSeq(s, a, b)[i] \in Written
    <3>1. a + i - 1 \in 1..Len(s)
      BY <1>1, <1>2
    <3>2. m[a + i - 1] = 1 <=> s[a + i - 1] \in Written
      BY <3>1 DEF Marked
    <3> QED
      BY <2>2, <3>2
  <2> QED
    BY <2>2, <2>3 DEF Marked
<1>3. CASE ~(a <= b)
  <2>1. SubSeq(s, a, b) = <<>> /\ SubSeq(m, a, b) = <<>>
    BY <1>3
  <2> QED
    BY <2>1 DEF Marked
<1> QED
  BY <1>2, <1>3

(* Tokens the model did not write, under zeros.                            *)
LEMMA UnwrittenMarked ==
    ASSUME NEW kind \in Token, kind \notin Written, NEW n \in Nat
    PROVE  /\ Tokens(kind, n) \in Seq(Token) /\ Len(Tokens(kind, n)) = n
           /\ Marked(Tokens(kind, n), [i \in 1..n |-> 0])
<1>1. /\ Tokens(kind, n) \in Seq(Token) /\ Len(Tokens(kind, n)) = n
      /\ \A i \in 1..n : Tokens(kind, n)[i] = kind
  BY DEF Tokens
<1>2. PICK m : m = [i \in 1..n |-> 0]
  OBVIOUS
<1>3. Len(m) = n /\ \A i \in 1..n : m[i] = 0
  BY <1>2
<1> HIDE DEF Written
<1> QED
  BY <1>1, <1>2, <1>3 DEF Marked

(* The tokens of an answer, under ones.                                    *)
LEMMA AnswerMarked ==
    ASSUME NEW size \in Nat, NEW ended \in BOOLEAN, NEW n, n = Len(AnswerTokens(size, ended))
    PROVE  /\ Marked(AnswerTokens(size, ended), [i \in 1..n |-> 1])
           /\ AnswerTokens(size, ended) \in Seq(Token)
           /\ n \in Nat \ {0} /\ AnswerTokens(size, ended)[n] \in Written
<1>1. /\ EndLen \in Nat \ {0} /\ EndLen - 1 \in Nat
      /\ "text" \in Written /\ "end" \in Written /\ "eos" \in Written
  BY TemplateAssumption DEF Written
<1>2. /\ Tokens("text", size) \in Seq(Written)
      /\ Tokens("end", EndLen) \in Seq(Written) /\ Len(Tokens("end", EndLen)) = EndLen
      /\ Tokens("end", EndLen - 1) \in Seq(Written)
  BY <1>1, TokensType
<1>3. <<"eos">> \in Seq(Written) /\ Len(<<"eos">>) = 1
  BY <1>1
<1>4. PICK e : e = IF ended THEN <<"eos">> \o Tokens("end", EndLen - 1) ELSE Tokens("end", EndLen)
  OBVIOUS
<1>5. e \in Seq(Written) /\ Len(e) >= 1
  <2>1. <<"eos">> \o Tokens("end", EndLen - 1) \in Seq(Written)
    BY <1>2, <1>3, ConcatProperties
  <2>2. Len(<<"eos">> \o Tokens("end", EndLen - 1)) = 1 + Len(Tokens("end", EndLen - 1))
    BY <1>2, <1>3, ConcatProperties
  <2>3. Len(Tokens("end", EndLen - 1)) \in Nat
    BY <1>2, LenProperties
  <2> QED
    BY <1>1, <1>2, <1>4, <2>1, <2>2, <2>3
<1>6. AnswerTokens(size, ended) = Tokens("text", size) \o e
  BY <1>4 DEF AnswerTokens
<1>7. PICK a : a = AnswerTokens(size, ended)
  OBVIOUS
<1>8. a \in Seq(Written) /\ Len(a) = Len(Tokens("text", size)) + Len(e)
  BY <1>2, <1>5, <1>6, <1>7, ConcatProperties
<1>9. Len(Tokens("text", size)) \in Nat
  BY <1>2, LenProperties
<1>9a. Len(e) \in Nat
  BY <1>5, LenProperties
<1>10. n \in Nat \ {0} /\ n = Len(a)
  BY <1>5, <1>7, <1>8, <1>9, <1>9a
<1>11. \A i \in 1..n : a[i] \in Written
  BY <1>8, <1>10, ElementOfSeq
<1>12. PICK m : m = [i \in 1..n |-> 1]
  OBVIOUS
<1>13. Len(m) = n /\ \A i \in 1..n : m[i] = 1
  BY <1>10, <1>12
<1>14. Marked(a, m)
  BY <1>10, <1>11, <1>13 DEF Marked
<1>15. a[n] \in Written
  BY <1>10, <1>11
<1> QED
  BY <1>7, <1>10, <1>12, <1>14, <1>15, AnswerTokensType

(* A finished turn does not end with the generation prompt.                *)
LEMMA EndedNoSuffix ==
    ASSUME NEW s, Ended(s), AskLen > 0
    PROVE  ~IsSuffix(GenerationPrompt, s)
<1>1. PICK g : g = GenerationPrompt
  OBVIOUS
<1>2. g \in Seq(Token) /\ Len(g) = AskLen /\ AskLen \in Nat /\ g[AskLen] = "ask"
  BY <1>1, GenerationPromptType, TemplateAssumption DEF GenerationPrompt, Tokens
<1>3. s \in Seq(Token) /\ Len(s) \in Nat /\ Len(s) >= 1 /\ s[Len(s)] # "ask"
  BY DEF Ended
<1>4. PICK gr, sr : gr = Reverse(g) /\ sr = Reverse(s)
  OBVIOUS
<1>5. Len(gr) = AskLen /\ Len(sr) = Len(s) /\ gr[1] = "ask" /\ sr[1] = s[Len(s)]
      /\ gr \in Seq(Token) /\ sr \in Seq(Token)
  BY <1>2, <1>3, <1>4 DEF Reverse
<1>6. ASSUME IsPrefix(gr, sr) PROVE FALSE
  <2>1. /\ Len(gr) <= Len(sr) 
        /\ SubSeq(gr, 1, Len(gr)) = SubSeq(sr, 1, Len(gr))
    BY <1>6 DEF IsPrefix
  <2>2. SubSeq(gr, 1, Len(gr))[1] = gr[1]
    BY <1>2, <1>5
  <2>3. SubSeq(sr, 1, Len(gr))[1] = sr[1]
    BY <1>2, <1>3, <1>5, <2>1
  <2> QED
    BY <1>3, <1>5, <2>1, <2>2, <2>3
<1> QED
  BY <1>1, <1>4, <1>6 DEF IsSuffix

-----------------------------------------------------------------------------
(* What the tokens of a request are, by its messages.                      *)
Full(q) == FullEncoding(q.messages)
Follows(q) ==
    /\ Ended(Full(q)) /\ Marked(q.ids, q.mask)
    /\ q.ids \in {Full(q), Full(q) \o GenerationPrompt}
Exactly(q) == Follows(q) /\ q.ids = Full(q)
Asks(q) == Follows(q) /\ q.ids = Full(q) \o GenerationPrompt
SameTokens(p, q) == p.ids = q.ids /\ p.mask = q.mask /\ p.messages = q.messages

(* Only the tokens, the mask and the messages matter.                      *)
LEMMA SameFollows ==
    ASSUME NEW p, NEW q, SameTokens(p, q)
    PROVE  (Follows(p) => Follows(q)) /\ (Exactly(p) => Exactly(q)) /\ (Asks(p) => Asks(q))
<1>1. Full(p) = Full(q)
  BY DEF Full, SameTokens
<1> QED
  BY <1>1 DEF SameTokens, Follows, Exactly, Asks

(* The types of the lists of a request.                                    *)
LEMMA GoodLists ==
    ASSUME NEW q, Good(q)
    PROVE  /\ q.ids \in Seq(Token) /\ q.mask \in Seq({0, 1}) /\ Len(q.ids) = Len(q.mask)
           /\ q.messages \in Seq(Message) /\ q.promptLen \in Nat
  BY DEF Good, Aligned, RequestType

(* get_generation_prompt_ids: one generation prompt, never two.            *)
LEMMA AskFollows ==
    ASSUME NEW q, Good(q), Follows(q)
    PROVE  Asks(Ask(q))
<1>1. PICK g, f : g = GenerationPrompt /\ f = Full(q)
  OBVIOUS
<1>2. g \in Seq(Token) /\ Len(g) = AskLen /\ AskLen \in Nat
  BY <1>1, GenerationPromptType, TemplateAssumption
<1>3. f \in Seq(Token) /\ Ended(f) /\ q.ids \in {f, f \o g}
  BY <1>1 DEF Follows, Ended
<1>4. CASE IsSuffix(g, q.ids)
  <2>1. Ask(q) = q
    BY <1>1, <1>4 DEF Ask
  <2>2. q.ids = f \o g
    <3>1. CASE AskLen = 0
      <4>1. g = <<>>
        BY <1>2, <3>1, EmptySeq
      <4> QED
        BY <1>3, <4>1, ConcatEmptySeq
    <3>2. CASE AskLen # 0
      <4>1. ~IsSuffix(g, f)
        BY <1>1, <1>2, <1>3, <3>2, EndedNoSuffix
      <4> QED
        BY <1>3, <1>4, <4>1
    <3> QED
      BY <3>1, <3>2
  <2> QED
    BY <1>1, <2>1, <2>2 DEF Asks
<1>5. CASE ~IsSuffix(g, q.ids)
  <2>1. Ask(q) = Extend(q, g, 0)
    BY <1>1, <1>5 DEF Ask
  <2>2. q.ids = f
    <3>1. IsSuffix(g, f \o g)
      BY <1>2, <1>3, SuffixOfConcat
    <3> QED
      BY <1>3, <1>5, <3>1
  <2>3. PICK z : z = [i \in 1..Len(g) |-> 0]
    OBVIOUS
  <2>4. /\ Ask(q).ids = f \o g /\ Ask(q).mask = q.mask \o z /\ Ask(q).messages = q.messages
    <3>2. PICK e : e = Ask(q)
      OBVIOUS
    <3>3. e.ids = q.ids \o g /\ e.mask = q.mask \o z /\ e.messages = q.messages
      BY <2>1, <2>3, <3>2 DEF Extend, Good, RequestType
    <3> QED
      BY <2>2, <3>2, <3>3
  <2>5. Marked(g, z) /\ z \in Seq({0, 1})
    <3>1. "ask" \in Token /\ "ask" \notin Written
      BY DEF Token, Written
    <3>2. Marked(g, z)
      BY <1>1, <1>2, <2>3, <3>1, UnwrittenMarked DEF GenerationPrompt
    <3>3. z \in Seq({0, 1})
      BY <1>2, <2>3
    <3> QED
      BY <3>2, <3>3
  <2>6. Marked(q.ids, q.mask) /\ q.mask \in Seq({0, 1})
    BY GoodLists DEF Follows
  <2>7. Marked(f \o g, q.mask \o z)
    BY <1>2, <1>3, <2>2, <2>5, <2>6, MarkedConcat
  <2>8. Full(Ask(q)) = f
    BY <1>1, <2>4 DEF Full
  <2> QED
    BY <1>1, <1>3, <2>4, <2>7, <2>8 DEF Asks, Follows
<1> QED
  BY <1>4, <1>5

(* What is put after a finished turn ends it again.                        *)
LEMMA EndedConcat ==
    ASSUME NEW s, NEW t \in Seq(Token), Ended(s), t # <<>> => t[Len(t)] # "ask"
    PROVE  Ended(s \o t)
<1>1. s \in Seq(Token) /\ Len(s) \in Nat /\ Len(s) >= 1 /\ Len(t) \in Nat /\ s[Len(s)] # "ask"
  BY DEF Ended
<1>2. PICK u : u = s \o t
  OBVIOUS
<1>3. u \in Seq(Token) /\ Len(u) = Len(s) + Len(t)
      /\ \A i \in 1..(Len(s) + Len(t)) : u[i] = IF i <= Len(s) THEN s[i] ELSE t[i - Len(s)]
  BY <1>1, <1>2, ConcatProperties
<1>4. CASE Len(t) = 0
  <2>1. u[Len(u)] = s[Len(s)]
    BY <1>1, <1>3, <1>4
  <2> QED
    BY <1>1, <1>2, <1>3, <1>4, <2>1 DEF Ended
<1>5. CASE Len(t) # 0
  <2>1. u[Len(u)] = t[Len(t)]
    BY <1>1, <1>3, <1>5
  <2>2. t # <<>>
    BY <1>5
  <2>3. Len(u) >= 1
    BY <1>1, <1>3
  <2> QED
    BY <1>2, <1>3, <2>1, <2>2, <2>3 DEF Ended
<1> QED
  BY <1>4, <1>5

(* add_assistant_message, after the generation prompt.                     *)
LEMMA AnswerFollows ==
    ASSUME NEW q, Good(q), Asks(q), NEW size \in Nat, NEW n \in Nat, NEW ended \in BOOLEAN
    PROVE  /\ Exactly(AddAnswer(q, size, n, ended))
           /\ AddAnswer(q, size, n, ended).messages
                = Append(q.messages, [role |-> "assistant", size |-> size, calls |-> n, call |-> 0, ended |-> ended])
           /\ AddAnswer(q, size, n, ended).promptLen = q.promptLen
<1>1. PICK msg : msg = [role |-> "assistant", size |-> size, calls |-> n, call |-> 0, ended |-> ended]
  OBVIOUS
<1>2. PICK p : p = [q EXCEPT !.messages = Append(q.messages, msg)]
  OBVIOUS
<1>3. msg \in Message /\ q.messages \in Seq(Message) /\ q \in RequestType
  BY <1>1, GoodLists DEF Message, Good
<1>4. PICK t, k : t = AnswerTokens(size, ended) /\ k = Len(t)
  OBVIOUS
<1>5. PICK o : o = [i \in 1..Len(t) |-> 1]
  OBVIOUS
<1>6. /\ t \in Seq(Token) /\ k \in Nat \ {0} /\ Marked(t, o) /\ t[k] \in Written
  BY <1>4, <1>5, AnswerMarked
<1>7. AddAnswer(q, size, n, ended) = Extend(p, t, 1)
  BY <1>1, <1>2, <1>3, <1>4 DEF AddAnswer, RequestType
<1>8. Append(q.messages, msg) \in Seq(Message)
  BY <1>3, AppendProperties
<1>9. /\ Good(p) /\ p.messages = Append(q.messages, msg) /\ p.ids = q.ids /\ p.mask = q.mask
      /\ p.promptLen = q.promptLen
  BY <1>2, <1>3, <1>8 DEF Good, Aligned, RequestType
<1>10. PICK a : a = AddAnswer(q, size, n, ended)
  OBVIOUS
<1>11. /\ a.ids = q.ids \o t /\ a.mask = q.mask \o o /\ a.messages = Append(q.messages, msg)
       /\ a.promptLen = q.promptLen
  <2>1. a = Extend(p, t, 1)
    BY <1>7, <1>10
  <2>3. a.ids = p.ids \o t /\ a.mask = p.mask \o o /\ a.messages = p.messages /\ a.promptLen = p.promptLen
    BY <1>5, <1>9, <2>1 DEF Extend, Good, RequestType
  <2> QED
    BY <1>9, <2>3
<1>12. PICK f, g : f = Full(q) /\ g = GenerationPrompt
  OBVIOUS
<1>13. f \in Seq(Token) /\ g \in Seq(Token) /\ Ended(f) /\ q.ids = f \o g
  BY <1>12, GenerationPromptType DEF Asks, Follows, Ended
<1>14. Full(a) = a.ids /\ Ended(a.ids)
  <2>1. Segment(msg) = g \o t
    BY <1>1, <1>4, <1>12 DEF Segment
  <2>2. Full(a) = f \o (g \o t)
    BY <1>3, <1>11, <1>12, <2>1, FullAppend DEF Full
  <2>3. f \o (g \o t) = (f \o g) \o t
    BY <1>6, <1>13, ConcatAssociative
  <2>4. g \o t \in Seq(Token) /\ Len(g) \in Nat /\ Len(g \o t) = Len(g) + k
        /\ (g \o t)[Len(g) + k] = t[k]
    BY <1>4, <1>6, <1>13
  <2>5. Ended(f \o (g \o t))
    <3>1. t[k] # "ask"
      BY <1>6 DEF Written
    <3> QED
      BY <1>13, <2>4, <3>1, EndedConcat
  <2> QED
    BY <1>11, <1>13, <2>2, <2>3, <2>5
<1>15. Marked(a.ids, a.mask)
  <2>1. q.ids \in Seq(Token) /\ q.mask \in Seq({0, 1}) /\ Marked(q.ids, q.mask)
    BY GoodLists DEF Asks, Follows
  <2>2. o \in Seq({0, 1})
    BY <1>5, <1>6
  <2> QED
    BY <1>6, <1>11, <2>1, <2>2, MarkedConcat
<1> QED
  BY <1>1, <1>10, <1>11, <1>14, <1>15 DEF Exactly, Follows

(* add_tool_response_messages and add_user_message.                        *)
LEMMA RepliesFollow ==
    ASSUME NEW q, Good(q), Exactly(q), NEW role \in {"tool", "user"}, NEW c \in Seq(Nat)
    PROVE  /\ Exactly(AddReplies(q, role, c))
           /\ AddReplies(q, role, c).messages = q.messages \o Replies(role, c)
           /\ AddReplies(q, role, c).promptLen = q.promptLen
<1>1. PICK new : new = Replies(role, c)
  OBVIOUS
<1>2. PICK p : p = [q EXCEPT !.messages = q.messages \o new]
  OBVIOUS
<1>3. new \in Seq(Message) /\ q.messages \in Seq(Message) /\ q \in RequestType
  BY <1>1, GoodLists, RepliesType DEF Good
<1>4. PICK k \in Nat : k = Len(c) * ReplyLen
  BY RepliesType, TemplateAssumption
<1>5a. PICK t : t = Tokens("reply", k)
  OBVIOUS
<1>5b. Len(t) = k
  BY <1>5a DEF Tokens
<1>5c. PICK z : z = [i \in 1..Len(t) |-> 0]
  OBVIOUS
<1>5. z = [i \in 1..k |-> 0]
  BY <1>5b, <1>5c
<1>6. t \in Seq(Token) /\ Len(t) = k /\ Marked(t, z) /\ z \in Seq({0, 1})
      /\ (t # <<>> => t[Len(t)] # "ask")
  <2>1. "reply" \in Token /\ "reply" \notin Written
    BY DEF Token, Written
  <2>2. t \in Seq(Token) /\ Len(t) = k /\ Marked(t, z)
    BY <1>5, <1>5a, <2>1, UnwrittenMarked
  <2>3. z \in Seq({0, 1})
    BY <1>5
  <2>4. ASSUME t # <<>> PROVE t[k] = "reply"
    <3>1. k # 0
      BY <2>2, <2>4, EmptySeq
    <3>2. k \in 1..k
      BY <3>1
    <3> QED
      BY <1>5a, <3>2 DEF Tokens
  <2> QED
    BY <2>2, <2>3, <2>4
<1>7. AddReplies(q, role, c) = Extend(p, t, 0)
  BY <1>1, <1>2, <1>3, <1>4, <1>5a DEF AddReplies, RequestType, Replies
<1>8. q.messages \o new \in Seq(Message)
  BY <1>3, ConcatProperties
<1>9. /\ Good(p) /\ p.messages = q.messages \o new /\ p.ids = q.ids /\ p.mask = q.mask
      /\ p.promptLen = q.promptLen
  BY <1>2, <1>3, <1>8 DEF Good, Aligned, RequestType
<1>10. PICK a : a = AddReplies(q, role, c)
  OBVIOUS
<1>11. /\ a.ids = q.ids \o t /\ a.mask = q.mask \o z /\ a.messages = q.messages \o new
       /\ a.promptLen = q.promptLen
  <2>1. a = Extend(p, t, 0)
    BY <1>7, <1>10
  <2>3. a.ids = p.ids \o t /\ a.mask = p.mask \o z /\ a.messages = p.messages /\ a.promptLen = p.promptLen
    BY <1>5c, <1>9, <2>1 DEF Extend, Good, RequestType
  <2> QED
    BY <1>9, <2>3
<1>12. Full(a) = a.ids /\ Ended(a.ids)
  <2>1. Full(a) = Full(q) \o t
    BY <1>1, <1>3, <1>4, <1>5a, <1>11, FullReplies DEF Full
  <2>2. Ended(Full(q)) /\ q.ids = Full(q)
    BY DEF Exactly, Follows
  <2>3. Ended(Full(q) \o t)
    BY <1>6, <2>2, EndedConcat
  <2> QED
    BY <1>11, <2>1, <2>2, <2>3
<1>13. Marked(a.ids, a.mask)
  <2>1. q.ids \in Seq(Token) /\ q.mask \in Seq({0, 1}) /\ Marked(q.ids, q.mask)
    BY GoodLists DEF Exactly, Follows
  <2> QED
    BY <1>6, <1>11, <2>1, MarkedConcat
<1> QED
  BY <1>1, <1>10, <1>11, <1>12, <1>13 DEF Exactly, Follows

(* finalize takes back an unanswered generation prompt and nothing else.   *)
LEMMA StripFollows ==
    ASSUME NEW q, Good(q), Follows(q)
    PROVE  /\ Exactly(Strip(q)) /\ Strip(q).messages = q.messages /\ Strip(q).promptLen = q.promptLen
<1>1. PICK g, f : g = GenerationPrompt /\ f = Full(q)
  OBVIOUS
<1>2. g \in Seq(Token) /\ Len(g) = AskLen /\ AskLen \in Nat
  BY <1>1, GenerationPromptType, TemplateAssumption
<1>3. f \in Seq(Token) /\ Ended(f) /\ q.ids \in {f, f \o g} /\ Marked(q.ids, q.mask)
  BY <1>1 DEF Follows, Ended
<1>4. q \in RequestType /\ q.ids \in Seq(Token) /\ q.mask \in Seq({0, 1})
  BY GoodLists DEF Good
<1>5. CASE ~IsSuffix(g, q.ids)
  <2>1. Strip(q) = q
    BY <1>1, <1>5 DEF Strip
  <2>2. q.ids = f
    <3>1. IsSuffix(g, f \o g)
      BY <1>2, <1>3, SuffixOfConcat
    <3> QED
      BY <1>3, <1>5, <3>1
  <2> QED
    BY <1>1, <2>1, <2>2 DEF Exactly
<1>6. CASE IsSuffix(g, q.ids)
  <2>1. q.ids = f \o g
    <3>1. CASE AskLen = 0
      <4>1. g = <<>>
        BY <1>2, <3>1, EmptySeq
      <4> QED
        BY <1>3, <4>1, ConcatEmptySeq
    <3>2. CASE AskLen # 0
      <4>1. ~IsSuffix(g, f)
        BY <1>1, <1>2, <1>3, <3>2, EndedNoSuffix
      <4> QED
        BY <1>3, <1>6, <4>1
    <3> QED
      BY <3>1, <3>2
  <2>2. PICK n \in Nat : n = Len(f)
    BY <1>3
  <2>3. Len(q.ids) = n + AskLen /\ Len(q.ids) - AskLen = n /\ n <= Len(q.ids)
    <3>1. Len(f \o g) = n + AskLen
      BY <1>2, <1>3, <2>2, ConcatProperties
    <3>2. Len(q.ids) = n + AskLen
      BY <2>1, <3>1
    <3> QED
      BY <1>2, <3>2
  <2>4. PICK ids, mask : ids = SubSeq(q.ids, 1, n) /\ mask = SubSeq(q.mask, 1, n)
    OBVIOUS
  <2>5. Strip(q) = [q EXCEPT !.ids = ids, !.mask = mask]
    <3>1. Strip(q) = [q EXCEPT !.ids = SubSeq(q.ids, 1, Len(q.ids) - AskLen),
                               !.mask = SubSeq(q.mask, 1, Len(q.mask) - AskLen)]
      BY <1>1, <1>4, <1>6 DEF Strip, RequestType
    <3>2. Len(q.ids) - AskLen = n /\ Len(q.mask) - AskLen = n
      BY <2>3, GoodLists
    <3>3. [q EXCEPT !.ids = SubSeq(q.ids, 1, Len(q.ids) - AskLen), !.mask = SubSeq(q.mask, 1, Len(q.mask) - AskLen)]
            = [q EXCEPT !.ids = SubSeq(q.ids, 1, n), !.mask = SubSeq(q.mask, 1, n)]
      BY <3>2
    <3> QED
      BY <2>4, <3>1, <3>3
  <2>6. /\ Strip(q).ids = ids /\ Strip(q).mask = mask /\ Strip(q).messages = q.messages
        /\ Strip(q).promptLen = q.promptLen
    BY <1>4, <2>5 DEF RequestType
  <2>7. Marked(ids, mask)
    BY <1>3, <1>4, <2>2, <2>3, <2>4, MarkedPart
  <2>8. ids = f
    <3>1. ids \in Seq(Token) /\ Len(ids) = n /\ \A i \in 1..n : ids[i] = (f \o g)[i]
      BY <1>4, <2>1, <2>2, <2>3, <2>4
    <3>2. \A i \in 1..n : (f \o g)[i] = f[i]
      BY <1>2, <1>3, <2>2
    <3>3. \A i \in 1..n : ids[i] = f[i]
      BY <3>1, <3>2
    <3> QED
      BY <1>3, <2>2, <3>1, <3>3, SeqEqual
  <2>9. Full(Strip(q)) = f
    BY <1>1, <2>6 DEF Full
  <2> QED
    BY <1>3, <2>6, <2>7, <2>8, <2>9 DEF Exactly, Follows
<1> QED
  BY <1>5, <1>6

-----------------------------------------------------------------------------
(* Which message answers which.                                            *)
Replied(M) ==
    \A i \in DOMAIN M :
        /\ M[i].calls > 0 /\ i # Len(M) =>
            /\ i + M[i].calls <= Len(M)
            /\ \A j \in 1..M[i].calls : M[i + j].role = "tool" /\ M[i + j].call = j
        /\ M[i].role = "tool" => \E j \in 1..(i - 1) : j + M[j].calls >= i

(* The messages of a list.                                                 *)
LEMMA MessagesOf ==
    ASSUME NEW M \in Seq(Message)
    PROVE  /\ DOMAIN M = 1..Len(M) /\ Len(M) \in Nat
           /\ \A i \in 1..Len(M) : M[i] \in Message /\ M[i].calls \in Nat
<1>1. DOMAIN M = 1..Len(M) /\ Len(M) \in Nat
  BY LenProperties
<1>2. \A i \in 1..Len(M) : M[i] \in Message
  BY ElementOfSeq
<1> QED
  BY <1>1, <1>2 DEF Message

(* An answer after a message that called no tool.                          *)
LEMMA RepliedAppend ==
    ASSUME NEW M \in Seq(Message), M # <<>>, Replied(M), M[Len(M)].calls = 0,
           NEW m \in Message, m.role # "tool"
    PROVE  Replied(Append(M, m)) /\ Last(Append(M, m)) = m
<1>1. PICK N, n : N = Append(M, m) /\ n = Len(M)
  OBVIOUS
<1>2. /\ N \in Seq(Message) /\ Len(N) = n + 1 /\ N[n + 1] = m /\ n \in Nat /\ n # 0
      /\ \A i \in 1..n : N[i] = M[i]
  BY <1>1, AppendProperties, EmptySeq, LenProperties
<1>3. DOMAIN M = 1..n /\ \A i \in 1..n : M[i] \in Message /\ M[i].calls \in Nat
  BY <1>1, MessagesOf
<1>4. DOMAIN N = 1..(n + 1)
  BY <1>2, MessagesOf
<1>5. ASSUME NEW i \in 1..(n + 1), N[i].calls > 0, i # n + 1
      PROVE  /\ i + N[i].calls <= n + 1
             /\ \A j \in 1..N[i].calls : N[i + j].role = "tool" /\ N[i + j].call = j
  <2>1. i \in 1..n /\ N[i] = M[i]
    BY <1>2, <1>5
  <2>2. i # n
    BY <1>1, <1>5, <2>1
  <2>3. /\ i + M[i].calls <= n
        /\ \A j \in 1..M[i].calls : M[i + j].role = "tool" /\ M[i + j].call = j
    BY <1>1, <1>3, <1>5, <2>1, <2>2 DEF Replied
  <2>4. \A j \in 1..M[i].calls : i + j \in 1..n
    BY <1>2, <1>3, <2>1, <2>3
  <2>5. i + M[i].calls <= n + 1
    BY <1>2, <1>3, <2>1, <2>3
  <2> QED
    BY <1>2, <2>1, <2>3, <2>4, <2>5
<1>6. ASSUME NEW i \in 1..(n + 1), N[i].role = "tool"
      PROVE  \E j \in 1..(i - 1) : j + N[j].calls >= i
  <2>1. i # n + 1
    BY <1>2, <1>6
  <2>2. i \in 1..n /\ N[i] = M[i]
    BY <1>2, <2>1
  <2>3. PICK j \in 1..(i - 1) : j + M[j].calls >= i
    BY <1>3, <1>6, <2>2 DEF Replied
  <2>4. j \in 1..n
    BY <1>2, <2>2
  <2> QED
    BY <1>2, <2>3, <2>4
<1>7. Replied(N)
  BY <1>2, <1>4, <1>5, <1>6 DEF Replied
<1> QED
  BY <1>1, <1>2, <1>7 DEF Last

(* The replies to all calls of message m, in their order, or of the user.  *)
Answers(m, role, c) ==
    /\ role = "tool" => Len(c) = m.calls /\ \A j \in 1..Len(c) : c[j] = j
    /\ role = "user" => m.calls = 0

LEMMA RepliedReplies ==
    ASSUME NEW M \in Seq(Message), M # <<>>, Replied(M),
           NEW role \in {"tool", "user"}, NEW c \in Seq(Nat), Answers(M[Len(M)], role, c)
    PROVE  /\ Replied(M \o Replies(role, c)) /\ Last(M \o Replies(role, c)).calls = 0
           /\ M \o Replies(role, c) # <<>>
<1>1. PICK R, N, k, n : R = Replies(role, c) /\ N = M \o R /\ k = Len(M) /\ n = Len(c)
  OBVIOUS
<1>2. /\ R \in Seq(Message) /\ Len(R) = n /\ n \in Nat
      /\ \A i \in 1..n : R[i] = Reply(role, c[i]) /\ R[i] \in Message
  BY <1>1, RepliesType
<1>3. \A i \in 1..n : R[i].role = role /\ R[i].calls = 0 /\ R[i].call = c[i]
  BY <1>2 DEF Reply
<1>4. k \in Nat /\ k # 0
  BY <1>1, EmptySeq, LenProperties
<1>5. /\ N \in Seq(Message) /\ Len(N) = k + n
      /\ \A i \in 1..(k + n) : N[i] = IF i <= k THEN M[i] ELSE R[i - k]
  <2>1. R \in Seq(Message) /\ Len(R) = n
    BY <1>2
  <2> QED
    BY <1>1, <2>1, ConcatProperties
<1>6. /\ \A i \in 1..k : N[i] = M[i]
      /\ \A i \in (k + 1)..(k + n) : N[i].role = role /\ N[i].calls = 0 /\ N[i].call = c[i - k]
  <2>1. ASSUME NEW i \in 1..k PROVE N[i] = M[i]
    BY <1>2, <1>4, <1>5
  <2>2. ASSUME NEW i \in (k + 1)..(k + n)
        PROVE  N[i].role = role /\ N[i].calls = 0 /\ N[i].call = c[i - k]
    <3>1. i - k \in 1..n /\ ~(i <= k) /\ i \in 1..(k + n)
      BY <1>2, <1>4
    <3>2. N[i] = R[i - k]
      BY <1>5, <3>1
    <3> QED
      BY <1>3, <3>1, <3>2
  <2> QED
    BY <2>1, <2>2
<1>7. DOMAIN M = 1..k /\ \A i \in 1..k : M[i] \in Message /\ M[i].calls \in Nat
  BY <1>1, MessagesOf
<1>8. DOMAIN N = 1..(k + n)
  BY <1>5, MessagesOf
<1>9. ASSUME NEW i \in 1..(k + n), N[i].calls > 0, i # k + n
      PROVE  /\ i + N[i].calls <= k + n
             /\ \A j \in 1..N[i].calls : N[i + j].role = "tool" /\ N[i + j].call = j
  <2>1. i \in 1..k
    <3>1. CASE i > k
      <4>1. i \in (k + 1)..(k + n)
        BY <1>4, <3>1
      <4> QED
        BY <1>6, <1>9, <4>1
    <3> QED
      BY <1>4, <3>1
  <2>2. N[i] = M[i]
    BY <1>6, <2>1
  <2>3. CASE i # k
    <3>1. /\ i + M[i].calls <= k
          /\ \A j \in 1..M[i].calls : M[i + j].role = "tool" /\ M[i + j].call = j
      BY <1>1, <1>7, <1>9, <2>1, <2>2, <2>3 DEF Replied
    <3>2. \A j \in 1..M[i].calls : i + j \in 1..k
      BY <1>4, <1>7, <2>1, <3>1
    <3>3. i + M[i].calls <= k + n
      <4>1. M[i].calls \in Nat /\ i + M[i].calls <= k
        BY <1>7, <2>1, <3>1
      <4> QED
        BY <1>2, <1>4, <4>1
    <3> QED
      BY <1>6, <2>2, <3>1, <3>2, <3>3
  <2>4. CASE i = k
    <3>1. role = "tool" /\ M[i].calls = n /\ \A j \in 1..n : c[j] = j
      BY <1>1, <1>9, <2>2, <2>4 DEF Answers
    <3>2. ASSUME NEW j \in 1..n PROVE N[k + j].role = "tool" /\ N[k + j].call = j
      <4>1. k + j \in (k + 1)..(k + n) /\ (k + j) - k = j
        BY <1>2, <1>4
      <4> QED
        BY <1>6, <3>1, <4>1
    <3> QED
      BY <1>2, <1>4, <2>2, <2>4, <3>1, <3>2
  <2> QED
    BY <2>3, <2>4
<1>10. ASSUME NEW i \in 1..(k + n), N[i].role = "tool"
       PROVE  \E j \in 1..(i - 1) : j + N[j].calls >= i
  <2>1. CASE i <= k
    <3>1. i \in 1..k /\ N[i] = M[i]
      BY <1>4, <1>6, <2>1
    <3>2. PICK j \in 1..(i - 1) : j + M[j].calls >= i
      BY <1>7, <1>10, <3>1 DEF Replied
    <3>3. j \in 1..k
      BY <1>4, <3>1
    <3> QED
      BY <1>6, <3>2, <3>3
  <2>2. CASE ~(i <= k)
    <3>1. i \in (k + 1)..(k + n)
      BY <1>4, <2>2
    <3>2. role = "tool"
      BY <1>6, <1>10, <3>1
    <3>3. N[k] = M[k] /\ M[k].calls = n
      BY <1>1, <1>4, <1>6, <3>2 DEF Answers
    <3>4. k \in 1..(i - 1) /\ k + n >= i
      BY <1>4, <3>1
    <3> QED
      BY <3>3, <3>4
  <2> QED
    BY <2>1, <2>2
<1>11. Replied(N)
  BY <1>5, <1>8, <1>9, <1>10 DEF Replied
<1>12. N[k + n].calls = 0
  <2>1. CASE n = 0
    <3>1. N[k + n] = M[k] /\ M[k].calls = 0
      <4>1. k + n = k /\ k \in 1..k
        BY <1>4, <2>1
      <4> QED
        BY <1>1, <1>6, <2>1, <4>1 DEF Answers
    <3> QED
      BY <3>1
  <2>2. CASE n # 0
    <3>1. k + n \in (k + 1)..(k + n)
      BY <1>2, <1>4, <2>2
    <3> QED
      BY <1>6, <3>1
  <2> QED
    BY <1>2, <2>1, <2>2
<1>13. N # <<>>
  BY <1>2, <1>4, <1>5, EmptySeq
<1> QED
  BY <1>1, <1>5, <1>11, <1>12, <1>13 DEF Last

-----------------------------------------------------------------------------
(* The invariant of the contents of a request.                             *)
Delivered(q) ==
    /\ q.response = Response(Cut(Full(q)), q.promptLen)
    /\ Marked(q.response, q.responseMask) /\ Len(q.ids) <= MaxModelLen
Content(q) ==
    /\ q.at # "done" => Follows(q)
    /\ q.at = "engine" => Asks(q)
    /\ q.at = "loop" /\ q.state \in {"tool_calling", "interacting"} => Exactly(q)
    /\ q.at = "done" => Delivered(q)
Gathering(q) ==
    /\ Len(q.results) = q.messages[Len(q.messages)].calls
    /\ \A j \in 1..Len(q.results) : q.results[j] \in {0, j}
Calls(q) ==
    /\ Replied(q.messages)
    /\ q.at = "loop" /\ q.state = "tool_calling" => Gathering(q)
    /\ (q.at = "engine" \/ (q.at = "loop" /\ q.state # "tool_calling"))
            => q.messages[Len(q.messages)].calls = 0
Told(q) == Content(q) /\ Calls(q)
AllTold == \A r \in Requests : Told(req[r])

(* Replacing one request by another that is told.                          *)
LEMMA ContinueTold ==
    ASSUME Inv, AllTold, NEW r \in Requests, NEW q, Told(q), Continue(r, q)
    PROVE  AllTold'
<1>1. /\ req \in [Requests -> RequestType] /\ req' = [req EXCEPT ![r] = q]
  BY DEF Inv, TypeOK, Continue
<1>2. \A s \in Requests : Told(req'[s])
  <2> TAKE s \in Requests
  <2>1. CASE s = r
    BY <1>1, <2>1
  <2>2. CASE s # r
    <3>1. req'[s] = req[s] /\ Told(req[s])
      BY <1>1, <2>2 DEF AllTold
    <3> QED
      BY <3>1
  <2> QED
    BY <2>1, <2>2
<1> QED
  BY <1>2 DEF AllTold

(* Out of the loop.                                                        *)
LEMMA LeaveTold ==
    ASSUME NEW q, Good(q), Follows(q), Replied(q.messages), NEW f
    PROVE  Told(Leave(q, f))
<1>1. PICK e : e = Leave(q, f)
  OBVIOUS
<1>2. e.at = "leaving" /\ SameTokens(q, e)
  BY <1>1 DEF Leave, Good, RequestType, SameTokens
<1>3. Follows(e)
  BY <1>2, SameFollows
<1> QED
  BY <1>1, <1>2, <1>3 DEF Told, Content, Calls, SameTokens

(* On with the answer to a reply, or out.                                  *)
LEMMA RunOrStopTold ==
    ASSUME NEW q, Good(q), q.at = "loop", Follows(q), Replied(q.messages), q.messages[Len(q.messages)].calls = 0
    PROVE  Told(RunOrStop(q))
<1>1. CASE Len(q.ids) >= MaxModelLen
  BY <1>1, LeaveTold DEF RunOrStop
<1>2. CASE ~(Len(q.ids) >= MaxModelLen)
  <2>1. PICK e : e = RunOrStop(q)
    OBVIOUS
  <2>2. e.at = "loop" /\ e.state = "running" /\ SameTokens(q, e)
    BY <1>2, <2>1 DEF RunOrStop, Good, RequestType, SameTokens
  <2>3. Follows(e)
    BY <2>2, SameFollows
  <2> QED
    BY <2>1, <2>2, <2>3 DEF Told, Content, Calls, SameTokens
<1> QED
  BY <1>1, <1>2

(* truncate_output_ids, on the tokens of the conversation.                 *)
LEMMA DeliveredByTruncate ==
    ASSUME NEW q, Good(q), Exactly(q), NEW e, e = [Truncate(q) EXCEPT !.at = "done", !.state = "completed"]
    PROVE  Delivered(e) /\ e.messages = q.messages /\ e.at = "done"
<1>1. q.ids \in Seq(Token) /\ q.mask \in Seq({0, 1}) /\ Len(q.ids) = Len(q.mask) /\ q.promptLen \in Nat
      /\ q \in RequestType
  BY GoodLists DEF Good
<1>2. PICK ids, mask : ids = Cut(q.ids) /\ mask = Cut(q.mask)
  OBVIOUS
<1>3. PICK resp, respMask : resp = Response(ids, q.promptLen) /\ respMask = Response(mask, q.promptLen)
  OBVIOUS
<1>4. /\ e.ids = ids /\ e.response = resp /\ e.responseMask = respMask /\ e.messages = q.messages
      /\ e.promptLen = q.promptLen /\ e.at = "done"
  BY <1>1, <1>2, <1>3 DEF Truncate, RequestType
<1>5. ids \in Seq(Token) /\ mask \in Seq({0, 1}) /\ Len(ids) = Lesser(Len(q.ids), MaxRequestLen)
      /\ Len(mask) = Lesser(Len(q.mask), MaxRequestLen)
  BY <1>1, <1>2, CutType
<1>6. PICK n \in Nat : n = Lesser(Len(q.ids), MaxRequestLen)
  BY <1>1, LengthAssumption DEF Lesser, MaxRequestLen
<1>7. n <= Len(q.ids) /\ n <= MaxModelLen
  BY <1>1, <1>6, LengthAssumption DEF Lesser, MaxRequestLen
<1>8. Marked(q.ids, q.mask)
  BY DEF Exactly, Follows
<1>9. Marked(ids, mask)
  <2>1. ids = SubSeq(q.ids, 1, n) /\ mask = SubSeq(q.mask, 1, n)
    BY <1>1, <1>2, <1>6 DEF Cut
  <2>2. 1 \in Nat \ {0}
    OBVIOUS
  <2> QED
    BY <1>1, <1>7, <1>8, <2>1, <2>2, MarkedPart
<1>10. PICK k \in Nat : k = Lesser(Len(ids), q.promptLen + ResponseLength)
  BY <1>1, <1>5, LengthAssumption DEF Lesser
<1>11. Marked(resp, respMask)
  <2>1. Len(mask) = Len(ids) /\ Len(ids) \in Nat
    BY <1>1, <1>5, <1>6
  <2>2. resp = SubSeq(ids, q.promptLen + 1, k) /\ respMask = SubSeq(mask, q.promptLen + 1, k)
    BY <1>3, <1>10, <2>1 DEF Response
  <2>3. q.promptLen + 1 \in Nat \ {0} /\ k <= Len(ids)
    BY <1>1, <1>10, <2>1, LengthAssumption DEF Lesser
  <2> QED
    BY <1>5, <1>9, <2>2, <2>3, MarkedPart
<1>12. Len(ids) <= MaxModelLen
  BY <1>5, <1>6, <1>7
<1>13. Full(e) = q.ids
  BY <1>4 DEF Full, Exactly
<1> QED
  BY <1>2, <1>3, <1>4, <1>11, <1>12, <1>13 DEF Delivered

(* A new request: its prompt and the generation prompt.                    *)
LEMMA InitTold == Init => AllTold
<1> SUFFICES ASSUME Init, NEW r \in Requests PROVE Told(req[r])
  BY DEF AllTold
<1>1. PICK size \in [Requests -> PromptSizes] : req = [s \in Requests |-> NewRequest(size[s])]
  BY DEF Init
<1>2. PICK n : n = size[r]
  OBVIOUS
<1>3. n \in Nat \ {0} /\ req[r] = NewRequest(n) /\ AskLen \in Nat
  BY <1>1, <1>2, TemplateAssumption
<1>4. PICK q : q = req[r]
  OBVIOUS
<1>5. PICK m, M, p, g : /\ m = [role |-> "prompt", size |-> n, calls |-> 0, call |-> 0, ended |-> FALSE] /\ M = <<m>>
                        /\ p = Tokens("prompt", n) /\ g = GenerationPrompt
  OBVIOUS
<1>6. /\ q.messages = M /\ q.ids = p \o g /\ q.mask = Tokens(0, n + AskLen) /\ q.at = "loop"
      /\ q.state = "pending"
  <2>1. q.messages = <<[role |-> "prompt", size |-> n, calls |-> 0, call |-> 0, ended |-> FALSE]>>
    <3>1. q = NewRequest(n)
      BY <1>3, <1>4
    <3> QED
      BY <3>1, Zenon DEF NewRequest
  <2>2. q.messages = M
    BY <1>5, <2>1, Zenon
  <2>3. q.ids = Tokens("prompt", n) \o GenerationPrompt
    BY <1>3, <1>4 DEF NewRequest
  <2>4. q.mask = Tokens(0, n + AskLen) /\ q.at = "loop" /\ q.state = "pending"
    BY <1>3, <1>4 DEF NewRequest
  <2> QED
    BY <1>5, <2>2, <2>3, <2>4
<1>7. m \in Message /\ m.calls = 0 /\ m.role = "prompt" /\ M \in Seq(Message) /\ Len(M) = 1 /\ M[1] = m
  BY <1>3, <1>5 DEF Message
<1>8. p \in Seq(Token) /\ Len(p) = n /\ p[n] # "ask" /\ g \in Seq(Token) /\ Len(g) = AskLen
  <2>1. "prompt" \in Token
    BY DEF Token
  <2>2. p \in Seq(Token) /\ Len(p) = n
    BY <1>3, <1>5, <2>1, TokensType
  <2>3. n \in 1..n
    BY <1>3
  <2>4. p[n] = "prompt"
    BY <1>5, <2>3 DEF Tokens
  <2> QED
    BY <1>5, <2>2, <2>4, GenerationPromptType
<1>9. FullEncoding(M) = p
  <2>1. PICK z : z = [i \in DOMAIN M |-> Segment(M[i])]
    OBVIOUS
  <2>2. Segment(m) = p
    BY <1>5 DEF Segment
  <2>3. DOMAIN M = 1..1 /\ Len(z) = 1 /\ z[1] = p /\ z \in Seq(Seq(Token)) /\ z # <<>>
    <3>1. DOMAIN M = 1..1
      BY <1>7
    <3>2. z = [i \in 1..1 |-> Segment(M[i])]
      BY <2>1, <3>1
    <3>3. \A i \in 1..1 : Segment(M[i]) = p
      BY <1>7, <2>2
    <3>4. z \in [1..1 -> Seq(Token)] /\ z[1] = p
      BY <1>8, <3>2, <3>3
    <3>5. z \in Seq(Seq(Token)) /\ Len(z) = 1
      <4>1. PICK k \in Nat : k = 1
        OBVIOUS
      <4>2. z \in [1..k -> Seq(Token)]
        BY <3>4, <4>1
      <4>3. z \in Seq(Seq(Token)) /\ Len(z) = k
        BY <4>2
      <4> QED
        BY <4>1, <4>3
    <3>6. z # <<>>
      <4>1. Len(<<>>) = 0
        OBVIOUS
      <4>2. Len(z) # 0
        BY <3>5
      <4> QED
        BY <4>1, <4>2, Zenon
    <3> QED
      BY <3>1, <3>4, <3>5, <3>6
  <2>4. PICK f : Flattens(f, z) /\ FlattenSeq(z) = f[1]
    BY <2>3, FlattenLast
  <2>5. f[1] = p
    <3>1. 1 \in 1..Len(z)
      BY <2>3
    <3> QED
      BY <2>3, <2>4, <3>1, FlattensOne
  <2> QED
    BY <2>1, <2>4, <2>5 DEF FullEncoding
<1>10. Follows(q)
  <2>1. Full(q) = p /\ Ended(p)
    BY <1>3, <1>6, <1>8, <1>9 DEF Full, Ended
  <2>2. "prompt" \in Token /\ "prompt" \notin Written /\ "ask" \in Token /\ "ask" \notin Written
    BY DEF Token, Written
  <2>3. PICK a, b : a = [i \in 1..n |-> 0] /\ b = [i \in 1..AskLen |-> 0]
    OBVIOUS
  <2>4. Marked(p, a) /\ Marked(g, b) /\ a \in Seq({0, 1}) /\ b \in Seq({0, 1})
    <3>1. Marked(p, a)
      BY <1>3, <1>5, <2>2, <2>3, UnwrittenMarked
    <3>2. Marked(g, b)
      BY <1>3, <1>5, <2>2, <2>3, UnwrittenMarked DEF GenerationPrompt
    <3> QED
      BY <1>3, <2>3, <3>1, <3>2
  <2>5. Marked(p \o g, a \o b)
    BY <1>8, <2>4, MarkedConcat
  <2>6. a \o b = q.mask
    <3>1. a = Tokens(0, n) /\ b = Tokens(0, AskLen)
      BY <2>3 DEF Tokens
    <3>2. Tokens(0, n) \o Tokens(0, AskLen) = Tokens(0, n + AskLen)
      <4>1. 0 \in {0, 1}
        OBVIOUS
      <4> QED
        BY <1>3, <4>1, TokensSum
    <3> QED
      BY <1>6, <3>1, <3>2
  <2> QED
    BY <1>5, <1>6, <2>1, <2>5, <2>6 DEF Follows
<1>11. Calls(q)
  <2>1. Replied(M)
    <3>1. DOMAIN M = 1..1
      BY <1>7
    <3> QED
      BY <1>7, <3>1 DEF Replied
  <2> QED
    BY <1>6, <1>7, <2>1 DEF Calls
<1> QED
  BY <1>4, <1>6, <1>10, <1>11 DEF Told, Content

-----------------------------------------------------------------------------
(* Every action keeps what the requests are told.                          *)
(* What the invariants say of one request.                                 *)
LEMMA ToldOf ==
    ASSUME Inv, AllTold, NEW r \in Requests
    PROVE  /\ Told(req[r]) /\ Good(req[r]) /\ req[r] \in RequestType
           /\ req[r].messages \in Seq(Message) /\ req[r].messages # <<>>
           /\ Held(req[r], instance[r])
  BY GoodRequests DEF Inv, AllTold, Held, Good

(* PENDING, and RUNNING up to the call of the engine.                      *)
LEMMA StartTold ==
    ASSUME Inv, AllTold, NEW r \in Requests, Pending(r) \/ Generate(r)
    PROVE  AllTold'
<1>1. PICK p : p = req[r]
  OBVIOUS
<1>2. Told(p) /\ Good(p) /\ p \in RequestType
  BY <1>1, ToldOf
<1>3. Follows(p) /\ Replied(p.messages) /\ p.messages[Len(p.messages)].calls = 0
  BY <1>1, <1>2 DEF Told, Content, Calls, Pending, Generate, InLoop
<1>4. CASE Pending(r)
  <2>1. PICK q : q = [p EXCEPT !.state = "running"]
    OBVIOUS
  <2>2. Continue(r, q) /\ p.at = "loop"
    BY <1>1, <1>4, <2>1 DEF Pending, InLoop
  <2>3. q.at = "loop" /\ q.state = "running" /\ SameTokens(p, q)
    BY <1>2, <2>1, <2>2 DEF RequestType, SameTokens
  <2>4. Follows(q)
    BY <1>3, <2>3, SameFollows
  <2>5. Told(q)
    BY <1>3, <2>3, <2>4 DEF Told, Content, Calls, SameTokens
  <2> QED
    BY <2>2, <2>5, ContinueTold
<1>5. CASE Generate(r)
  <2>1. PICK q : q = Ask(p)
    OBVIOUS
  <2>2. PICK e : e = [q EXCEPT !.at = "engine"]
    OBVIOUS
  <2>3. Continue(r, IF TooLong(q) THEN Leave(q, "length") ELSE e)
    BY <1>1, <1>5, <2>1, <2>2 DEF Generate
  <2>4. Good(q) /\ Asks(q) /\ q.messages = p.messages
    BY <1>2, <1>3, <2>1, AskKeeps, AskFollows
  <2>5. Told(Leave(q, "length"))
    BY <1>3, <2>4, LeaveTold DEF Asks
  <2>6. e.at = "engine" /\ SameTokens(q, e)
    BY <2>2, <2>4 DEF Good, RequestType, SameTokens
  <2>7. Asks(e)
    BY <2>4, <2>6, SameFollows
  <2>8. Told(e)
    BY <1>3, <2>4, <2>6, <2>7 DEF Told, Content, Calls, SameTokens, Asks
  <2> QED
    BY <2>3, <2>5, <2>8, ContinueTold
<1> QED
  BY <1>4, <1>5

(* What the engine has answered.                                           *)
LEMMA AnsweredTold ==
    ASSUME Inv, AllTold, NEW r \in Requests, req[r].at = "engine",
           NEW size \in Nat, NEW n \in Nat, NEW ended \in BOOLEAN
    PROVE  /\ Good(Answered(r, size, n, ended)) /\ Exactly(Answered(r, size, n, ended))
           /\ Replied(Answered(r, size, n, ended).messages)
           /\ Last(Answered(r, size, n, ended).messages).calls = n
<1>1. PICK p : p = req[r]
  OBVIOUS
<1>2. Told(p) /\ Good(p) /\ p \in RequestType /\ p.messages \in Seq(Message) /\ p.messages # <<>>
      /\ Ask(p) = p /\ p.at = "engine"
  BY <1>1, ToldOf DEF Held, Asked
<1>3. Asks(p) /\ Replied(p.messages) /\ p.messages[Len(p.messages)].calls = 0
  BY <1>2 DEF Told, Content, Calls
<1>4. PICK q : q = [p EXCEPT !.turns = p.turns + 1, !.at = "loop"]
  OBVIOUS
<1>5. Answered(r, size, n, ended) = AddAnswer(q, size, n, ended)
  BY <1>1, <1>2, <1>4 DEF Answered, EnginePrompt, RequestType
<1>6. SameTokens(p, q)
  BY <1>2, <1>4 DEF RequestType, SameTokens
<1>7. Good(q)
  <2>1. p.turns + 1 \in 0..MaxAssistantTurns
    <3>1. p.turns \in 0..MaxAssistantTurns
      BY <1>1, GoodRequests DEF Inv
    <3>2. p.turns < MaxAssistantTurns
      BY <1>1, <1>2, ToldOf DEF Held, Asked
    <3> QED
      BY <3>1, <3>2, TurnAssumption
  <2> QED
    BY <1>2, <1>4, <2>1 DEF Good, Aligned, RequestType
<1>8. Asks(q)
  BY <1>3, <1>6, SameFollows
<1>9. PICK m : m = [role |-> "assistant", size |-> size, calls |-> n, call |-> 0, ended |-> ended]
  OBVIOUS
<1>10. m \in Message /\ m.role # "tool" /\ m.calls = n
  BY <1>9 DEF Message
<1>11. PICK a : a = AddAnswer(q, size, n, ended)
  OBVIOUS
<1>12. Exactly(a) /\ a.messages = Append(p.messages, m)
  BY <1>6, <1>7, <1>8, <1>9, <1>11, AnswerFollows DEF SameTokens
<1>13. Replied(a.messages) /\ Last(a.messages) = m
  BY <1>2, <1>3, <1>10, <1>12, RepliedAppend
<1>14. Good(a)
  BY <1>7, <1>11, AddAnswerKeeps
<1> QED
  BY <1>5, <1>10, <1>11, <1>12, <1>13, <1>14

(* RUNNING after the call, whatever the answer.                            *)
LEMMA AnswerTold ==
    ASSUME Inv, AllTold, NEW r \in Requests,
           \/ AnswerCut(r)
           \/ \E size \in TextSizes :
                \/ AnswerBroken(r, size) \/ AnswerPlain(r, size)
                \/ \E n \in 1..MaxCalls : AnswerCalls(r, size, n)
    PROVE  AllTold'
<1>1. req[r].at = "engine"
  BY DEF AnswerCut, AnswerBroken, AnswerPlain, AnswerCalls, Stops
<1>2. TextSizes \subseteq Nat /\ MaxCalls \in Nat /\ TRUE \in BOOLEAN /\ FALSE \in BOOLEAN /\ 0 \in Nat
  BY TemplateAssumption, TurnAssumption
<1>3. CASE AnswerCut(r)
  <2>1. PICK size : size = MaxNewTokens(req[r])
    OBVIOUS
  <2>2. size \in Nat
    <3>1. size \in 1..ResponseLength
      BY <1>1, <2>1, ToldOf, MaxNewTokensBound DEF Held, Asked
    <3> QED
      BY <3>1, LengthAssumption
  <2>3. PICK q : q = Answered(r, size, 0, FALSE)
    OBVIOUS
  <2>4. Continue(r, Leave(q, "length"))
    BY <1>3, <2>1, <2>3 DEF AnswerCut
  <2>5. Good(q) /\ Exactly(q) /\ Replied(q.messages)
    BY <1>1, <1>2, <2>2, <2>3, AnsweredTold
  <2>6. Told(Leave(q, "length"))
    BY <2>5, LeaveTold DEF Exactly
  <2> QED
    BY <2>4, <2>6, ContinueTold
<1>4. ASSUME NEW size \in TextSizes, AnswerBroken(r, size)
      PROVE  AllTold'
  <2>1. PICK a : a = Answered(r, size, 0, TRUE)
    OBVIOUS
  <2>2. PICK q : q = [a EXCEPT !.state = "completed"]
    OBVIOUS
  <2>3. Continue(r, Leave(q, "stop"))
    BY <1>4, <2>1, <2>2 DEF AnswerBroken
  <2>4. size \in Nat
    BY <1>2
  <2>5. Good(a) /\ Exactly(a) /\ Replied(a.messages)
    BY <1>1, <1>2, <2>1, <2>4, AnsweredTold
  <2>6. Good(q) /\ SameTokens(a, q)
    BY <2>2, <2>5 DEF Good, Aligned, RequestType, SameTokens
  <2>7. Exactly(q) /\ Replied(q.messages)
    BY <2>5, <2>6, SameFollows DEF SameTokens
  <2>8. Told(Leave(q, "stop"))
    BY <2>6, <2>7, LeaveTold DEF Exactly
  <2> QED
    BY <2>3, <2>8, ContinueTold
<1>5. ASSUME NEW size \in TextSizes, AnswerPlain(r, size)
      PROVE  AllTold'
  <2>1. PICK q : q = Answered(r, size, 0, TRUE)
    OBVIOUS
  <2>2. PICK u : u = [q EXCEPT !.state = "interacting", !.finish = "stop"]
    OBVIOUS
  <2>3. Continue(r, u) \/ Continue(r, Leave(q, "stop"))
    BY <1>5, <2>1, <2>2 DEF AnswerPlain
  <2>4. size \in Nat
    BY <1>2
  <2>5. Good(q) /\ Exactly(q) /\ Replied(q.messages) /\ Last(q.messages).calls = 0
    BY <1>1, <1>2, <2>1, <2>4, AnsweredTold
  <2>6. u.state = "interacting" /\ SameTokens(q, u)
    BY <2>2, <2>5 DEF Good, RequestType, SameTokens
  <2>6a. u.at = "loop"
    <3>1. q.at = "loop"
      BY <1>1, <1>2, <2>1, <2>4, AnsweredKeeps
    <3> QED
      BY <2>2, <2>5, <3>1 DEF Good, RequestType
  <2>7. Exactly(u)
    BY <2>5, <2>6, SameFollows
  <2>8. Told(u)
    BY <2>5, <2>6, <2>6a, <2>7 DEF Told, Content, Calls, SameTokens, Exactly, Last
  <2>9. Told(Leave(q, "stop"))
    BY <2>5, LeaveTold DEF Exactly
  <2> QED
    BY <2>3, <2>8, <2>9, ContinueTold
<1>6. ASSUME NEW size \in TextSizes, NEW n \in 1..MaxCalls, AnswerCalls(r, size, n)
      PROVE  AllTold'
  <2>1. PICK a : a = Answered(r, size, n, TRUE)
    OBVIOUS
  <2>1a. PICK c : c = Tokens(0, n)
    OBVIOUS
  <2>2. PICK q : q = [a EXCEPT !.state = "tool_calling", !.finish = "tool_calls", !.results = c]
    OBVIOUS
  <2>3. Continue(r, q)
    BY <1>6, <2>1, <2>1a, <2>2 DEF AnswerCalls
  <2>4. size \in Nat /\ n \in Nat
    BY <1>2
  <2>4a. Len(c) = n /\ \A j \in 1..n : c[j] = 0
    BY <2>1a, <2>4 DEF Tokens
  <2>5. Good(a) /\ Exactly(a) /\ Replied(a.messages) /\ Last(a.messages).calls = n
    BY <1>1, <1>2, <2>1, <2>4, AnsweredTold
  <2>6. a.at = "loop"
    BY <1>1, <1>2, <2>1, <2>4, AnsweredKeeps
  <2>7. q.state = "tool_calling" /\ q.at = "loop" /\ SameTokens(a, q) /\ q.results = c
    BY <2>2, <2>5, <2>6 DEF Good, RequestType, SameTokens
  <2>8. Exactly(q)
    BY <2>5, <2>7, SameFollows
  <2>9. Gathering(q)
    BY <2>4a, <2>5, <2>7 DEF Gathering, SameTokens, Last
  <2>10. Told(q)
    BY <2>5, <2>7, <2>8, <2>9 DEF Told, Content, Calls, SameTokens, Exactly
  <2> QED
    BY <2>3, <2>10, ContinueTold
<1> QED
  BY <1>3, <1>4, <1>5, <1>6

(* TOOL_CALLING and INTERACTING.                                           *)
LEMMA ReplyTold ==
    ASSUME Inv, AllTold, NEW r \in Requests, ToolsReturn(r) \/ UserEnds(r) \/ UserReplies(r)
    PROVE  AllTold'
<1>1. PICK p : p = req[r]
  OBVIOUS
<1>2. /\ Told(p) /\ Good(p) /\ p \in RequestType /\ p.messages \in Seq(Message) /\ p.messages # <<>>
      /\ p.at = "loop" /\ p.state \in {"tool_calling", "interacting"}
      /\ (UserEnds(r) \/ UserReplies(r) => p.state = "interacting" /\ p.userTurns < MaxUserTurns)
  <2>1. Held(p, instance[r])
    BY <1>1, ToldOf
  <2> QED
    BY <1>1, <2>1, ToldOf DEF ToolsReturn, UserEnds, UserReplies, InLoop, Held, Control
<1>3. /\ Exactly(p) /\ Replied(p.messages)
      /\ p.state = "interacting" => p.messages[Len(p.messages)].calls = 0
  BY <1>2 DEF Told, Content, Calls
<1>4. CASE ToolsReturn(r)
  <2>1. PICK c : c = p.results
    OBVIOUS
  <2>2. c \in Seq(Nat) /\ <<>> \in Seq(Nat)
    BY <1>2, <2>1 DEF RequestType
  <2>3. PICK u : u = [p EXCEPT !.results = <<>>]
    OBVIOUS
  <2>3a. Good(u) /\ SameTokens(p, u) /\ u.at = "loop"
    BY <1>2, <2>2, <2>3 DEF Good, Aligned, RequestType, SameTokens
  <2>4. PICK q : q = AddReplies(u, "tool", c)
    OBVIOUS
  <2>5. Continue(r, RunOrStop(q))
    BY <1>1, <1>4, <2>1, <2>3, <2>4 DEF ToolsReturn
  <2>6. "tool" \in {"tool", "user"}
    OBVIOUS
  <2>7. Good(q) /\ q.at = "loop"
    BY <2>2, <2>3a, <2>4, <2>6, AddRepliesKeeps DEF SameControl
  <2>8. Exactly(u)
    BY <1>3, <2>3a, SameFollows
  <2>9. Exactly(q) /\ q.messages = p.messages \o Replies("tool", c)
    BY <2>2, <2>3a, <2>4, <2>6, <2>8, RepliesFollow DEF SameTokens
  <2>10. Answers(p.messages[Len(p.messages)], "tool", c)
    <3>1. Gathering(p) /\ ~Contains(c, 0)
      BY <1>1, <1>2, <1>4, <2>1 DEF Told, Calls, ToolsReturn, InLoop
    <3> QED
      BY <2>1, <3>1 DEF Gathering, Contains, Answers
  <2>11. Replied(q.messages) /\ Last(q.messages).calls = 0
    BY <1>2, <1>3, <2>2, <2>6, <2>9, <2>10, RepliedReplies
  <2>12. Told(RunOrStop(q))
    BY <2>7, <2>9, <2>11, RunOrStopTold DEF Exactly, Last
  <2> QED
    BY <2>5, <2>12, ContinueTold
<1>5. CASE UserEnds(r)
  <2>1. PICK q : q = [p EXCEPT !.userTurns = p.userTurns + 1, !.state = "completed"]
    OBVIOUS
  <2>2. Continue(r, Leave(q, "stop"))
    BY <1>1, <1>5, <2>1 DEF UserEnds
  <2>3. p.userTurns + 1 \in 0..MaxUserTurns
    <3>1. p.userTurns \in 0..MaxUserTurns
      BY <1>1, GoodRequests DEF Inv
    <3> QED
      BY <1>2, <1>5, <3>1, TurnAssumption
  <2>4. Good(q) /\ SameTokens(p, q)
    BY <1>2, <2>1, <2>3 DEF Good, Aligned, RequestType, SameTokens
  <2>5. Exactly(q) /\ Replied(q.messages)
    BY <1>3, <2>4, SameFollows DEF SameTokens
  <2>6. Told(Leave(q, "stop"))
    BY <2>4, <2>5, LeaveTold DEF Exactly
  <2> QED
    BY <2>2, <2>6, ContinueTold
<1>6. CASE UserReplies(r)
  <2>1. PICK u : u = [p EXCEPT !.userTurns = p.userTurns + 1]
    OBVIOUS
  <2>1a. PICK c \in Seq(Nat) : c = <<0>>
    <3>1. <<0>> \in Seq(Nat)
      OBVIOUS
    <3> QED
      BY <3>1
  <2>2. PICK q : q = AddReplies(u, "user", c)
    OBVIOUS
  <2>3. Continue(r, RunOrStop(q))
    BY <1>1, <1>6, <2>1, <2>1a, <2>2 DEF UserReplies
  <2>4. p.userTurns + 1 \in 0..MaxUserTurns
    <3>1. p.userTurns \in 0..MaxUserTurns
      BY <1>1, GoodRequests DEF Inv
    <3> QED
      BY <1>2, <1>6, <3>1, TurnAssumption
  <2>5. Good(u) /\ SameTokens(p, u) /\ u.at = "loop"
    BY <1>2, <2>1, <2>4 DEF Good, Aligned, RequestType, SameTokens
  <2>6. Exactly(u)
    BY <1>3, <2>5, SameFollows
  <2>7. "user" \in {"tool", "user"}
    OBVIOUS
  <2>8. Good(q) /\ q.at = "loop"
    BY <2>2, <2>5, <2>7, AddRepliesKeeps DEF SameControl
  <2>9. Exactly(q) /\ q.messages = p.messages \o Replies("user", c)
    BY <2>2, <2>5, <2>6, <2>7, RepliesFollow DEF SameTokens
  <2>9a. Answers(p.messages[Len(p.messages)], "user", c)
    BY <1>2, <1>3, <1>6 DEF Answers
  <2>10. Replied(q.messages) /\ Last(q.messages).calls = 0
    BY <1>2, <1>3, <2>7, <2>9, <2>9a, RepliedReplies
  <2>11. Told(RunOrStop(q))
    BY <2>8, <2>9, <2>10, RunOrStopTold DEF Exactly, Last
  <2> QED
    BY <2>3, <2>11, ContinueTold
<1> QED
  BY <1>4, <1>5, <1>6

(* One call of the last message returns.                                   *)
LEMMA ToolAnswersTold ==
    ASSUME Inv, AllTold, NEW r \in Requests, NEW i \in 1..MaxCalls, ToolAnswers(r, i)
    PROVE  AllTold'
<1>1. PICK p : p = req[r]
  OBVIOUS
<1>2. /\ Told(p) /\ p \in RequestType /\ p.at = "loop" /\ p.state = "tool_calling"
      /\ p.results \in Seq(Nat) /\ i \in DOMAIN p.results
  BY <1>1, ToldOf DEF ToolAnswers, InLoop, RequestType
<1>3. PICK c : c = [p.results EXCEPT ![i] = i]
  OBVIOUS
<1>4. PICK q : q = [p EXCEPT !.results = c]
  OBVIOUS
<1>5. Continue(r, q)
  BY <1>1, <1>2, <1>3, <1>4 DEF ToolAnswers, RequestType
<1>6. i \in Nat /\ i \in 1..Len(p.results)
  BY <1>2, TurnAssumption, LenProperties
<1>7. Len(c) = Len(p.results) /\ \A j \in 1..Len(p.results) : c[j] = IF j = i THEN i ELSE p.results[j]
  BY <1>2, <1>3, <1>6, ExceptSeq
<1>8. SameTokens(p, q) /\ q.at = "loop" /\ q.state = "tool_calling" /\ q.results = c
  BY <1>2, <1>4 DEF RequestType, SameTokens
<1>9. Exactly(p) /\ Replied(p.messages) /\ Gathering(p) /\ Follows(p)
  BY <1>2 DEF Told, Content, Calls
<1>10. Exactly(q) /\ Follows(q)
  BY <1>8, <1>9, SameFollows
<1>11. Gathering(q)
  BY <1>7, <1>8, <1>9 DEF Gathering, SameTokens
<1>12. Told(q)
  BY <1>8, <1>9, <1>10, <1>11 DEF Told, Content, Calls, SameTokens
<1> QED
  BY <1>5, <1>12, ContinueTold

(* The last turn, and finalize.                                            *)
LEMMA EndTold ==
    ASSUME Inv, AllTold, NEW r \in Requests, LastTurn(r) \/ Finalize(r)
    PROVE  AllTold'
<1>1. PICK p : p = req[r]
  OBVIOUS
<1>2. /\ Told(p) /\ Good(p) /\ p \in RequestType /\ p.at \in {"loop", "leaving"}
  BY <1>1, ToldOf DEF LastTurn, Finalize, AllReleased
<1>3. Follows(p) /\ Replied(p.messages)
  BY <1>2 DEF Told, Content, Calls
<1>4. CASE LastTurn(r)
  <2>1. PICK q : q = [p EXCEPT !.at = "leaving"]
    OBVIOUS
  <2>2. Continue(r, q)
    BY <1>1, <1>4, <2>1 DEF LastTurn
  <2>3. q.at = "leaving" /\ SameTokens(p, q)
    BY <1>2, <2>1 DEF RequestType, SameTokens
  <2>4. Follows(q)
    BY <1>3, <2>3, SameFollows
  <2>5. Told(q)
    BY <1>3, <2>3, <2>4 DEF Told, Content, Calls, SameTokens
  <2> QED
    BY <2>2, <2>5, ContinueTold
<1>5. CASE Finalize(r)
  <2>1. PICK s : s = Strip(p)
    OBVIOUS
  <2>2. PICK q : q = [Truncate(s) EXCEPT !.at = "done", !.state = "completed"]
    OBVIOUS
  <2>3. Continue(r, q)
    <3>1. FinishReason(p) \in {"stop", "length"}
      BY <1>1, <1>5, ToldOf DEF Finalize, AllReleased, Held, Control
    <3> QED
      BY <1>1, <1>5, <2>1, <2>2, <3>1 DEF Finalize
  <2>4. Good(s) /\ Exactly(s) /\ s.messages = p.messages
    BY <1>2, <1>3, <2>1, StripKeeps, StripFollows
  <2>5. Delivered(q) /\ q.messages = s.messages /\ q.at = "done"
    BY <2>2, <2>4, DeliveredByTruncate
  <2>6. Told(q)
    BY <1>3, <2>4, <2>5 DEF Told, Content, Calls
  <2> QED
    BY <2>3, <2>6, ContinueTold
<1> QED
  BY <1>4, <1>5

(* No other step changes a request.                                        *)
LEMMA NextTold == Inv /\ AllTold /\ [Next]_vars => AllTold'
<1> SUFFICES ASSUME Inv, AllTold, [Next]_vars PROVE AllTold'
  OBVIOUS
<1>1. ASSUME req' = req PROVE AllTold'
  BY <1>1 DEF AllTold
<1>2. ASSUME NEW r \in Requests, NEW t \in Tools, CreateInstance(r, t) \/ Release(r, t)
      PROVE  AllTold'
  BY <1>1, <1>2 DEF CreateInstance, Release, SetInstance
<1>3. ASSUME NEW r \in Requests, Advance(r)
      PROVE  AllTold'
  BY <1>2, <1>3, StartTold, AnswerTold, ReplyTold, ToolAnswersTold, EndTold DEF Advance
<1>4. CASE Return \/ \E r \in Requests : Raises(r)
  BY <1>1, <1>4 DEF Return, Raises
<1>5. CASE UNCHANGED vars
  BY <1>1, <1>5 DEF vars
<1> QED
  BY <1>3, <1>4, <1>5 DEF Next

LEMMA AlwaysTold == Spec => [](Inv /\ AllTold)
<1>1. Inv /\ AllTold /\ [Next]_vars => (Inv /\ AllTold)'
  BY NextInv, NextTold
<1>2. Init => Inv /\ AllTold
  BY InitInv, InitTold
<1> QED
  BY <1>1, <1>2, PTL DEF Spec

-----------------------------------------------------------------------------
(* The tokens collected message by message are the encoding of the whole   *)
(* conversation, whatever the order in which answers, tools and the user   *)
(* come: no generation prompt is doubled and none is missing when the      *)
(* engine is called.                                                       *)
THEOREM EncodingFollows == Spec => []TokensFollowMessages
<1>1. Inv /\ AllTold => TokensFollowMessages
  <2> SUFFICES ASSUME AllTold, NEW r \in Requests, req[r].at # "done"
               PROVE  /\ req[r].ids \in {FullEncoding(req[r].messages),
                                         FullEncoding(req[r].messages) \o GenerationPrompt}
                      /\ req[r].at = "engine" => req[r].ids = FullEncoding(req[r].messages) \o GenerationPrompt
    BY DEF TokensFollowMessages
  <2> QED
    BY DEF AllTold, Told, Content, Follows, Asks, Full
<1> QED
  BY <1>1, AlwaysTold, PTL

(* What the trainer gets of a request is its conversation after the        *)
(* prompt, cut to the response length, and its mask is 1 exactly on the    *)
(* answers in it, the end of turn that the template puts behind an answer  *)
(* included.                                                               *)
THEOREM ResponseIsAligned == Spec => []ResponseAligned
<1>1. Inv /\ AllTold => ResponseAligned
  <2>1. ASSUME Inv, AllTold, NEW r \in Requests, req[r].at = "done"
        PROVE  /\ req[r].response = Response(Cut(FullEncoding(req[r].messages)), req[r].promptLen)
               /\ Len(req[r].response) = Len(req[r].responseMask)
               /\ \A i \in DOMAIN req[r].response :
                    req[r].responseMask[i] = 1 <=> req[r].response[i] \in {"text", "eos", "end"}
               /\ Len(req[r].ids) = Len(req[r].mask) /\ Len(req[r].ids) <= MaxModelLen
    <3>1. PICK q : q = req[r]
      OBVIOUS
    <3>2. Told(q) /\ Good(q) /\ q.at = "done"
      BY <2>1, <3>1, ToldOf
    <3>3. Delivered(q) /\ q.response \in Seq(Token) /\ Len(q.ids) = Len(q.mask)
      BY <3>2 DEF Told, Content, Good, Aligned, RequestType
    <3>4. DOMAIN q.response = 1..Len(q.response)
      BY <3>3, LenProperties
    <3>5. q.response = Response(Cut(FullEncoding(q.messages)), q.promptLen)
      BY <3>3 DEF Delivered, Full
    <3>6. /\ Len(q.response) = Len(q.responseMask) /\ Len(q.ids) <= MaxModelLen
          /\ \A i \in 1..Len(q.response) :
                q.responseMask[i] = 1 <=> q.response[i] \in {"text", "eos", "end"}
      BY <3>3 DEF Delivered, Marked, Written
    <3> QED
      BY <3>1, <3>3, <3>4, <3>5, <3>6
  <2> QED
    BY <2>1 DEF ResponseAligned
<1> QED
  BY <1>1, AlwaysTold, PTL

(* However its calls return, every answer that called tools is followed by *)
(* their responses in the order of the calls, or it is the last message;   *)
(* no tool's message is without its call.                                  *)
THEOREM EveryCallAnswered == Spec => []CallsAnswered
<1>1. Inv /\ AllTold => CallsAnswered
  <2> SUFFICES ASSUME AllTold PROVE \A r \in Requests : Replied(req[r].messages)
    BY DEF CallsAnswered, Replied
  <2> QED
    BY DEF AllTold, Told, Calls
<1> QED
  BY <1>1, AlwaysTold, PTL
=============================================================================
