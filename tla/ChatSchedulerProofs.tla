------------------------ MODULE ChatSchedulerProofs ------------------------
(***************************************************************************)
(* Proofs about ChatScheduler for any number of conversations, servers,    *)
(* batches and tool calls, and any cache size.                             *)
(***************************************************************************)
EXTENDS ChatScheduler, FiniteSetTheorems, SequenceTheorems, TLAPS

-----------------------------------------------------------------------------
(* Operators on sequences.                                                 *)

(* RemoveAt drops one element and closes the gap.                          *)
LEMMA RemoveAtProperties ==
    ASSUME NEW S, NEW s \in Seq(S), NEW i \in 1..Len(s)
    PROVE  /\ RemoveAt(s, i) \in Seq(S)
           /\ Len(RemoveAt(s, i)) = Len(s) - 1
           /\ \A j \in 1..(Len(s) - 1) :
                RemoveAt(s, i)[j] = IF j < i THEN s[j] ELSE s[j + 1]
<1> DEFINE front == SubSeq(s, 1, i - 1)
           back == SubSeq(s, i + 1, Len(s))
<1>0. Len(s) \in Nat /\ \A j \in 1..Len(s) : s[j] \in S
  BY ElementOfSeq, LenProperties
<1>1. /\ front \in Seq(S) /\ Len(front) = i - 1
      /\ \A j \in 1..(i - 1) : front[j] = s[j]
  <2>1. \A j \in 1..(i - 1) : s[j] \in S
    BY <1>0
  <2>2. /\ front \in Seq(S)
        /\ Len(front) = IF 1 <= i - 1 THEN i - 1 - 1 + 1 ELSE 0
        /\ \A j \in 1..(i - 1 - 1 + 1) : front[j] = s[1 + j - 1]
    BY <2>1, SubSeqProperties
  <2> QED
    BY <1>0, <2>2
<1>2. /\ back \in Seq(S) /\ Len(back) = Len(s) - i
      /\ \A j \in 1..(Len(s) - i) : back[j] = s[i + j]
  <2>1. \A j \in (i + 1)..Len(s) : s[j] \in S
    BY <1>0
  <2>2. /\ back \in Seq(S)
        /\ Len(back) = IF i + 1 <= Len(s) THEN Len(s) - (i + 1) + 1 ELSE 0
        /\ \A j \in 1..(Len(s) - (i + 1) + 1) : back[j] = s[(i + 1) + j - 1]
    BY <1>0, <2>1, SubSeqProperties
  <2> QED
    BY <1>0, <2>2
<1>3. RemoveAt(s, i) = front \o back
  BY DEF RemoveAt
<1> HIDE DEF front, back
<1>4. /\ front \o back \in Seq(S)
      /\ Len(front \o back) = Len(front) + Len(back)
      /\ \A j \in 1..(Len(front) + Len(back)) :
            (front \o back)[j] = IF j <= Len(front) THEN front[j] ELSE back[j - Len(front)]
  BY <1>1, <1>2, ConcatProperties
<1> QED
  BY <1>0, <1>1, <1>2, <1>3, <1>4

(* An insertion appends the entry, and drops the first one of a full cache.*)
LEMMA CacheInsertProperties ==
    ASSUME NEW cc \in Seq(CacheEntry), NEW r \in RequestId, NEW a \in Servers
    PROVE  LET new == CacheInsert(cc, r, a)
               n == IF Len(cc) >= MaxCacheSize THEN Len(cc) ELSE Len(cc) + 1
               shift == IF Len(cc) >= MaxCacheSize THEN 1 ELSE 0
           IN  /\ new \in Seq(CacheEntry)
               /\ Len(new) = n
               /\ \A j \in 1..(n - 1) : new[j] = cc[j + shift]
               /\ new[n] = [id |-> r, address |-> a]
<1> DEFINE e == [id |-> r, address |-> a]
<1>1. e \in CacheEntry
  BY DEF CacheEntry
<1>2. MaxCacheSize \in Nat /\ MaxCacheSize >= 1 /\ Len(cc) \in Nat
  BY CacheAssumption, LenProperties
<1>3. CASE Len(cc) >= MaxCacheSize
  <2>1. cc # <<>>
    BY <1>2, <1>3
  <2>2. /\ Tail(cc) \in Seq(CacheEntry) /\ Len(Tail(cc)) = Len(cc) - 1
        /\ \A j \in 1..Len(Tail(cc)) : Tail(cc)[j] = cc[j + 1]
    BY <2>1, HeadTailProperties
  <2>3. /\ Append(Tail(cc), e) \in Seq(CacheEntry)
        /\ Len(Append(Tail(cc), e)) = Len(Tail(cc)) + 1
        /\ \A j \in 1..Len(Tail(cc)) : Append(Tail(cc), e)[j] = Tail(cc)[j]
        /\ Append(Tail(cc), e)[Len(Tail(cc)) + 1] = e
    BY <1>1, <2>2, AppendProperties
  <2>4. CacheInsert(cc, r, a) = Append(Tail(cc), e)
    BY <1>3 DEF CacheInsert
  <2> HIDE DEF e
  <2>5. CacheInsert(cc, r, a)[Len(cc)] = e
    BY <1>2, <2>2, <2>3, <2>4
  <2>6. \A j \in 1..(Len(cc) - 1) : CacheInsert(cc, r, a)[j] = cc[j + 1]
    BY <1>2, <2>2, <2>3, <2>4
  <2> QED
    BY <1>2, <1>3, <2>2, <2>3, <2>4, <2>5, <2>6 DEF e
<1>4. CASE ~(Len(cc) >= MaxCacheSize)
  <2>1. /\ Append(cc, e) \in Seq(CacheEntry)
        /\ Len(Append(cc, e)) = Len(cc) + 1
        /\ \A j \in 1..Len(cc) : Append(cc, e)[j] = cc[j]
        /\ Append(cc, e)[Len(cc) + 1] = e
    BY <1>1, AppendProperties
  <2>2. CacheInsert(cc, r, a) = Append(cc, e)
    BY <1>4 DEF CacheInsert
  <2> HIDE DEF e
  <2>3. \A j \in 1..Len(cc) : CacheInsert(cc, r, a)[j] = cc[j + 0]
    BY <1>2, <2>1, <2>2
  <2> QED
    BY <1>2, <1>4, <2>1, <2>2, <2>3 DEF e
<1> QED
  BY <1>3, <1>4

-----------------------------------------------------------------------------
(* The inductive invariant.                                                *)

Types == TypeOK /\ IsFiniteSet(calls)

(* Where a task can be in which phase, whom it wakes, and what its depth   *)
(* is: a dead task wakes nobody and never gives its depth back.            *)
WokenByLast == \A c \in Conversations : done[c] <=> task[c] = "finished"
Control ==
    /\ QuietOutsideGeneration
    /\ WokenByLast
    /\ \A c \in Conversations :
        depth[c] = IF task[c] \in {"created", "posting", "dead"} THEN 1 ELSE 0

(* A request id names the conversation and the batch it was made for.      *)
Requests ==
    /\ phase = "generating" => batch # 0
    /\ \A c \in Conversations :
        /\ request[c].conv = c
        /\ request[c] # NoRequest(c) => request[c].batch = batch /\ batch # 0
        /\ task[c] = "none" => request[c] = NoRequest(c)
        /\ task[c] \in {"posting", "calling"} => request[c] # NoRequest(c)

(* Of one batch the cache holds at most one id per conversation, and the   *)
(* ids of earlier batches come first.                                      *)
Ordered(cc) ==
    /\ \A i \in 1..Len(cc) : cc[i].id.batch \in 1..batch
    /\ \A i, j \in 1..Len(cc) : i < j =>
        /\ cc[i].id.batch <= cc[j].id.batch
        /\ cc[i].id.batch = cc[j].id.batch => cc[i].id.conv # cc[j].id.conv

(* It holds no id of the batch for conversation c.                         *)
Foreign(cc, c) ==
    \A i \in 1..Len(cc) : ~(cc[i].id.batch = batch /\ cc[i].id.conv = c)

(* A conversation whose latest id it holds was served at the address kept. *)
Addressed ==
    \A i \in 1..Len(cache), c \in Conversations :
        cache[i].id = request[c] => cache[i].address = address[c]

CacheOrder ==
    /\ Len(cache) <= MaxCacheSize
    /\ Ordered(cache)
    /\ \A c \in Conversations : request[c] = NoRequest(c) => Foreign(cache, c)
    /\ Addressed

Inv == Types /\ Control /\ Requests /\ CacheOrder

(* What a cache with room for a batch adds.                                *)
CacheFits == Cardinality(Conversations) <= MaxCacheSize
NoneLost == LiveRequestCached /\ \A c \in Conversations : task[c] # "dead"

-----------------------------------------------------------------------------
(* An id made for the next submission is a request id.                     *)
LEMMA NewRequestType ==
    ASSUME TypeOK, NEW c \in Conversations
    PROVE  NewRequest(c) \in RequestId /\ NoRequest(c) \in RequestId
<1>1. Len(messages[c]) \in Nat
  BY LenProperties DEF TypeOK
<1> QED
  BY <1>1 DEF TypeOK, NewRequest, NoRequest, RequestId

(* The calls of one answer are finitely many.                              *)
LEMMA FiniteCalls ==
    ASSUME NEW r, NEW n \in Nat
    PROVE  IsFiniteSet([request: {r}, index: 1..n, state: {"pending"}])
<1> DEFINE S == [request: {r}, index: 1..n, state: {"pending"}]
           f == [i \in 1..n |-> [request |-> r, index |-> i, state |-> "pending"]]
<1>1. f \in Surjection(1..n, S)
  <2>1. \A i \in 1..n : [request |-> r, index |-> i, state |-> "pending"] \in S
    OBVIOUS
  <2>2. \A k \in S : k.index \in 1..n /\ k = [request |-> r, index |-> k.index, state |-> "pending"]
    OBVIOUS
  <2>3. f \in [1..n -> S]
    BY <2>1
  <2>4. \A k \in S : \E i \in 1..n : f[i] = k
    BY <2>2
  <2> HIDE DEF S, f
  <2> QED
    BY <2>3, <2>4 DEF Surjection
<1>2. IsFiniteSet(1..n)
  BY FS_Interval
<1> HIDE DEF f
<1> QED
  BY <1>1, <1>2, FS_Surjection

LEMMA InitTypes == Init => Types
<1> SUFFICES ASSUME Init PROVE Types
  OBVIOUS
<1>1. calls = {} /\ IsFiniteSet(calls)
  BY FS_EmptySet DEF Init
<1>2. \A c \in Conversations : NoRequest(c) \in RequestId
  BY DEF NoRequest, RequestId
<1>3. (CHOOSE s \in Servers : TRUE) \in Servers
  BY ServersAssumption
<1> QED
  BY <1>1, <1>2, <1>3 DEF Init, Types, TypeOK, CacheEntry

LEMMA NextTypes == Types /\ [Next]_vars => Types'
<1> SUFFICES ASSUME Types, [Next]_vars PROVE Types'
  OBVIOUS
<1> USE DEF Types, TypeOK
<1>1. CASE WakeUp
  BY <1>1 DEF WakeUp
<1>2. CASE GenerateSequences
  <2>1. [i \in 1..PromptLength |-> Asked] \in Seq(Message)
    BY LimitsAssumption, IsASeq DEF Asked, Message
  <2>2. \A c \in Conversations : NoRequest(c) \in RequestId
    BY NewRequestType
  <2> QED
    BY <1>2, <2>1, <2>2 DEF GenerateSequences
<1>3. CASE Postprocess \/ PostprocessFails \/ Sleep
  BY <1>3 DEF Postprocess, PostprocessFails, Sleep
<1>4. ASSUME NEW c \in Conversations, Submit(c) PROVE Types'
  BY <1>4 DEF Submit
<1>5. ASSUME NEW c \in Conversations, NEW s \in Servers, StartNew(c, s) PROVE Types'
  <2>1. NewRequest(c) \in RequestId
    BY NewRequestType
  <2>2. cache' \in Seq(CacheEntry)
    BY <1>5, <2>1, CacheInsertProperties DEF StartNew
  <2> QED
    BY <1>5, <2>1, <2>2 DEF StartNew
<1>6. ASSUME NEW c \in Conversations, StartResumed(c) PROVE Types'
  <2>1. NewRequest(c) \in RequestId
    BY NewRequestType
  <2>2. PICK i \in Cached(request[c]) :
            /\ address' = [address EXCEPT ![c] = cache[i].address]
            /\ cache' = CacheInsert(RemoveAt(cache, i), NewRequest(c), cache[i].address)
    BY <1>6 DEF StartResumed
  <2>3. i \in 1..Len(cache) /\ cache[i].address \in Servers
    <3>1. DOMAIN cache = 1..Len(cache)
      BY LenProperties
    <3>2. i \in 1..Len(cache)
      BY <3>1 DEF Cached
    <3>3. cache[i] \in CacheEntry
      BY <3>2, ElementOfSeq
    <3> QED
      BY <3>2, <3>3 DEF CacheEntry
  <2>4. RemoveAt(cache, i) \in Seq(CacheEntry)
    BY <2>3, RemoveAtProperties
  <2>5. cache' \in Seq(CacheEntry)
    BY <2>1, <2>2, <2>3, <2>4, CacheInsertProperties
  <2> QED
    BY <1>6, <2>1, <2>2, <2>3, <2>5 DEF StartResumed
<1>7. ASSUME NEW c \in Conversations, StartLost(c) PROVE Types'
  BY <1>7 DEF StartLost
<1>8. ASSUME NEW c \in Conversations, PostFails(c) PROVE Types'
  BY <1>8 DEF PostFails, Finish
<1>9. ASSUME NEW c \in Conversations, AnswerEnds(c) PROVE Types'
  <2>1. AnswerWith(0) \in Message
    BY DEF AnswerWith, Message
  <2>2. messages' \in [Conversations -> Seq(Message)]
    BY <1>9, <2>1, AppendProperties DEF AnswerEnds
  <2> QED
    BY <1>9, <2>2 DEF AnswerEnds, Finish
<1>10. ASSUME NEW c \in Conversations, NEW n \in 1..MaxToolCalls, AnswerCallsTools(c, n)
       PROVE Types'
  <2>1. n \in Nat
    BY LimitsAssumption
  <2> DEFINE new == [request: {request[c]}, index: 1..n, state: {"pending"}]
  <2>2. new \subseteq ToolCall
    BY DEF ToolCall, CallState
  <2>3. IsFiniteSet(new)
    BY <2>1, FiniteCalls
  <2>4. IsFiniteSet(calls \cup new)
    BY <2>3, FS_Union
  <2>5. messages' \in [Conversations -> Seq(Message)]
    <3>1. AnswerWith(n) \in Message
      BY <2>1 DEF AnswerWith, Message
    <3> QED
      BY <1>10, <3>1, AppendProperties DEF AnswerCallsTools
  <2> HIDE DEF new
  <2>6. calls' = calls \cup new
    BY <1>10 DEF AnswerCallsTools, new
  <2>7. /\ task' = [task EXCEPT ![c] = "calling"] /\ depth' = [depth EXCEPT ![c] = @ - 1]
        /\ UNCHANGED <<phase, batch, request, address, done, cache, weight>>
    BY <1>10 DEF AnswerCallsTools
  <2> QED
    BY <2>2, <2>4, <2>5, <2>6, <2>7
<1>11. ASSUME NEW c \in Conversations, ToolsFailed(c) PROVE Types'
  <2>1. IsFiniteSet(calls') /\ calls' \subseteq calls
    BY <1>11, FS_Subset DEF ToolsFailed
  <2> QED
    BY <1>11, <2>1 DEF ToolsFailed, Finish
<1>12. ASSUME NEW c \in Conversations, Resubmit(c) PROVE Types'
  <2>1. IsFiniteSet(calls') /\ calls' \subseteq calls
    BY <1>12, FS_Subset DEF Resubmit
  <2>2. Cardinality(CallsOf(request[c])) \in Nat
    BY FS_Subset, FS_CardinalityType DEF CallsOf
  <2> DEFINE responses == [i \in 1..Cardinality(CallsOf(request[c])) |-> Response(i)]
  <2>3. responses \in Seq(Message)
    <3> DEFINE count == Cardinality(CallsOf(request[c]))
    <3>1. count \in Nat
      BY <2>2
    <3> HIDE DEF count
    <3>2. \A i \in 1..count : Response(i) \in Message
      BY <3>1 DEF Response, Message
    <3>3. [i \in 1..count |-> Response(i)] \in Seq(Message)
      BY <3>1, <3>2, IsASeq
    <3> QED
      BY <3>3 DEF count
  <2> HIDE DEF responses
  <2>4. messages[c] \o responses \in Seq(Message)
    BY <2>3, ConcatProperties
  <2>5. messages' = [messages EXCEPT ![c] = @ \o responses]
    BY <1>12 DEF Resubmit, responses
  <2>6. messages' \in [Conversations -> Seq(Message)]
    BY <2>4, <2>5
  <2>7. /\ task' = [task EXCEPT ![c] = "created"] /\ depth' = [depth EXCEPT ![c] = @ + 1]
        /\ UNCHANGED <<phase, batch, request, address, done, cache, weight>>
    BY <1>12 DEF Resubmit
  <2> QED
    BY <2>1, <2>6, <2>7
<1>13. ASSUME NEW k \in calls, CreateTool(k) PROVE Types'
  <2>1. [k EXCEPT !.state = "live"] \in ToolCall
    BY DEF ToolCall, CallState
  <2>2. IsFiniteSet(calls')
    BY <1>13, FS_RemoveElement, FS_AddElement DEF CreateTool
  <2> QED
    BY <1>13, <2>1, <2>2 DEF CreateTool
<1>14. ASSUME NEW k \in calls, CallRaises(k) PROVE Types'
  <2>1. IsFiniteSet(calls') /\ calls' \subseteq calls
    BY <1>14, FS_Subset DEF CallRaises
  <2>2. k.request.conv \in Conversations
    BY DEF ToolCall, RequestId
  <2> QED
    BY <1>14, <2>1, <2>2 DEF CallRaises, Finish
<1>15. ASSUME NEW k \in calls, NEW outcome \in {"ok", "error"}, ReleaseTool(k, outcome)
       PROVE Types'
  <2>1. [k EXCEPT !.state = outcome] \in ToolCall
    BY DEF ToolCall, CallState
  <2>2. IsFiniteSet(calls \ {k}) /\ IsFiniteSet((calls \ {k}) \cup {[k EXCEPT !.state = outcome]})
    BY FS_RemoveElement, FS_AddElement
  <2>3. CASE Awaited(k)
    BY <1>15, <2>1, <2>2, <2>3 DEF ReleaseTool
  <2>4. CASE ~Awaited(k)
    BY <1>15, <2>2, <2>4 DEF ReleaseTool
  <2> QED
    BY <2>3, <2>4
<1>16. ASSUME NEW k \in calls, ExecuteEnds(k) PROVE Types'
  <2>1. [k EXCEPT !.state = "releasing"] \in ToolCall
    BY DEF ToolCall, CallState
  <2>2. IsFiniteSet(calls')
    BY <1>16, FS_RemoveElement, FS_AddElement DEF ExecuteEnds
  <2> QED
    BY <1>16, <2>1, <2>2 DEF ExecuteEnds
<1>17. CASE UNCHANGED vars
  BY <1>17 DEF vars
<1> QED
  BY <1>1, <1>2, <1>3, <1>4, <1>5, <1>6, <1>7, <1>8, <1>9, <1>10, <1>11, <1>12, <1>13,
     <1>14, <1>15, <1>16, <1>17 DEF Next, Driver, Request, Answer, Tool

(* Every variable keeps its type, and only finitely many tool calls are in *)
(* progress.                                                               *)
THEOREM TypeCorrect == Spec => []TypeOK
<1>1. Init => Types
  BY InitTypes
<1>2. Types /\ [Next]_vars => Types'
  BY NextTypes
<1>3. Types => TypeOK
  BY DEF Types
<1> QED
  BY <1>1, <1>2, <1>3, PTL DEF Spec

-----------------------------------------------------------------------------
LEMMA InitControl == Init => Control /\ Requests
  BY DEF Init, Control, Requests, QuietOutsideGeneration, WokenByLast, NoRequest

LEMMA NextControl == Inv /\ [Next]_vars => Control'
<1> SUFFICES ASSUME Inv, [Next]_vars PROVE Control'
  OBVIOUS
<1> USE DEF Inv, Types, TypeOK, Control, QuietOutsideGeneration, WokenByLast
<1>1. CASE WakeUp
  BY <1>1 DEF WakeUp
<1>2. CASE GenerateSequences
  BY <1>2 DEF GenerateSequences
<1>3. CASE Postprocess
  BY <1>3 DEF Postprocess, Gathered
<1>4. CASE PostprocessFails
  BY <1>4 DEF PostprocessFails, Gathered
<1>5. CASE Sleep
  BY <1>5 DEF Sleep
<1>6. ASSUME NEW c \in Conversations, Submit(c) PROVE Control'
  BY <1>6 DEF Submit
<1>7. ASSUME NEW c \in Conversations, NEW s \in Servers, StartNew(c, s) PROVE Control'
  BY <1>7 DEF StartNew
<1>8. ASSUME NEW c \in Conversations, StartResumed(c) PROVE Control'
  BY <1>8 DEF StartResumed
<1>9. ASSUME NEW c \in Conversations, StartLost(c) PROVE Control'
  BY <1>9 DEF StartLost
<1>10. ASSUME NEW c \in Conversations, PostFails(c) PROVE Control'
  <2>1. depth[c] = 1 /\ phase = "generating"
    BY <1>10 DEF PostFails
  <2>2. done'[c] /\ \A d \in Conversations \ {c} : done'[d] = done[d]
    <3>1. done' = [done EXCEPT ![c] = @ \/ (depth[c] - 1 = 0)]
      BY <1>10 DEF PostFails, Finish
    <3>2. depth[c] - 1 = 0
      BY <2>1
    <3> QED
      BY <3>1, <3>2, Zenon
  <2>3. depth' = [depth EXCEPT ![c] = 0] /\ task' = [task EXCEPT ![c] = "finished"]
    BY <1>10, <2>1 DEF PostFails, Finish
  <2>4. phase' = "generating" /\ WokenByLast'
    BY <1>10, <2>1, <2>2, <2>3 DEF PostFails
  <2> QED
    BY <2>3, <2>4
<1>11. ASSUME NEW c \in Conversations, AnswerEnds(c) PROVE Control'
  <2>1. depth[c] = 1 /\ phase = "generating"
    BY <1>11 DEF AnswerEnds
  <2>2. done'[c] /\ \A d \in Conversations \ {c} : done'[d] = done[d]
    <3>1. done' = [done EXCEPT ![c] = @ \/ (depth[c] - 1 = 0)]
      BY <1>11 DEF AnswerEnds, Finish
    <3>2. depth[c] - 1 = 0
      BY <2>1
    <3> QED
      BY <3>1, <3>2, Zenon
  <2>3. depth' = [depth EXCEPT ![c] = 0] /\ task' = [task EXCEPT ![c] = "finished"]
    BY <1>11, <2>1 DEF AnswerEnds, Finish
  <2>4. phase' = "generating" /\ WokenByLast'
    BY <1>11, <2>1, <2>2, <2>3 DEF AnswerEnds
  <2> QED
    BY <2>3, <2>4
<1>12. ASSUME NEW c \in Conversations, NEW n \in 1..MaxToolCalls, AnswerCallsTools(c, n) PROVE Control'
  BY <1>12 DEF AnswerCallsTools
<1>13. ASSUME NEW c \in Conversations, ToolsFailed(c) PROVE Control'
  BY <1>13 DEF ToolsFailed, Finish
<1>14. ASSUME NEW c \in Conversations, Resubmit(c) PROVE Control'
  BY <1>14 DEF Resubmit
<1>15. ASSUME NEW k \in calls, CreateTool(k) \/ ExecuteEnds(k) PROVE Control'
  BY <1>15 DEF CreateTool, ExecuteEnds
<1>16. ASSUME NEW k \in calls, CallRaises(k) PROVE Control'
  <2>1. CASE Awaited(k)
    <3>1. PICK c \in Conversations : task[c] = "calling" /\ request[c] = k.request
      BY <2>1 DEF Awaited
    <3>2. k.request.conv = c
      BY <3>1 DEF Requests
    <3>3. /\ task' = [task EXCEPT ![c] = "finished"]
          /\ done' = [done EXCEPT ![c] = @ \/ depth[c] = 0]
          /\ UNCHANGED <<phase, depth>>
      BY <1>16, <2>1, <3>2 DEF CallRaises, Finish
    <3>4. depth[c] = 0 /\ phase = "generating"
      BY <3>1
    <3>5. done'[c] /\ \A d \in Conversations \ {c} : done'[d] = done[d]
      BY <3>3, <3>4, Zenon
    <3>6. task'[c] = "finished" /\ \A d \in Conversations \ {c} : task'[d] = task[d]
      BY <3>3
    <3> QED
      BY <3>3, <3>4, <3>5, <3>6
  <2>2. CASE ~Awaited(k)
    BY <1>16, <2>2 DEF CallRaises
  <2> QED
    BY <2>1, <2>2
<1>17. ASSUME NEW k \in calls, NEW o \in {"ok", "error"}, ReleaseTool(k, o) PROVE Control'
  BY <1>17 DEF ReleaseTool
<1>18. CASE UNCHANGED vars
  BY <1>18 DEF vars, NewRequest
<1> QED
  BY <1>1, <1>2, <1>3, <1>4, <1>5, <1>6, <1>7, <1>8, <1>9, <1>10, <1>11, <1>12, <1>13, <1>14, <1>15, <1>16, <1>17, <1>18
     DEF Next, Driver, Request, Answer, Tool

LEMMA NextRequests == Inv /\ [Next]_vars => Requests'
<1> SUFFICES ASSUME Inv, [Next]_vars PROVE Requests'
  OBVIOUS
<1> USE DEF Inv, Types, TypeOK, Requests, NoRequest
<1>1. CASE WakeUp
  BY <1>1 DEF WakeUp
<1>2. CASE GenerateSequences
  BY <1>2 DEF GenerateSequences
<1>3. CASE Postprocess
  BY <1>3 DEF Postprocess
<1>4. CASE PostprocessFails
  BY <1>4 DEF PostprocessFails
<1>5. CASE Sleep
  BY <1>5 DEF Sleep
<1>6. ASSUME NEW c \in Conversations, Submit(c) PROVE Requests'
  BY <1>6 DEF Submit
<1>7. ASSUME NEW c \in Conversations, NEW s \in Servers, StartNew(c, s) PROVE Requests'
  BY <1>7 DEF StartNew, NewRequest, Control, QuietOutsideGeneration
<1>8. ASSUME NEW c \in Conversations, StartResumed(c) PROVE Requests'
  BY <1>8 DEF StartResumed, NewRequest, Control, QuietOutsideGeneration
<1>9. ASSUME NEW c \in Conversations, StartLost(c) PROVE Requests'
  BY <1>9 DEF StartLost
<1>10. ASSUME NEW c \in Conversations, PostFails(c) PROVE Requests'
  BY <1>10 DEF PostFails, Finish
<1>11. ASSUME NEW c \in Conversations, AnswerEnds(c) PROVE Requests'
  BY <1>11 DEF AnswerEnds, Finish
<1>12. ASSUME NEW c \in Conversations, NEW n \in 1..MaxToolCalls, AnswerCallsTools(c, n) PROVE Requests'
  BY <1>12 DEF AnswerCallsTools
<1>13. ASSUME NEW c \in Conversations, ToolsFailed(c) PROVE Requests'
  BY <1>13 DEF ToolsFailed, Finish
<1>14. ASSUME NEW c \in Conversations, Resubmit(c) PROVE Requests'
  BY <1>14 DEF Resubmit
<1>15. ASSUME NEW k \in calls, CreateTool(k) \/ ExecuteEnds(k) PROVE Requests'
  BY <1>15 DEF CreateTool, ExecuteEnds
<1>16. ASSUME NEW k \in calls, CallRaises(k) PROVE Requests'
  BY <1>16 DEF CallRaises, Finish
<1>17. ASSUME NEW k \in calls, NEW o \in {"ok", "error"}, ReleaseTool(k, o) PROVE Requests'
  BY <1>17 DEF ReleaseTool
<1>18. CASE UNCHANGED vars
  BY <1>18 DEF vars, NewRequest
<1> QED
  BY <1>1, <1>2, <1>3, <1>4, <1>5, <1>6, <1>7, <1>8, <1>9, <1>10, <1>11, <1>12, <1>13, <1>14, <1>15, <1>16, <1>17, <1>18
     DEF Next, Driver, Request, Answer, Tool

-----------------------------------------------------------------------------
(* Removing an entry keeps the order of the others.                        *)
LEMMA RemoveKeepsOrder ==
    ASSUME NEW cc \in Seq(CacheEntry), NEW i \in 1..Len(cc), Ordered(cc), batch \in Nat
    PROVE  Ordered(RemoveAt(cc, i))
<1> DEFINE new == RemoveAt(cc, i)
           at(j) == IF j < i THEN j ELSE j + 1
<1>1. Len(cc) \in Nat
  BY LenProperties
<1>2. /\ new \in Seq(CacheEntry) /\ Len(new) = Len(cc) - 1
      /\ \A j \in 1..(Len(cc) - 1) : new[j] = IF j < i THEN cc[j] ELSE cc[j + 1]
  BY RemoveAtProperties
<1> HIDE DEF new
<1>3. \A j \in 1..Len(new) : at(j) \in 1..Len(cc) /\ new[j] = cc[at(j)]
  BY <1>1, <1>2
<1>4. \A j, k \in 1..Len(new) : j < k => at(j) < at(k)
  BY <1>1, <1>2
<1> HIDE DEF at
<1>5. \A j \in 1..Len(new) : new[j].id.batch \in 1..batch
  BY <1>3 DEF Ordered
<1>6. ASSUME NEW j \in 1..Len(new), NEW k \in 1..Len(new), j < k
      PROVE  /\ new[j].id.batch <= new[k].id.batch
             /\ new[j].id.batch = new[k].id.batch => new[j].id.conv # new[k].id.conv
  <2>1. at(j) \in 1..Len(cc) /\ at(k) \in 1..Len(cc) /\ at(j) < at(k)
    BY <1>3, <1>4, <1>6
  <2>2. new[j] = cc[at(j)] /\ new[k] = cc[at(k)]
    BY <1>3
  <2> QED
    BY <2>1, <2>2 DEF Ordered
<1>7. Ordered(new)
  BY <1>5, <1>6 DEF Ordered
<1> QED
  BY <1>7 DEF new

(* An id of the current batch goes to the end, where it belongs.           *)
LEMMA InsertKeepsOrder ==
    ASSUME NEW cc \in Seq(CacheEntry), Ordered(cc), Len(cc) <= MaxCacheSize,
           batch \in Nat \ {0},
           NEW c \in Conversations, Foreign(cc, c),
           NEW r \in RequestId, r.batch = batch, r.conv = c,
           NEW a \in Servers
    PROVE  /\ Ordered(CacheInsert(cc, r, a))
           /\ Len(CacheInsert(cc, r, a)) <= MaxCacheSize
<1> DEFINE new == CacheInsert(cc, r, a)
           shift == IF Len(cc) >= MaxCacheSize THEN 1 ELSE 0
           e == [id |-> r, address |-> a]
<1>1. Len(cc) \in Nat /\ MaxCacheSize \in Nat /\ MaxCacheSize >= 1
  BY LenProperties, CacheAssumption
<1>2. /\ Len(new) = IF Len(cc) >= MaxCacheSize THEN Len(cc) ELSE Len(cc) + 1
      /\ \A j \in 1..(Len(new) - 1) : new[j] = cc[j + shift]
      /\ new[Len(new)] = e
  BY CacheInsertProperties
<1>3. e.id.batch = batch /\ e.id.conv = c
  OBVIOUS
<1> HIDE DEF new, e
<1>4. /\ Len(new) \in Nat /\ Len(new) <= MaxCacheSize /\ Len(new) >= 1
      /\ \A j \in 1..(Len(new) - 1) : j + shift \in 1..Len(cc)
  BY <1>1, <1>2
<1>5. \A j \in 1..Len(new) : new[j].id.batch \in 1..batch
  <2>1. \A j \in 1..(Len(new) - 1) : new[j].id.batch \in 1..batch
    BY <1>2, <1>4 DEF Ordered
  <2>2. new[Len(new)].id.batch \in 1..batch
    BY <1>2, <1>3
  <2> QED
    BY <1>4, <2>1, <2>2
<1>6. ASSUME NEW i \in 1..Len(new), NEW j \in 1..Len(new), i < j
      PROVE  /\ new[i].id.batch <= new[j].id.batch
             /\ new[i].id.batch = new[j].id.batch => new[i].id.conv # new[j].id.conv
  <2>1. i \in 1..(Len(new) - 1)
    BY <1>4, <1>6
  <2>2. new[i] = cc[i + shift] /\ i + shift \in 1..Len(cc)
    BY <1>2, <1>4, <2>1
  <2>3. CASE j = Len(new)
    <3>1. new[j].id.batch = batch /\ new[j].id.conv = c
      BY <1>2, <1>3, <2>3
    <3>2. cc[i + shift].id.batch \in 1..batch
      BY <2>2 DEF Ordered
    <3>3. ~(cc[i + shift].id.batch = batch /\ cc[i + shift].id.conv = c)
      BY <2>2 DEF Foreign
    <3> QED
      BY <2>2, <3>1, <3>2, <3>3
  <2>4. CASE j # Len(new)
    <3>1. j \in 1..(Len(new) - 1)
      BY <1>4, <2>4
    <3>2. new[j] = cc[j + shift] /\ j + shift \in 1..Len(cc)
      BY <1>2, <1>4, <3>1
    <3>3. i + shift < j + shift
      BY <1>6
    <3> QED
      BY <2>2, <3>2, <3>3 DEF Ordered
  <2> QED
    BY <2>3, <2>4
<1>7. Ordered(new)
  BY <1>5, <1>6 DEF Ordered
<1> QED
  BY <1>4, <1>7 DEF new

(* Every entry of the new cache but the last was in the old one, at a      *)
(* place the removal left.                                                 *)
LEMMA InsertedEntries ==
    ASSUME NEW cc \in Seq(CacheEntry), NEW r \in RequestId, NEW a \in Servers,
           NEW j \in 1..Len(CacheInsert(cc, r, a))
    PROVE  \/ \E m \in 1..Len(cc) : CacheInsert(cc, r, a)[j] = cc[m]
           \/ CacheInsert(cc, r, a)[j] = [id |-> r, address |-> a]
<1> DEFINE new == CacheInsert(cc, r, a)
           shift == IF Len(cc) >= MaxCacheSize THEN 1 ELSE 0
           e == [id |-> r, address |-> a]
<1>1. Len(cc) \in Nat /\ MaxCacheSize \in Nat /\ MaxCacheSize >= 1
  BY LenProperties, CacheAssumption
<1>a. /\ Len(new) = IF Len(cc) >= MaxCacheSize THEN Len(cc) ELSE Len(cc) + 1
      /\ \A i \in 1..((IF Len(cc) >= MaxCacheSize THEN Len(cc) ELSE Len(cc) + 1) - 1) :
            new[i] = cc[i + shift]
      /\ new[IF Len(cc) >= MaxCacheSize THEN Len(cc) ELSE Len(cc) + 1] = e
  BY CacheInsertProperties, Zenon
<1>2. /\ Len(new) = IF Len(cc) >= MaxCacheSize THEN Len(cc) ELSE Len(cc) + 1
      /\ \A i \in 1..(Len(new) - 1) : new[i] = cc[i + shift]
      /\ new[Len(new)] = e
  BY <1>a, Zenon
<1> HIDE DEF new, e
<1>3. j \in 1..Len(new)
  BY DEF new
<1>4. CASE j = Len(new)
  BY <1>2, <1>4 DEF new, e
<1>5. CASE j # Len(new)
  <2>1. j \in 1..(Len(new) - 1) /\ j + shift \in 1..Len(cc)
    BY <1>1, <1>2, <1>3, <1>5
  <2>2. new[j] = cc[j + shift]
    BY <1>2, <2>1
  <2> QED
    BY <2>1, <2>2 DEF new
<1> QED
  BY <1>4, <1>5

(* Actions that leave the ids, the addresses and the cache alone keep the  *)
(* order of the cache.                                                     *)
LEMMA CacheOrderFrame ==
    ASSUME CacheOrder, UNCHANGED <<batch, request, address, cache>>
    PROVE  CacheOrder'
BY DEF CacheOrder, Ordered, Foreign, Addressed, NoRequest

(* A submission of conversation c to server a under a new id, whatever was *)
(* removed before: no id of c of this batch is left, every entry left was  *)
(* in the cache.                                                           *)
LEMMA SubmissionKeepsOrder ==
    ASSUME Inv, NEW c \in Conversations, NEW a \in Servers, NEW cc \in Seq(CacheEntry),
           phase = "generating", Ordered(cc), Len(cc) <= MaxCacheSize, Foreign(cc, c),
           \A j \in 1..Len(cc) : \E m \in 1..Len(cache) : cc[j] = cache[m],
           cache' = CacheInsert(cc, NewRequest(c), a),
           request' = [request EXCEPT ![c] = NewRequest(c)],
           address' = [address EXCEPT ![c] = a],
           batch' = batch
    PROVE  CacheOrder'
<1> DEFINE r == NewRequest(c)
           e == [id |-> r, address |-> a]
<1>1. r \in RequestId /\ r.batch = batch /\ r.conv = c /\ batch \in Nat \ {0}
  BY NewRequestType DEF NewRequest, Inv, Types, TypeOK, Requests
<1>2. r # NoRequest(c)
  BY <1>1 DEF NoRequest
<1> HIDE DEF r
<1>3. cache' = CacheInsert(cc, r, a) /\ request' = [request EXCEPT ![c] = r]
  BY DEF r
<1>4. Ordered(cache') /\ Len(cache') <= MaxCacheSize
  BY <1>1, <1>3, InsertKeepsOrder
<1>5. Ordered(cache)'
  BY <1>4 DEF Ordered
<1>6. \A j \in 1..Len(cache') :
        (\E m \in 1..Len(cc) : cache'[j] = cc[m]) \/ cache'[j] = e
  BY <1>1, <1>3, InsertedEntries
<1>7. request \in [Conversations -> RequestId] /\ address \in [Conversations -> Servers]
  BY DEF Inv, Types, TypeOK
<1>8. ASSUME NEW d \in Conversations, request'[d] = NoRequest(d)
      PROVE  Foreign(cache, d)'
  <2>1. d # c /\ request[d] = NoRequest(d)
    BY <1>2, <1>3, <1>7, <1>8
  <2>2. Foreign(cache, d)
    BY <2>1 DEF Inv, CacheOrder
  <2>3. \A j \in 1..Len(cc) : ~(cc[j].id.batch = batch /\ cc[j].id.conv = d)
    BY <2>2 DEF Foreign
  <2>4. e.id.conv = c
    BY <1>1
  <2> HIDE DEF e
  <2> QED
    BY <1>6, <2>1, <2>3, <2>4 DEF Foreign
<1>9. ASSUME NEW j \in 1..Len(cache'), NEW d \in Conversations, cache'[j].id = request'[d]
      PROVE  cache'[j].address = address'[d]
  <2>1. CASE cache'[j] = e
    <3>1. d = c
      <4>1. r.conv = c /\ r = request'[d]
        BY <1>1, <1>9, <2>1
      <4>2. d # c => request'[d] = request[d] /\ request[d].conv = d
        BY <1>3, <1>7 DEF Inv, Requests
      <4> QED
        BY <4>1, <4>2
    <3> QED
      BY <1>7, <2>1, <3>1
  <2>2. ASSUME NEW m \in 1..Len(cc), cache'[j] = cc[m]
        PROVE  cache'[j].address = address'[d]
    <3>1. d # c
      <4>1. ~(cc[m].id.batch = batch /\ cc[m].id.conv = c)
        BY DEF Foreign
      <4> QED
        BY <1>1, <1>3, <1>7, <1>9, <2>2, <4>1
    <3>2. PICK i \in 1..Len(cache) : cc[m] = cache[i]
      OBVIOUS
    <3>3. request'[d] = request[d] /\ address'[d] = address[d]
      BY <1>3, <1>7, <3>1
    <3> QED
      BY <1>9, <2>2, <3>2, <3>3 DEF Inv, CacheOrder, Addressed
  <2> QED
    BY <1>6, <2>1, <2>2
<1> QED
  BY <1>4, <1>5, <1>8, <1>9 DEF CacheOrder, Addressed, NoRequest

(* Removing the id of a request leaves no id of the conversation.          *)
LEMMA RemovalLeavesNone ==
    ASSUME Inv, NEW c \in Conversations, request[c] # NoRequest(c),
           NEW i \in 1..Len(cache), cache[i].id = request[c]
    PROVE  LET cc == RemoveAt(cache, i)
           IN  /\ cc \in Seq(CacheEntry) /\ Len(cc) = Len(cache) - 1
               /\ Foreign(cc, c)
               /\ \A j \in 1..Len(cc) : \E m \in 1..Len(cache) : m # i /\ cc[j] = cache[m]
               /\ \A m \in 1..Len(cache) : m # i =>
                    \E j \in 1..Len(cc) : cc[j] = cache[m]
<1> DEFINE cc == RemoveAt(cache, i)
<1>1. cache \in Seq(CacheEntry) /\ Len(cache) \in Nat
  BY LenProperties DEF Inv, Types, TypeOK
<1>2. /\ cc \in Seq(CacheEntry) /\ Len(cc) = Len(cache) - 1
      /\ \A j \in 1..(Len(cache) - 1) : cc[j] = IF j < i THEN cache[j] ELSE cache[j + 1]
  BY <1>1, RemoveAtProperties
<1> HIDE DEF cc
<1>3. ASSUME NEW j \in 1..Len(cc)
      PROVE  \E m \in 1..Len(cache) : m # i /\ cc[j] = cache[m]
  <2>1. CASE j < i
    BY <1>1, <1>2, <2>1
  <2>2. CASE ~(j < i)
    <3>1. j + 1 \in 1..Len(cache) /\ j + 1 # i /\ cc[j] = cache[j + 1]
      BY <1>1, <1>2, <2>2
    <3> QED
      BY <3>1
  <2> QED
    BY <2>1, <2>2
<1>4. ASSUME NEW m \in 1..Len(cache), m # i
      PROVE  \E j \in 1..Len(cc) : cc[j] = cache[m]
  <2>1. CASE m < i
    BY <1>1, <1>2, <2>1
  <2>2. CASE m > i
    <3>1. m - 1 \in 1..Len(cc) /\ cc[m - 1] = cache[m]
      BY <1>1, <1>2, <2>2
    <3> QED
      BY <3>1
  <2> QED
    BY <1>1, <1>4, <2>1, <2>2
<1>5. cache[i].id.batch = batch /\ cache[i].id.conv = c
  BY DEF Inv, Requests
<1>6. \A m \in 1..Len(cache) : m # i => ~(cache[m].id.batch = batch /\ cache[m].id.conv = c)
  <2>1. ASSUME NEW m \in 1..Len(cache), m # i
        PROVE  ~(cache[m].id.batch = batch /\ cache[m].id.conv = c)
    <3>1. m < i \/ i < m
      BY <1>1, <2>1
    <3> QED
      BY <1>5, <3>1 DEF Inv, CacheOrder, Ordered
  <2> QED
    BY <2>1
<1>7. Foreign(cc, c)
  BY <1>3, <1>6 DEF Foreign
<1> QED
  BY <1>2, <1>3, <1>4, <1>7 DEF cc

LEMMA InitCacheOrder == Init => CacheOrder
<1> SUFFICES ASSUME Init PROVE CacheOrder
  OBVIOUS
<1>1. cache = <<>> /\ Len(cache) = 0 /\ 1..Len(cache) = {}
  BY DEF Init
<1> QED
  BY <1>1, CacheAssumption DEF CacheOrder, Ordered, Foreign, Addressed

LEMMA NextCacheOrder == Inv /\ [Next]_vars => CacheOrder'
<1> SUFFICES ASSUME Inv, [Next]_vars PROVE CacheOrder'
  OBVIOUS
<1> DEFINE Frame == UNCHANGED <<batch, request, address, cache>>
<1>1. CASE GenerateSequences
  <2>1. /\ batch \in Nat /\ batch' = batch + 1 /\ UNCHANGED <<address, cache>>
        /\ \A c \in Conversations : request'[c] = NoRequest(c)
    BY <1>1 DEF GenerateSequences, Inv, Types, TypeOK
  <2>2. \A i \in 1..Len(cache) : cache[i].id.batch \in 1..batch
    BY DEF Inv, CacheOrder, Ordered
  <2>3. Ordered(cache)'
    BY <2>1, <2>2 DEF Inv, CacheOrder, Ordered
  <2>4. \A c \in Conversations : Foreign(cache, c)'
    BY <2>1, <2>2 DEF Foreign
  <2>5. Addressed'
    <3>1. ASSUME NEW i \in 1..Len(cache), NEW c \in Conversations
          PROVE  cache[i].id # NoRequest(c)
      <4>1. NoRequest(c).batch = 0 /\ cache[i].id.batch # 0
        BY <2>1, <2>2 DEF NoRequest
      <4> QED
        BY <4>1
    <3> QED
      BY <2>1, <3>1 DEF Addressed
  <2> QED
    BY <2>1, <2>3, <2>4, <2>5 DEF CacheOrder, Inv
<1>2. ASSUME NEW c \in Conversations, NEW s \in Servers, StartNew(c, s) PROVE CacheOrder'
  <2>1. phase = "generating" /\ cache \in Seq(CacheEntry)
    BY <1>2 DEF StartNew, Inv, Control, QuietOutsideGeneration, Types, TypeOK
  <2>2. Ordered(cache) /\ Len(cache) <= MaxCacheSize /\ Foreign(cache, c)
    BY <1>2 DEF StartNew, Inv, CacheOrder
  <2>3. /\ cache' = CacheInsert(cache, NewRequest(c), s) /\ batch' = batch
        /\ request' = [request EXCEPT ![c] = NewRequest(c)]
        /\ address' = [address EXCEPT ![c] = s]
    BY <1>2 DEF StartNew
  <2> QED
    BY <2>1, <2>2, <2>3, SubmissionKeepsOrder
<1>3. ASSUME NEW c \in Conversations, StartResumed(c) PROVE CacheOrder'
  <2>1. phase = "generating" /\ cache \in Seq(CacheEntry) /\ request[c] # NoRequest(c)
    BY <1>3 DEF StartResumed, Inv, Control, QuietOutsideGeneration, Types, TypeOK
  <2>2. PICK i \in Cached(request[c]) :
            /\ address' = [address EXCEPT ![c] = cache[i].address]
            /\ cache' = CacheInsert(RemoveAt(cache, i), NewRequest(c), cache[i].address)
    BY <1>3 DEF StartResumed
  <2>3. i \in 1..Len(cache) /\ cache[i].id = request[c] /\ cache[i].address \in Servers
    <3>1. DOMAIN cache = 1..Len(cache)
      BY <2>1, LenProperties
    <3>2. i \in 1..Len(cache) /\ cache[i].id = request[c]
      BY <3>1 DEF Cached
    <3>3. cache[i] \in CacheEntry
      BY <2>1, <3>2, ElementOfSeq
    <3> QED
      BY <3>2, <3>3 DEF CacheEntry
  <2> DEFINE cc == RemoveAt(cache, i)
  <2>4. /\ cc \in Seq(CacheEntry) /\ Len(cc) = Len(cache) - 1 /\ Foreign(cc, c)
        /\ \A j \in 1..Len(cc) : \E m \in 1..Len(cache) : cc[j] = cache[m]
    BY <2>1, <2>3, RemovalLeavesNone
  <2>5. Ordered(cc)
    BY <2>1, <2>3, RemoveKeepsOrder DEF Inv, CacheOrder, Types, TypeOK
  <2>6. Len(cc) <= MaxCacheSize
    BY <2>1, <2>4, LenProperties, CacheAssumption DEF Inv, CacheOrder
  <2>7. /\ cache' = CacheInsert(cc, NewRequest(c), cache[i].address) /\ batch' = batch
        /\ request' = [request EXCEPT ![c] = NewRequest(c)]
        /\ address' = [address EXCEPT ![c] = cache[i].address]
    BY <1>3, <2>2 DEF StartResumed
  <2> HIDE DEF cc
  <2> QED
    BY <2>1, <2>3, <2>4, <2>5, <2>6, <2>7, SubmissionKeepsOrder
<1>4. CASE WakeUp \/ Postprocess \/ PostprocessFails \/ Sleep
  <2>1. Frame
    BY <1>4 DEF WakeUp, Postprocess, PostprocessFails, Sleep
  <2> QED
    BY <2>1, CacheOrderFrame DEF Inv
<1>5. ASSUME NEW c \in Conversations,
             \/ Submit(c) \/ StartLost(c) \/ ToolsFailed(c) \/ Resubmit(c) \/ Answer(c)
      PROVE  CacheOrder'
  <2>1. Frame
    BY <1>5 DEF Submit, StartLost, ToolsFailed, Resubmit, Answer, PostFails, AnswerEnds,
                AnswerCallsTools
  <2> QED
    BY <2>1, CacheOrderFrame DEF Inv
<1>6. ASSUME NEW k \in calls, Tool(k) PROVE CacheOrder'
  <2>1. Frame
    BY <1>6 DEF Tool, CreateTool, ExecuteEnds, CallRaises, ReleaseTool
  <2> QED
    BY <2>1, CacheOrderFrame DEF Inv
<1>7. CASE UNCHANGED vars
  BY <1>7, CacheOrderFrame DEF Inv, vars
<1> QED
  BY <1>1, <1>2, <1>3, <1>4, <1>5, <1>6, <1>7 DEF Next, Driver, Request

LEMMA Invariance == Spec => []Inv
<1>1. Init => Inv
  BY InitTypes, InitControl, InitCacheOrder DEF Inv
<1>2. Inv /\ [Next]_vars => Inv'
  BY NextTypes, NextControl, NextRequests, NextCacheOrder DEF Inv
<1> QED
  BY <1>1, <1>2, PTL DEF Spec

(* The servers never sleep, wake or change batch under a request.          *)
THEOREM Quiet == Spec => []QuietOutsideGeneration
<1>1. Inv => QuietOutsideGeneration
  BY DEF Inv, Control
<1> QED
  BY <1>1, Invariance, PTL

(* A conversation never changes server within a batch, even when ids are   *)
(* evicted: an id still cached leads to the server of the last request.    *)
THEOREM Sticky == Spec => StickyRouting
<1> DEFINE Stays(c) ==
        (request[c] # NoRequest(c) /\ request'[c] # request[c] /\ batch' = batch)
            => address'[c] = address[c]
<1>1. Inv /\ [Next]_vars => [\A c \in Conversations : Stays(c)]_vars
  <2> SUFFICES ASSUME Inv, [Next]_vars PROVE \A c \in Conversations : Stays(c)
    OBVIOUS
  <2> USE DEF Inv, Types, TypeOK
  <2>1. CASE GenerateSequences
    BY <2>1 DEF GenerateSequences
  <2>2. ASSUME NEW c \in Conversations, NEW s \in Servers, StartNew(c, s)
        PROVE  \A d \in Conversations : Stays(d)
    BY <2>2 DEF StartNew
  <2>3. ASSUME NEW c \in Conversations, StartResumed(c)
        PROVE  \A d \in Conversations : Stays(d)
    <3>1. PICK i \in Cached(request[c]) : address' = [address EXCEPT ![c] = cache[i].address]
      BY <2>3 DEF StartResumed
    <3>2. DOMAIN cache = 1..Len(cache)
      BY LenProperties
    <3>3. cache[i].address = address[c]
      BY <3>2 DEF Cached, CacheOrder, Addressed
    <3> QED
      BY <3>1, <3>3
  <2>4. CASE UNCHANGED request
    BY <2>4
  <2> QED
    BY <2>1, <2>2, <2>3, <2>4 DEF Next, Driver, Request, Answer, Tool, WakeUp, Postprocess,
       PostprocessFails, Sleep, Submit, StartLost, ToolsFailed, Resubmit, PostFails,
       AnswerEnds, AnswerCallsTools, CreateTool, ExecuteEnds, CallRaises, ReleaseTool, vars
<1> QED
  BY <1>1, Invariance, PTL DEF Spec, StickyRouting

-----------------------------------------------------------------------------
(* A conversation and its tool calls.                                      *)

(* No call is of a later batch; of this one, a conversation has calls in   *)
(* progress only after its request, and while a callback waits they are    *)
(* those of its own answer.                                                *)
CallsInTime ==
    /\ \A k \in calls : k.request.batch <= batch
    /\ \A c \in Conversations, k \in calls :
          k.request.conv = c /\ k.request.batch = batch =>
              /\ task[c] \notin {"none", "created", "posting"}
              /\ task[c] = "calling" => k.request = request[c]

LEMMA NextCallsInTime == Inv /\ CallsInTime /\ [Next]_vars => CallsInTime'
<1> SUFFICES ASSUME Inv, CallsInTime, [Next]_vars PROVE CallsInTime'
  OBVIOUS
<1>0. /\ calls \subseteq ToolCall /\ batch \in Nat /\ request \in [Conversations -> RequestId]
      /\ task \in [Conversations -> {"none", "created", "posting", "calling", "finished", "dead"}]
      /\ \A k \in calls : k.request.batch \in Nat /\ k.request.conv \in Conversations
  BY DEF Inv, Types, TypeOK, ToolCall, RequestId
<1>f. ASSUME batch' = batch,
             \A k \in calls' : \E l \in calls : l.request = k.request,
             \A c \in Conversations :
                \/ task'[c] = task[c] /\ request'[c] = request[c]
                \/ task'[c] \in {"finished", "dead"}
                \/ task[c] \in {"none", "created"} /\ task'[c] \in {"created", "posting"}
      PROVE  CallsInTime'
  BY <1>0, <1>f DEF CallsInTime
<1>1. CASE GenerateSequences
  BY <1>0, <1>1 DEF GenerateSequences, CallsInTime
<1>2. CASE WakeUp \/ Postprocess \/ PostprocessFails \/ Sleep \/ UNCHANGED vars
  BY <1>2, <1>f DEF WakeUp, Postprocess, PostprocessFails, Sleep, vars
<1>3. ASSUME NEW c \in Conversations,
             \/ Submit(c) \/ StartResumed(c) \/ StartLost(c) \/ PostFails(c) \/ AnswerEnds(c)
             \/ \E s \in Servers : StartNew(c, s)
      PROVE  CallsInTime'
  <2>1. /\ calls' = calls /\ batch' = batch
        /\ \A d \in Conversations : d # c => task'[d] = task[d] /\ request'[d] = request[d]
        /\ \/ task'[c] \in {"finished", "dead"}
           \/ task[c] \in {"none", "created"} /\ task'[c] \in {"created", "posting"}
    BY <1>0, <1>3 DEF Submit, StartResumed, StartLost, PostFails, AnswerEnds, StartNew, Finish
  <2> QED
    BY <1>f, <2>1
<1>4. ASSUME NEW c \in Conversations, NEW n \in 1..MaxToolCalls, AnswerCallsTools(c, n)
      PROVE  CallsInTime'
  <2>1. /\ task[c] = "posting" /\ task' = [task EXCEPT ![c] = "calling"]
        /\ calls' = calls \cup [request: {request[c]}, index: 1..n, state: {"pending"}]
        /\ request' = request /\ batch' = batch
    BY <1>4 DEF AnswerCallsTools
  <2>2. request[c].conv = c /\ request[c].batch = batch
    BY <2>1 DEF Inv, Requests
  <2>3. \A k \in calls' : k \in calls \/ k.request = request[c]
    BY <2>1
  <2>4. \A k \in calls' : k.request.batch <= batch
    BY <1>0, <2>2, <2>3 DEF CallsInTime
  <2>5. ASSUME NEW d \in Conversations, NEW k \in calls',
               k.request.conv = d, k.request.batch = batch
        PROVE  /\ task'[d] \notin {"none", "created", "posting"}
               /\ task'[d] = "calling" => k.request = request[d]
    <3>1. CASE k \in calls
      <4>1. d # c
        BY <2>1, <2>5, <3>1 DEF CallsInTime
      <4> QED
        BY <1>0, <2>1, <2>5, <3>1, <4>1 DEF CallsInTime
    <3>2. CASE k.request = request[c]
      BY <1>0, <2>1, <2>2, <2>5, <3>2
    <3> QED
      BY <2>3, <3>1, <3>2
  <2> QED
    BY <2>1, <2>4, <2>5 DEF CallsInTime
<1>5. ASSUME NEW c \in Conversations, ToolsFailed(c) PROVE CallsInTime'
  <2>1. /\ calls' \subseteq calls /\ batch' = batch /\ request' = request
        /\ task' = [task EXCEPT ![c] = "finished"]
    BY <1>5 DEF ToolsFailed, Finish
  <2> QED
    BY <1>0, <1>f, <2>1
<1>6. ASSUME NEW c \in Conversations, Resubmit(c) PROVE CallsInTime'
  <2>1. /\ task[c] = "calling" /\ task' = [task EXCEPT ![c] = "created"]
        /\ calls' = calls \ CallsOf(request[c])
        /\ request' = request /\ batch' = batch
    BY <1>6 DEF Resubmit
  <2>2. \A k \in calls' : k \in calls /\ k.request # request[c]
    BY <2>1 DEF CallsOf
  <2>3. \A k \in calls' : ~(k.request.conv = c /\ k.request.batch = batch)
    BY <2>1, <2>2 DEF CallsInTime
  <2>4. \A d \in Conversations : d # c => task'[d] = task[d]
    BY <1>0, <2>1
  <2> QED
    BY <2>1, <2>2, <2>3, <2>4 DEF CallsInTime
<1>7. ASSUME NEW k \in calls, Tool(k) PROVE CallsInTime'
  <2>1. \A state \in CallState : [k EXCEPT !.state = state].request = k.request
    BY <1>0 DEF ToolCall
  <2>2. /\ batch' = batch /\ request' = request
        /\ \/ task' = task \/ task' = [task EXCEPT ![k.request.conv] = "finished"]
    BY <1>7 DEF Tool, CreateTool, ExecuteEnds, CallRaises, ReleaseTool, Finish
  <2>3. \/ calls' \subseteq calls
        \/ \E state \in CallState : calls' = (calls \ {k}) \cup {[k EXCEPT !.state = state]}
    <3>1. CASE CreateTool(k) \/ ExecuteEnds(k)
      BY <3>1 DEF CreateTool, ExecuteEnds, CallState
    <3>2. CASE CallRaises(k)
      BY <3>2 DEF CallRaises
    <3>3. CASE \E o \in {"ok", "error"} : ReleaseTool(k, o)
      <4>1. PICK o \in {"ok", "error"} : ReleaseTool(k, o)
        BY <3>3
      <4>2. CASE Awaited(k)
        BY <4>1, <4>2 DEF ReleaseTool, CallState
      <4>3. CASE ~Awaited(k)
        BY <4>1, <4>3 DEF ReleaseTool
      <4> QED
        BY <4>2, <4>3
    <3> QED
      BY <1>7, <3>1, <3>2, <3>3 DEF Tool
  <2>4. \A j \in calls' : \E l \in calls : l.request = j.request
    BY <2>1, <2>3
  <2> QED
    BY <1>0, <1>f, <2>2, <2>4
<1> QED
  BY <1>1, <1>2, <1>3, <1>4, <1>5, <1>6, <1>7 DEF Next, Driver, Request, Answer

LEMMA CallsAreInTime == Spec => []CallsInTime
<1>1. Init => CallsInTime
  BY DEF Init, CallsInTime
<1>2. Inv /\ CallsInTime /\ [Next]_vars => CallsInTime'
  BY NextCallsInTime
<1> QED
  BY <1>1, <1>2, Invariance, PTL DEF Spec

(* A follow-up waits for all the calls it follows, and a conversation whose*)
(* calls were left running by an exception makes none: no request of a     *)
(* conversation is under way beside a tool call of the same batch.         *)
THEOREM FollowUpsWait == Spec => []ToolsOverBeforeFollowUp
<1>1. CallsInTime => ToolsOverBeforeFollowUp
  BY DEF CallsInTime, ToolsOverBeforeFollowUp, Ongoing
<1> QED
  BY <1>1, CallsAreInTime, PTL

-----------------------------------------------------------------------------
(* A conversation is a dialog.                                             *)

(* The calls of an answer are numbered from 1 to n.                        *)
Numbered(S, n) ==
    /\ \A k \in S : k.index \in 1..n
    /\ \A j \in 1..n : \E k \in S : k.index = j
    /\ \A k, l \in S : k.index = l.index => k = l

LEMMA NumberedCount ==
    ASSUME NEW S, NEW n \in Nat, IsFiniteSet(S), Numbered(S, n)
    PROVE  Cardinality(S) = n
<1> DEFINE f == [k \in S |-> k.index]
<1>1. f \in Bijection(S, 1..n)
  <2>1. f \in [S -> 1..n]
    BY DEF Numbered
  <2>2. \A j \in 1..n : \E k \in S : f[k] = j
    BY DEF Numbered
  <2>3. \A k, l \in S : f[k] = f[l] => k = l
    BY DEF Numbered
  <2> HIDE DEF f
  <2> QED
    BY <2>1, <2>2, <2>3 DEF Bijection, Injection, Surjection, IsInjective
<1>2. IsFiniteSet(1..n) /\ Cardinality(1..n) = n
  BY FS_Interval
<1>3. ExistsBijection(S, 1..n)
  BY <1>1 DEF ExistsBijection
<1> HIDE DEF f
<1> QED
  BY <1>2, <1>3, FS_Bijection

(* A conversation a request is made for ends with a prompt or a response,  *)
(* with a response if it goes on; one whose tools run ends with the answer *)
(* that calls them, and they are as many as the answer has calls until the *)
(* callback ends.                                                          *)
Pending(c) ==
    LET m == messages[c]
    IN  /\ task[c] \in {"none", "created", "posting"} /\ Len(m) # 0 =>
                m[Len(m)].role \in {"user", "tool"}
        /\ \/ task[c] = "created" /\ request[c] # NoRequest(c)
           \/ task[c] = "dead"
           => Len(m) # 0 /\ m[Len(m)].role = "tool"
        /\ task[c] = "calling" =>
                \E n \in Nat \ {0} :
                    /\ Len(m) # 0 /\ m[Len(m)] = AnswerWith(n)
                    /\ Numbered(CallsOf(request[c]), n)

Dialog == \A c \in Conversations : IsDialog(messages[c]) /\ Pending(c)

(* An answer joins a conversation that does not end with one.              *)
LEMMA AppendAnswer ==
    ASSUME NEW m \in Seq(Message), NEW n \in Nat, IsDialog(m),
           Len(m) # 0 => m[Len(m)].role \in {"user", "tool"}
    PROVE  /\ IsDialog(Append(m, AnswerWith(n)))
           /\ Len(Append(m, AnswerWith(n))) # 0
           /\ Append(m, AnswerWith(n))[Len(Append(m, AnswerWith(n)))] = AnswerWith(n)
<1> DEFINE new == Append(m, AnswerWith(n))
<1>0. AnswerWith(n) \in Message /\ AnswerWith(n).role = "assistant"
  BY DEF AnswerWith, Message
<1>1. /\ new \in Seq(Message) /\ Len(new) = Len(m) + 1
      /\ \A i \in 1..Len(m) : new[i] = m[i]
      /\ new[Len(m) + 1] = AnswerWith(n)
  BY <1>0, AppendProperties
<1>2. Len(m) \in Nat /\ DOMAIN m = 1..Len(m) /\ DOMAIN new = 1..(Len(m) + 1)
  BY <1>1, LenProperties
<1> HIDE DEF new
<1>3. \A i \in 1..Len(m) : m[i].call \in Nat
  <2>1. \A i \in 1..Len(m) : m[i] \in Message
    BY ElementOfSeq
  <2> QED
    BY <2>1 DEF Message
<1>4. ASSUME NEW i \in DOMAIN new, new[i].role = "assistant", i < Len(new)
      PROVE  /\ new[i].call > 0
             /\ \A j \in 1..new[i].call : i + j \in DOMAIN new /\ new[i + j] = Response(j)
             /\ \A k \in DOMAIN new : k = i + new[i].call + 1 => new[k].role = "assistant"
  <2>1. i \in 1..Len(m) /\ new[i] = m[i] /\ m[i].role = "assistant" /\ i < Len(m)
    BY <1>1, <1>2, <1>4
  <2>2. /\ m[i].call > 0
        /\ \A j \in 1..m[i].call : i + j \in DOMAIN m /\ m[i + j] = Response(j)
        /\ \A k \in DOMAIN m : k = i + m[i].call + 1 => m[k].role = "assistant"
    BY <1>2, <2>1 DEF IsDialog
  <2>3. \A j \in 1..new[i].call : i + j \in DOMAIN new /\ new[i + j] = Response(j)
    BY <1>1, <1>2, <2>1, <2>2
  <2>4. \A k \in DOMAIN new : k = i + new[i].call + 1 => new[k].role = "assistant"
    BY <1>0, <1>1, <1>2, <2>1, <2>2
  <2> QED
    BY <2>1, <2>2, <2>3, <2>4
<1>5. ASSUME NEW i \in DOMAIN new, new[i].role = "tool"
      PROVE  i - new[i].call \in DOMAIN new /\ new[i - new[i].call].role = "assistant"
  <2>1. i \in 1..Len(m) /\ new[i] = m[i]
    BY <1>0, <1>1, <1>2, <1>5
  <2>2. i - m[i].call \in DOMAIN m /\ m[i - m[i].call].role = "assistant"
    BY <1>2, <1>5, <2>1 DEF IsDialog
  <2> QED
    BY <1>1, <1>2, <2>1, <2>2
<1>6. IsDialog(new)
  BY <1>4, <1>5 DEF IsDialog
<1> QED
  BY <1>1, <1>2, <1>6 DEF new

(* The responses to n calls join a conversation that ends with the answer  *)
(* that made them.                                                         *)
LEMMA AppendResponses ==
    ASSUME NEW m \in Seq(Message), NEW n \in Nat \ {0}, IsDialog(m),
           Len(m) # 0, m[Len(m)] = AnswerWith(n)
    PROVE  LET new == m \o [i \in 1..n |-> Response(i)]
           IN  IsDialog(new) /\ Len(new) # 0 /\ new[Len(new)].role = "tool"
<1> DEFINE tail == [i \in 1..n |-> Response(i)]
           new == m \o tail
<1>1. tail \in Seq(Message) /\ Len(tail) = n /\ \A i \in 1..n : tail[i] = Response(i)
  BY IsASeq DEF Response, Message
<1> HIDE DEF tail
<1>2. /\ new \in Seq(Message) /\ Len(new) = Len(m) + n
      /\ \A i \in 1..(Len(m) + n) : new[i] = IF i <= Len(m) THEN m[i] ELSE tail[i - Len(m)]
  BY <1>1, ConcatProperties
<1>3. /\ Len(m) \in Nat \ {0} /\ DOMAIN m = 1..Len(m) /\ DOMAIN new = 1..(Len(m) + n)
  BY <1>2, LenProperties
<1> HIDE DEF new
<1>4. /\ \A i \in 1..Len(m) : new[i] = m[i] /\ m[i].call \in Nat
      /\ \A i \in 1..n : new[Len(m) + i] = Response(i)
  <2>1. \A i \in 1..Len(m) : m[i] \in Message
    BY ElementOfSeq
  <2>2. \A i \in 1..Len(m) : m[i].call \in Nat
    BY <2>1 DEF Message
  <2>3. \A i \in 1..Len(m) : new[i] = m[i]
    BY <1>2, <1>3
  <2>4. \A i \in 1..n : Len(m) + i \in 1..(Len(m) + n) /\ ~(Len(m) + i <= Len(m)) /\ (Len(m) + i) - Len(m) = i
    BY <1>3
  <2>5. \A i \in 1..n : new[Len(m) + i] = Response(i)
    BY <1>1, <1>2, <2>4
  <2> QED
    BY <2>2, <2>3, <2>5
<1>5. \A i \in Nat : Response(i).role = "tool" /\ Response(i).call = i
  BY DEF Response
<1>6. AnswerWith(n).role = "assistant" /\ AnswerWith(n).call = n
  BY DEF AnswerWith
<1>7. ASSUME NEW i \in DOMAIN new, new[i].role = "assistant", i < Len(new)
      PROVE  /\ new[i].call > 0
             /\ \A j \in 1..new[i].call : i + j \in DOMAIN new /\ new[i + j] = Response(j)
             /\ \A k \in DOMAIN new : k = i + new[i].call + 1 => new[k].role = "assistant"
  <2>1. i \in 1..Len(m)
    <3>1. SUFFICES ASSUME ~(i <= Len(m)) PROVE FALSE
      BY <1>3
    <3>2. i - Len(m) \in 1..n /\ i = Len(m) + (i - Len(m))
      BY <1>3, <3>1
    <3> QED
      BY <1>4, <1>5, <1>7, <3>2
  <2>2. CASE i = Len(m)
    <3>1. new[i].call = n
      BY <1>4, <1>6, <2>1, <2>2
    <3> QED
      BY <1>3, <1>4, <2>2, <3>1
  <2>3. CASE i # Len(m)
    <3>1. i < Len(m) /\ new[i] = m[i] /\ m[i].role = "assistant"
      BY <1>3, <1>4, <1>7, <2>1, <2>3
    <3>2. /\ m[i].call > 0
          /\ \A j \in 1..m[i].call : i + j \in DOMAIN m /\ m[i + j] = Response(j)
          /\ \A k \in DOMAIN m : k = i + m[i].call + 1 => m[k].role = "assistant"
      BY <1>3, <2>1, <3>1 DEF IsDialog
    <3>3. m[i].call \in 1..m[i].call
      BY <1>4, <2>1, <3>2
    <3>4. i + m[i].call \in 1..Len(m) /\ m[i + m[i].call].role = "tool"
      BY <1>3, <1>4, <1>5, <2>1, <3>2, <3>3
    <3>5. i + m[i].call + 1 \in 1..Len(m)
      BY <1>3, <1>4, <1>6, <2>1, <3>4
    <3>6. \A j \in 1..m[i].call : i + j \in DOMAIN new /\ new[i + j] = Response(j)
      BY <1>3, <1>4, <3>2
    <3> QED
      BY <1>3, <1>4, <3>1, <3>2, <3>5, <3>6
  <2> QED
    BY <2>2, <2>3
<1>8. ASSUME NEW i \in DOMAIN new, new[i].role = "tool"
      PROVE  i - new[i].call \in DOMAIN new /\ new[i - new[i].call].role = "assistant"
  <2>1. CASE i <= Len(m)
    <3>1. i \in DOMAIN m /\ m[i].role = "tool" /\ new[i] = m[i]
      BY <1>3, <1>4, <1>8, <2>1
    <3>2. i - m[i].call \in DOMAIN m /\ m[i - m[i].call].role = "assistant"
      BY <3>1 DEF IsDialog
    <3> QED
      BY <1>3, <1>4, <3>1, <3>2
  <2>2. CASE i > Len(m)
    <3>1. i - Len(m) \in 1..n /\ i = Len(m) + (i - Len(m))
      BY <1>3, <2>2
    <3>2. new[i].call = i - Len(m)
      BY <1>4, <1>5, <3>1
    <3>3. i - new[i].call = Len(m) /\ Len(m) \in 1..Len(m)
      BY <1>3, <3>2
    <3> QED
      BY <1>3, <1>4, <1>6, <3>3
  <2> QED
    BY <1>3, <2>1, <2>2
<1>9. IsDialog(new)
  BY <1>7, <1>8 DEF IsDialog
<1>10. Len(new) # 0 /\ new[Len(new)].role = "tool"
  BY <1>2, <1>3, <1>4, <1>5
<1> QED
  BY <1>9, <1>10 DEF new, tail

(* The calls of one callback are not those of another.                     *)
LEMMA OwnCalls ==
    ASSUME Inv, NEW c \in Conversations, NEW d \in Conversations, c # d
    PROVE  CallsOf(request[c]) \cap CallsOf(request[d]) = {}
BY DEF CallsOf, Inv, Requests

LEMMA NextDialog == Inv /\ CallsInTime /\ Dialog /\ [Next]_vars => Dialog'
<1> SUFFICES ASSUME Inv, CallsInTime, Dialog, [Next]_vars, NEW d \in Conversations
             PROVE  IsDialog(messages'[d]) /\ Pending(d)'
  BY DEF Dialog
<1>0. /\ messages \in [Conversations -> Seq(Message)] /\ request \in [Conversations -> RequestId]
      /\ task \in [Conversations -> {"none", "created", "posting", "calling", "finished", "dead"}]
      /\ depth \in [Conversations -> Int] /\ IsDialog(messages[d]) /\ Pending(d)
      /\ calls \subseteq ToolCall /\ IsFiniteSet(calls)
  BY DEF Inv, Types, TypeOK, Dialog
<1>f. ASSUME messages'[d] = messages[d], request'[d] = request[d],
             task'[d] = task[d] \/ task'[d] = "finished",
             \A n \in Nat \ {0} : Numbered(CallsOf(request[d]), n) /\ task'[d] = "calling"
                                        => Numbered(CallsOf(request[d])', n)
      PROVE  IsDialog(messages'[d]) /\ Pending(d)'
  <2>1. CallsOf(request[d])' = {k \in calls' : k.request = request[d]}
    BY <1>f DEF CallsOf
  <2>2. CASE task'[d] = "finished"
    BY <1>0, <1>f, <2>2 DEF Pending
  <2>3. CASE task'[d] = task[d] /\ task[d] # "calling"
    BY <1>0, <1>f, <2>3 DEF Pending, NoRequest
  <2>4. CASE task'[d] = task[d] /\ task[d] = "calling"
    <3>1. PICK n \in Nat \ {0} :
            /\ Len(messages[d]) # 0 /\ messages[d][Len(messages[d])] = AnswerWith(n)
            /\ Numbered(CallsOf(request[d]), n)
      BY <1>0, <2>4 DEF Pending
    <3>2. Numbered(CallsOf(request[d])', n)
      BY <1>f, <2>4, <3>1
    <3> QED
      BY <1>0, <1>f, <2>4, <3>1, <3>2 DEF Pending, CallsOf
  <2> QED
    BY <1>f, <2>2, <2>3, <2>4
<1>1. CASE WakeUp \/ Postprocess \/ PostprocessFails \/ Sleep \/ UNCHANGED vars
  <2>1. UNCHANGED <<messages, request, task, calls>>
    BY <1>1 DEF WakeUp, Postprocess, PostprocessFails, Sleep, vars
  <2> QED
    BY <1>f, <2>1 DEF CallsOf
<1>2. CASE GenerateSequences
  <2> DEFINE prompt == [i \in 1..PromptLength |-> Asked]
  <2>1. /\ Len(prompt) = PromptLength /\ prompt[Len(prompt)] = Asked
        /\ \A i \in DOMAIN prompt : prompt[i] = Asked
    BY LimitsAssumption
  <2>2. messages'[d] = prompt /\ task'[d] = "none"
    BY <1>2 DEF GenerateSequences
  <2> HIDE DEF prompt
  <2>3. IsDialog(prompt)
    BY <2>1 DEF IsDialog, Asked
  <2> QED
    BY <2>1, <2>2, <2>3 DEF Pending, Asked
<1>3. ASSUME NEW c \in Conversations, Submit(c) \/ StartResumed(c) \/ StartLost(c)
                                       \/ (\E s \in Servers : StartNew(c, s))
      PROVE  IsDialog(messages'[d]) /\ Pending(d)'
  <2>1. /\ UNCHANGED <<messages, calls>> /\ task[c] \in {"none", "created"}
        /\ \/ task[c] = "none" /\ task' = [task EXCEPT ![c] = "created"] /\ request' = request
           \/ task' = [task EXCEPT ![c] = "posting"]
           \/ /\ task[c] = "created" /\ request[c] # NoRequest(c)
              /\ task' = [task EXCEPT ![c] = "dead"] /\ request' = request
        /\ d # c => request'[d] = request[d]
    BY <1>0, <1>3 DEF Submit, StartResumed, StartLost, StartNew
  <2>2. CASE d = c
    <3>1. messages'[d] = messages[d] /\ (task[d] = "none" => request[d] = NoRequest(d))
      BY <2>1 DEF Inv, Requests
    <3>2. CASE task[c] = "none" /\ task' = [task EXCEPT ![c] = "created"] /\ request' = request
      BY <1>0, <2>2, <3>1, <3>2 DEF Pending, NoRequest
    <3>3. CASE task' = [task EXCEPT ![c] = "posting"]
      BY <1>0, <2>1, <2>2, <3>1, <3>3 DEF Pending
    <3>4. CASE /\ task[c] = "created" /\ request[c] # NoRequest(c)
               /\ task' = [task EXCEPT ![c] = "dead"] /\ request' = request
      BY <1>0, <2>2, <3>1, <3>4 DEF Pending
    <3> QED
      BY <2>1, <3>2, <3>3, <3>4
  <2>3. CASE d # c
    <3>1. task'[d] = task[d]
      BY <1>0, <2>1, <2>3
    <3> QED
      BY <1>f, <2>1, <2>3, <3>1 DEF CallsOf
  <2> QED
    BY <2>2, <2>3
<1>4. ASSUME NEW c \in Conversations, PostFails(c)
      PROVE  IsDialog(messages'[d]) /\ Pending(d)'
  <2>1. UNCHANGED <<messages, request, calls>> /\ task' = [task EXCEPT ![c] = "finished"]
    BY <1>4 DEF PostFails, Finish
  <2>2. task'[d] = task[d] \/ task'[d] = "finished"
    BY <1>0, <2>1
  <2> QED
    BY <1>f, <2>1, <2>2 DEF CallsOf
<1>5. ASSUME NEW c \in Conversations, AnswerEnds(c)
      PROVE  IsDialog(messages'[d]) /\ Pending(d)'
  <2>1. /\ messages' = [messages EXCEPT ![c] = Append(@, AnswerWith(0))]
        /\ task[c] = "posting" /\ task' = [task EXCEPT ![c] = "finished"]
        /\ UNCHANGED <<request, calls>>
    BY <1>5 DEF AnswerEnds, Finish
  <2>2. CASE d = c
    <3>1. IsDialog(Append(messages[c], AnswerWith(0)))
      BY <1>0, <2>1, <2>2, AppendAnswer DEF Pending
    <3>2. messages'[d] = Append(messages[c], AnswerWith(0)) /\ task'[d] = "finished"
      BY <1>0, <2>1, <2>2
    <3> QED
      BY <3>1, <3>2 DEF Pending
  <2>3. CASE d # c
    <3>1. messages'[d] = messages[d] /\ task'[d] = task[d]
      BY <1>0, <2>1, <2>3
    <3> QED
      BY <1>f, <2>1, <3>1 DEF CallsOf
  <2> QED
    BY <2>2, <2>3
<1>6. ASSUME NEW c \in Conversations, NEW n \in 1..MaxToolCalls, AnswerCallsTools(c, n)
      PROVE  IsDialog(messages'[d]) /\ Pending(d)'
  <2>1. /\ messages' = [messages EXCEPT ![c] = Append(@, AnswerWith(n))]
        /\ task[c] = "posting" /\ task' = [task EXCEPT ![c] = "calling"]
        /\ calls' = calls \cup [request: {request[c]}, index: 1..n, state: {"pending"}]
        /\ request' = request
    BY <1>6 DEF AnswerCallsTools
  <2>2. n \in Nat \ {0}
    BY LimitsAssumption
  <2>3. CASE d = c
    <3> DEFINE new == Append(messages[c], AnswerWith(n))
               made == [request: {request[c]}, index: 1..n, state: {"pending"}]
    <3>1. IsDialog(new) /\ Len(new) # 0 /\ new[Len(new)] = AnswerWith(n)
      BY <1>0, <2>1, <2>2, <2>3, AppendAnswer DEF Pending
    <3>2. \A k \in calls : k.request # request[c]
      <4>1. request[c].conv = c /\ request[c].batch = batch
        BY <2>1 DEF Inv, Requests
      <4> QED
        BY <2>1, <4>1 DEF CallsInTime
    <3>3. CallsOf(request[c])' = made
      <4>1. \A k \in made : k.request = request[c]
        OBVIOUS
      <4> HIDE DEF made
      <4>2. calls' = calls \cup made /\ request' = request
        BY <2>1 DEF made
      <4> QED
        BY <3>2, <4>1, <4>2 DEF CallsOf
    <3>4. Numbered(made, n)
      <4>1. \A k \in made : k.index \in 1..n /\ k = [request |-> request[c], index |-> k.index, state |-> "pending"]
        OBVIOUS
      <4>2. \A j \in 1..n : [request |-> request[c], index |-> j, state |-> "pending"] \in made
        OBVIOUS
      <4> HIDE DEF made
      <4>3. \A j \in 1..n : \E k \in made : k.index = j
        BY <4>2
      <4>4. \A k, l \in made : k.index = l.index => k = l
        BY <4>1
      <4> QED
        BY <4>1, <4>3, <4>4 DEF Numbered
    <3>5. messages'[d] = new /\ task'[d] = "calling" /\ CallsOf(request[d])' = made
      BY <1>0, <2>1, <2>3, <3>3
    <3> HIDE DEF new, made
    <3> QED
      BY <2>2, <3>1, <3>4, <3>5 DEF Pending
  <2>4. CASE d # c
    <3>1. request[d] # request[c]
      BY <2>4 DEF Inv, Requests
    <3>2. CallsOf(request[d])' = CallsOf(request[d])
      <4>1. \A k \in [request: {request[c]}, index: 1..n, state: {"pending"}] : k.request = request[c]
        OBVIOUS
      <4> QED
        BY <2>1, <3>1, <4>1 DEF CallsOf
    <3>3. messages'[d] = messages[d] /\ task'[d] = task[d]
      BY <1>0, <2>1, <2>4
    <3> QED
      BY <1>f, <2>1, <3>2, <3>3
  <2> QED
    BY <2>3, <2>4
<1>7. ASSUME NEW c \in Conversations, ToolsFailed(c)
      PROVE  IsDialog(messages'[d]) /\ Pending(d)'
  <2>1. /\ UNCHANGED <<messages, request>> /\ calls' = calls \ CallsOf(request[c])
        /\ task' = [task EXCEPT ![c] = "finished"]
    BY <1>7 DEF ToolsFailed, Finish
  <2>2. d # c => CallsOf(request[d]) \subseteq calls'
    BY <2>1, OwnCalls DEF CallsOf
  <2>3. d # c => CallsOf(request[d])' = CallsOf(request[d])
    BY <2>1, <2>2 DEF CallsOf
  <2>4. d = c => task'[d] = "finished"
    BY <1>0, <2>1
  <2>5. d # c => task'[d] = task[d]
    BY <1>0, <2>1
  <2> QED
    BY <1>f, <2>1, <2>3, <2>4, <2>5
<1>8. ASSUME NEW c \in Conversations, Resubmit(c)
      PROVE  IsDialog(messages'[d]) /\ Pending(d)'
  <2> DEFINE count == Cardinality(CallsOf(request[c]))
             new == messages[c] \o [i \in 1..count |-> Response(i)]
  <2>1. /\ task[c] = "calling" /\ request' = request /\ calls' = calls \ CallsOf(request[c])
        /\ task' = [task EXCEPT ![c] = "created"] /\ messages' = [messages EXCEPT ![c] = new]
    BY <1>8 DEF Resubmit
  <2>2. CASE d = c
    <3>1. PICK n \in Nat \ {0} :
            /\ Len(messages[c]) # 0 /\ messages[c][Len(messages[c])] = AnswerWith(n)
            /\ Numbered(CallsOf(request[c]), n)
      BY <1>0, <2>1, <2>2 DEF Pending
    <3>2. IsFiniteSet(CallsOf(request[c]))
      BY <1>0, FS_Subset DEF CallsOf
    <3>3. count = n
      BY <3>1, <3>2, NumberedCount
    <3> HIDE DEF count
    <3>4. IsDialog(new) /\ Len(new) # 0 /\ new[Len(new)].role = "tool"
      BY <1>0, <2>2, <3>1, <3>3, AppendResponses
    <3> HIDE DEF new
    <3>5. messages'[d] = new /\ task'[d] = "created"
      BY <1>0, <2>1, <2>2
    <3> QED
      BY <3>4, <3>5 DEF Pending
  <2>3. CASE d # c
    <3>1. CallsOf(request[d]) \subseteq calls'
      BY <2>1, <2>3, OwnCalls DEF CallsOf
    <3>2. CallsOf(request[d])' = CallsOf(request[d])
      BY <2>1, <3>1 DEF CallsOf
    <3>3. messages'[d] = messages[d] /\ task'[d] = task[d]
      BY <1>0, <2>1, <2>3
    <3> QED
      BY <1>f, <2>1, <3>2, <3>3
  <2> QED
    BY <2>2, <2>3
<1>9. ASSUME NEW k \in calls, Tool(k)
      PROVE  IsDialog(messages'[d]) /\ Pending(d)'
  <2>1. UNCHANGED <<messages, request>>
    BY <1>9 DEF Tool, CreateTool, ExecuteEnds, CallRaises, ReleaseTool
  <2>2. k \in ToolCall /\ k.request.conv \in Conversations
    BY <1>0 DEF ToolCall, RequestId
  <2>3. ASSUME NEW state \in CallState, calls' = (calls \ {k}) \cup {[k EXCEPT !.state = state]},
               task' = task
        PROVE  IsDialog(messages'[d]) /\ Pending(d)'
    <3> DEFINE S == CallsOf(request[d])
               moved == [k EXCEPT !.state = state]
               T == IF k \in S THEN (S \ {k}) \cup {moved} ELSE S
    <3>1. moved.request = k.request /\ moved.index = k.index
      BY <2>2 DEF ToolCall
    <3> HIDE DEF moved
    <3>2. CallsOf(request[d])' = T
      <4>1. calls' = (calls \ {k}) \cup {moved} /\ request' = request
        BY <2>1, <2>3 DEF moved
      <4> QED
        BY <3>1, <4>1 DEF CallsOf
    <3>3. ASSUME NEW n \in Nat \ {0}, Numbered(S, n) PROVE Numbered(T, n)
      <4> HIDE DEF S
      <4>1. CASE k \notin S
        BY <3>3, <4>1
      <4>2. CASE k \in S
        BY <3>1, <3>3, <4>2 DEF Numbered
      <4> QED
        BY <4>1, <4>2
    <3> QED
      BY <1>f, <2>1, <2>3, <3>2, <3>3
  <2>4. CASE CreateTool(k) \/ ExecuteEnds(k)
    BY <2>3, <2>4 DEF CreateTool, ExecuteEnds, CallState
  <2>5. CASE CallRaises(k)
    <3>1. calls' = {j \in calls \ {k} : j.request = k.request => ~IsSettled(j)}
      BY <2>5 DEF CallRaises
    <3>2. CASE k.request = request[d] /\ task[d] = "calling"
      <4>1. k.request.conv = d /\ Awaited(k)
        BY <3>2 DEF Inv, Requests, Awaited
      <4>2. task'[d] = "finished"
        BY <1>0, <2>5, <4>1 DEF CallRaises, Finish
      <4> QED
        BY <1>f, <2>1, <4>2
    <3>3. CASE k.request = request[d] /\ task[d] # "calling"
      <4>1. task'[d] = task[d] \/ task'[d] = "finished"
        BY <1>0, <2>2, <2>5 DEF CallRaises, Finish
      <4> QED
        BY <1>f, <2>1, <3>3, <4>1
    <3>4. CASE k.request # request[d]
      <4>1. CallsOf(request[d])' = CallsOf(request[d])
        BY <2>1, <3>1, <3>4 DEF CallsOf
      <4>2. task'[d] = task[d] \/ task'[d] = "finished"
        BY <1>0, <2>2, <2>5 DEF CallRaises, Finish
      <4> QED
        BY <1>f, <2>1, <4>1, <4>2
    <3> QED
      BY <3>2, <3>3, <3>4
  <2>6. ASSUME NEW o \in {"ok", "error"}, ReleaseTool(k, o)
        PROVE  IsDialog(messages'[d]) /\ Pending(d)'
    <3>1. /\ task' = task
          /\ calls' = (calls \ {k}) \cup
                        IF Awaited(k) THEN {[k EXCEPT !.state = o]} ELSE {}
      BY <2>6 DEF ReleaseTool
    <3>2. CASE Awaited(k)
      BY <2>3, <3>1, <3>2 DEF CallState
    <3>3. CASE ~Awaited(k)
      <4>1. task[d] = "calling" => k.request # request[d]
        BY <3>3 DEF Awaited
      <4>2. calls' = calls \ {k}
        BY <3>1, <3>3
      <4>3. task[d] = "calling" => CallsOf(request[d])' = CallsOf(request[d])
        BY <2>1, <4>1, <4>2 DEF CallsOf
      <4> QED
        BY <1>f, <2>1, <3>1, <4>3
    <3> QED
      BY <3>2, <3>3
  <2> QED
    BY <1>9, <2>4, <2>5, <2>6 DEF Tool
<1> QED
  BY <1>1, <1>2, <1>3, <1>4, <1>5, <1>6, <1>7, <1>8, <1>9 DEF Next, Driver, Request, Answer

LEMMA DialogsHold == Spec => []Dialog
<1>1. Init => Dialog
  BY DEF Init, Dialog, IsDialog, Pending
<1>2. Inv /\ CallsInTime /\ Dialog /\ [Next]_vars => Dialog'
  BY NextDialog
<1> QED
  BY <1>1, <1>2, Invariance, CallsAreInTime, PTL DEF Spec

(* A conversation goes on after an answer only with one response for each  *)
(* of its calls, in their order, however the tools of a batch fail and     *)
(* whatever the servers answer.                                            *)
THEOREM DialogCorrect == Spec => []DialogWellFormed
<1>1. Dialog => DialogWellFormed
  BY DEF Dialog, DialogWellFormed
<1> QED
  BY <1>1, DialogsHold, PTL

-----------------------------------------------------------------------------
(* What becomes of a conversation whose request id was evicted.            *)

(* The id of a dead task stays out of the cache: no later id is the same.  *)
Evicted == \A c \in Conversations : task[c] = "dead" => Cached(request[c]) = {}

LEMMA NextEvicted == Inv /\ Evicted /\ [Next]_vars => Evicted'
<1> SUFFICES ASSUME Inv, Evicted, [Next]_vars, NEW d \in Conversations, task'[d] = "dead"
             PROVE  Cached(request[d])' = {}
  BY DEF Evicted
<1>0. /\ cache \in Seq(CacheEntry) /\ DOMAIN cache = 1..Len(cache) /\ Len(cache) \in Nat
      /\ task \in [Conversations -> {"none", "created", "posting", "calling", "finished", "dead"}]
      /\ request \in [Conversations -> RequestId]
      /\ \A k \in calls : k.request.conv \in Conversations
  BY LenProperties DEF Inv, Types, TypeOK, ToolCall, RequestId
<1>f. ASSUME cache' = cache, request'[d] = request[d], Cached(request[d]) = {}
      PROVE  Cached(request[d])' = {}
  BY <1>f DEF Cached
<1>1. ASSUME NEW c \in Conversations, NEW a \in Servers, NEW cc \in Seq(CacheEntry),
             \A j \in 1..Len(cc) : \E m \in 1..Len(cache) : cc[j] = cache[m],
             cache' = CacheInsert(cc, NewRequest(c), a),
             request' = [request EXCEPT ![c] = NewRequest(c)],
             task' = [task EXCEPT ![c] = "posting"]
      PROVE  Cached(request[d])' = {}
  <2>1. d # c /\ task[d] = "dead" /\ request'[d] = request[d]
    BY <1>0, <1>1
  <2>2. Cached(request[d]) = {}
    BY <2>1 DEF Evicted
  <2>3. \A m \in 1..Len(cache) : cache[m].id # request[d]
    BY <1>0, <2>2 DEF Cached
  <2>4. NewRequest(c) \in RequestId /\ NewRequest(c) # request[d]
    <3>1. NewRequest(c).conv = c /\ request[d].conv = d
      BY DEF Inv, Requests, NewRequest
    <3> QED
      BY <2>1, <3>1, NewRequestType DEF Inv, Types
  <2>5. cache' \in Seq(CacheEntry) /\ DOMAIN cache' = 1..Len(cache')
    BY <1>1, <2>4, CacheInsertProperties, LenProperties
  <2>6. \A j \in 1..Len(cache') :
            (\E m \in 1..Len(cc) : cache'[j] = cc[m])
              \/ cache'[j] = [id |-> NewRequest(c), address |-> a]
    BY <1>1, <2>4, InsertedEntries
  <2>7. ASSUME NEW j \in 1..Len(cache') PROVE cache'[j].id # request[d]
    <3>1. CASE cache'[j] = [id |-> NewRequest(c), address |-> a]
      BY <2>4, <3>1
    <3>2. ASSUME NEW l \in 1..Len(cc), cache'[j] = cc[l] PROVE cache'[j].id # request[d]
      <4>1. PICK m \in 1..Len(cache) : cc[l] = cache[m]
        BY <1>1
      <4> QED
        BY <2>3, <3>2, <4>1
    <3> QED
      BY <2>6, <3>1, <3>2
  <2> QED
    BY <2>1, <2>5, <2>7 DEF Cached
<1>2. ASSUME NEW c \in Conversations, NEW s \in Servers, StartNew(c, s)
      PROVE  Cached(request[d])' = {}
  <2>1. /\ cache' = CacheInsert(cache, NewRequest(c), s)
        /\ request' = [request EXCEPT ![c] = NewRequest(c)]
        /\ task' = [task EXCEPT ![c] = "posting"]
    BY <1>2 DEF StartNew
  <2> QED
    BY <1>0, <1>1, <2>1
<1>3. ASSUME NEW c \in Conversations, StartResumed(c) PROVE Cached(request[d])' = {}
  <2>1. PICK i \in Cached(request[c]) :
            cache' = CacheInsert(RemoveAt(cache, i), NewRequest(c), cache[i].address)
    BY <1>3 DEF StartResumed
  <2>2. /\ request' = [request EXCEPT ![c] = NewRequest(c)]
        /\ task' = [task EXCEPT ![c] = "posting"] /\ request[c] # NoRequest(c)
    BY <1>3 DEF StartResumed
  <2>3. i \in 1..Len(cache) /\ cache[i].id = request[c] /\ cache[i].address \in Servers
    <3>1. i \in 1..Len(cache) /\ cache[i].id = request[c]
      BY <1>0 DEF Cached
    <3>2. cache[i] \in CacheEntry
      BY <1>0, <3>1, ElementOfSeq
    <3> QED
      BY <3>1, <3>2 DEF CacheEntry
  <2> DEFINE cc == RemoveAt(cache, i)
  <2>4. /\ cc \in Seq(CacheEntry)
        /\ \A j \in 1..Len(cc) : \E m \in 1..Len(cache) : cc[j] = cache[m]
    BY <2>2, <2>3, RemovalLeavesNone
  <2>5. cache' = CacheInsert(cc, NewRequest(c), cache[i].address)
    BY <2>1
  <2> HIDE DEF cc
  <2> QED
    BY <1>1, <2>2, <2>3, <2>4, <2>5
<1>4. ASSUME NEW c \in Conversations, StartLost(c) PROVE Cached(request[d])' = {}
  <2>1. /\ Cached(request[c]) = {} /\ UNCHANGED <<cache, request>>
        /\ task' = [task EXCEPT ![c] = "dead"]
    BY <1>4 DEF StartLost
  <2>2. d # c => task[d] = "dead"
    BY <1>0, <2>1
  <2> QED
    BY <1>f, <2>1, <2>2 DEF Evicted
<1>5. CASE GenerateSequences
  BY <1>5 DEF GenerateSequences
<1>6. ASSUME UNCHANGED <<cache, request>>, task[d] = "dead"
      PROVE  Cached(request[d])' = {}
  BY <1>6, <1>f DEF Evicted
<1>7. CASE WakeUp \/ Postprocess \/ PostprocessFails \/ Sleep \/ UNCHANGED vars
  BY <1>6, <1>7 DEF WakeUp, Postprocess, PostprocessFails, Sleep, vars
<1>8. ASSUME NEW c \in Conversations,
             Submit(c) \/ ToolsFailed(c) \/ Resubmit(c) \/ Answer(c)
      PROVE  Cached(request[d])' = {}
  <2>1. /\ UNCHANGED <<cache, request>>
        /\ \E state \in {"created", "calling", "finished"} : task' = [task EXCEPT ![c] = state]
    BY <1>8 DEF Submit, ToolsFailed, Resubmit, Answer, PostFails, AnswerEnds,
                AnswerCallsTools, Finish
  <2>2. task[d] = "dead"
    BY <1>0, <2>1
  <2> QED
    BY <1>6, <2>1, <2>2
<1>9. ASSUME NEW k \in calls, Tool(k) PROVE Cached(request[d])' = {}
  <2>1. /\ UNCHANGED <<cache, request>>
        /\ task' = task \/ task' = [task EXCEPT ![k.request.conv] = "finished"]
    BY <1>9 DEF Tool, CreateTool, ExecuteEnds, CallRaises, ReleaseTool, Finish
  <2>2. task[d] = "dead"
    BY <1>0, <2>1
  <2> QED
    BY <1>6, <2>1, <2>2
<1> QED
  BY <1>2, <1>3, <1>4, <1>5, <1>7, <1>8, <1>9 DEF Next, Driver, Request

(* The waiter of a conversation is woken when its last task ends and not   *)
(* before, with one exception: the task of a conversation whose request id *)
(* was evicted from the cache while its tools ran dies without waking it,  *)
(* and then the batch never returns.                                       *)
THEOREM WokenOrEvicted == Spec => []WokenUnlessEvicted
<1>1. Init => Evicted
  BY DEF Init, Evicted
<1>2. Inv /\ Evicted /\ [Next]_vars => Evicted'
  BY NextEvicted
<1>3. Inv /\ Dialog /\ Evicted => WokenUnlessEvicted
  <2> SUFFICES ASSUME Inv, Dialog, Evicted, NEW c \in Conversations
               PROVE  /\ done[c] => Over(c)
                      /\ Over(c) /\ ~done[c] =>
                            /\ Cached(request[c]) = {}
                            /\ messages[c] # <<>> /\ Last(messages[c]).role = "tool"
                            /\ phase = "generating"
    BY DEF WokenUnlessEvicted
  <2>1. done[c] <=> task[c] = "finished"
    BY DEF Inv, Control, WokenByLast
  <2>2. ASSUME task[c] = "dead"
        PROVE  /\ Cached(request[c]) = {} /\ phase = "generating"
               /\ messages[c] # <<>> /\ Last(messages[c]).role = "tool"
    <3>1. Len(messages[c]) # 0 /\ messages[c][Len(messages[c])].role = "tool"
      BY <2>2 DEF Dialog, Pending
    <3>2. messages[c] # <<>>
      BY <3>1
    <3>3. Cached(request[c]) = {} /\ phase = "generating"
      BY <2>2 DEF Evicted, Inv, Control, QuietOutsideGeneration
    <3> QED
      BY <3>1, <3>2, <3>3 DEF Last
  <2> QED
    BY <2>1, <2>2 DEF Over
<1> QED
  BY <1>1, <1>2, <1>3, Invariance, DialogsHold, PTL DEF Spec

-----------------------------------------------------------------------------
(* A cache with room for a batch loses no conversation.                    *)

(* If the cache is full when a new conversation comes, its first entry is  *)
(* of nobody who may come back: otherwise every entry would be of this     *)
(* batch, each of another conversation, and none of the new one.           *)
LEMMA VictimIsStale ==
    ASSUME Inv, CacheFits, NEW c \in Conversations, request[c] = NoRequest(c),
           NEW d \in Conversations, request[d] # NoRequest(d),
           Len(cache) >= MaxCacheSize
    PROVE  cache[1].id # request[d]
<1> SUFFICES ASSUME cache[1].id = request[d] PROVE FALSE
  OBVIOUS
<1> DEFINE owner == [i \in 1..Len(cache) |-> cache[i].id.conv]
           others == Conversations \ {c}
<1>1. /\ MaxCacheSize \in Nat /\ MaxCacheSize >= 1 /\ cache \in Seq(CacheEntry)
      /\ Len(cache) \in Nat /\ batch \in Nat /\ 1 \in 1..Len(cache)
  BY CacheAssumption, LenProperties DEF Inv, Types, TypeOK
<1>2. cache[1].id.batch = batch
  BY DEF Inv, Requests
<1>3. \A i \in 1..Len(cache) : cache[i].id.batch = batch
  <2>1. ASSUME NEW i \in 1..Len(cache) PROVE cache[i].id.batch = batch
    <3>1. cache[i].id.batch \in 1..batch
      BY DEF Inv, CacheOrder, Ordered
    <3>2. 1 < i => cache[1].id.batch <= cache[i].id.batch
      BY <1>1 DEF Inv, CacheOrder, Ordered
    <3> QED
      BY <1>1, <1>2, <3>1, <3>2
  <2> QED
    BY <2>1
<1>4. \A i \in 1..Len(cache) : cache[i].id.conv \in others
  <2>1. Foreign(cache, c)
    BY DEF Inv, CacheOrder
  <2>2. \A i \in 1..Len(cache) : cache[i] \in CacheEntry
    BY <1>1, ElementOfSeq
  <2>3. \A i \in 1..Len(cache) : cache[i].id.conv \in Conversations
    BY <2>2 DEF CacheEntry, RequestId
  <2> QED
    BY <1>3, <2>1, <2>3 DEF Foreign
<1>5. owner \in [1..Len(cache) -> others]
  BY <1>4
<1>6. IsFiniteSet(others) /\ Cardinality(others) = Cardinality(Conversations) - 1
      /\ Cardinality(Conversations) \in Nat
  BY ConversationsAssumption, FS_RemoveElement, FS_CardinalityType
<1>7. IsFiniteSet(1..Len(cache)) /\ Cardinality(1..Len(cache)) = Len(cache)
  BY <1>1, FS_Interval
<1>8. Cardinality(others) < Cardinality(1..Len(cache))
  BY <1>1, <1>6, <1>7 DEF CacheFits
<1> HIDE DEF owner, others
<1>9. PICK i, j \in 1..Len(cache) : i # j /\ owner[i] = owner[j]
  BY <1>5, <1>6, <1>7, <1>8, FS_PigeonHole
<1>10. cache[i].id.conv = cache[j].id.conv /\ cache[i].id.batch = cache[j].id.batch
  BY <1>3, <1>9 DEF owner
<1>11. i < j \/ j < i
  BY <1>1, <1>9
<1> QED
  BY <1>10, <1>11 DEF Inv, CacheOrder, Ordered

(* What an insertion keeps: everything in a cache with room, everything    *)
(* but the first entry in a full one.                                      *)
LEMMA InsertKeepsEntries ==
    ASSUME NEW cc \in Seq(CacheEntry), NEW r \in RequestId, NEW a \in Servers
    PROVE  LET new == CacheInsert(cc, r, a)
           IN  /\ \A m \in 1..Len(cc) :
                    \/ m = 1 /\ Len(cc) >= MaxCacheSize
                    \/ \E j \in DOMAIN new : new[j] = cc[m]
               /\ \E j \in DOMAIN new : new[j] = [id |-> r, address |-> a]
<1> DEFINE new == CacheInsert(cc, r, a)
           shift == IF Len(cc) >= MaxCacheSize THEN 1 ELSE 0
           e == [id |-> r, address |-> a]
<1>1. Len(cc) \in Nat /\ MaxCacheSize \in Nat /\ MaxCacheSize >= 1
  BY LenProperties, CacheAssumption
<1>2. /\ Len(new) = IF Len(cc) >= MaxCacheSize THEN Len(cc) ELSE Len(cc) + 1
      /\ \A j \in 1..(Len(new) - 1) : new[j] = cc[j + shift]
      /\ new[Len(new)] = e
  BY CacheInsertProperties
<1>3. new \in Seq(CacheEntry)
  BY CacheInsertProperties
<1>4. DOMAIN new = 1..Len(new)
  BY <1>3, LenProperties
<1> HIDE DEF new, e
<1>5. ASSUME NEW m \in 1..Len(cc), ~(m = 1 /\ Len(cc) >= MaxCacheSize)
      PROVE  \E j \in DOMAIN new : new[j] = cc[m]
  <2>1. m - shift \in 1..(Len(new) - 1)
    BY <1>1, <1>2, <1>5
  <2>2. new[m - shift] = cc[m]
    BY <1>1, <1>2, <2>1
  <2>3. m - shift \in DOMAIN new
    BY <1>1, <1>2, <1>4, <2>1
  <2> QED
    BY <2>2, <2>3
<1>6. Len(new) \in DOMAIN new
  BY <1>1, <1>2, <1>4
<1> QED
  BY <1>2, <1>5, <1>6 DEF new, e

LEMMA NextNoneLost == Inv /\ NoneLost /\ CacheFits /\ [Next]_vars => NoneLost'
<1> SUFFICES ASSUME Inv, NoneLost, CacheFits, [Next]_vars PROVE NoneLost'
  OBVIOUS
<1> DEFINE Kept(d) == \E j \in DOMAIN cache' :
                            cache'[j].id = request[d] /\ cache'[j].address = address[d]
<1>0. /\ cache \in Seq(CacheEntry) /\ DOMAIN cache = 1..Len(cache) /\ Len(cache) \in Nat
      /\ task \in [Conversations -> {"none", "created", "posting", "calling", "finished", "dead"}]
      /\ request \in [Conversations -> RequestId] /\ address \in [Conversations -> Servers]
  BY LenProperties DEF Inv, Types, TypeOK
<1>1. CASE GenerateSequences
  BY <1>1 DEF GenerateSequences, NoneLost, LiveRequestCached, MayResume, NoRequest
<1>2. ASSUME NEW c \in Conversations, NEW s \in Servers, StartNew(c, s) PROVE NoneLost'
  <2>1. /\ cache' = CacheInsert(cache, NewRequest(c), s)
        /\ request' = [request EXCEPT ![c] = NewRequest(c)]
        /\ address' = [address EXCEPT ![c] = s]
        /\ task' = [task EXCEPT ![c] = "posting"]
        /\ request[c] = NoRequest(c)
    BY <1>2 DEF StartNew
  <2>2. NewRequest(c) \in RequestId
    BY NewRequestType DEF Inv, Types
  <2>3. /\ \A m \in 1..Len(cache) :
                \/ m = 1 /\ Len(cache) >= MaxCacheSize
                \/ \E j \in DOMAIN cache' : cache'[j] = cache[m]
        /\ \E j \in DOMAIN cache' : cache'[j] = [id |-> NewRequest(c), address |-> s]
    BY <1>0, <2>1, <2>2, InsertKeepsEntries, ZenonT(30)
  <2>4. \E j \in DOMAIN cache' : cache'[j].id = request'[c] /\ cache'[j].address = address'[c]
    BY <1>0, <2>1, <2>3
  <2>5. ASSUME NEW d \in Conversations, d # c, MayResume(d) PROVE Kept(d)
    <3>1. PICK m \in 1..Len(cache) : cache[m].id = request[d] /\ cache[m].address = address[d]
      BY <1>0, <2>5 DEF NoneLost, LiveRequestCached, Cached
    <3>2. ~(m = 1 /\ Len(cache) >= MaxCacheSize)
      BY <2>1, <2>5, <3>1, VictimIsStale DEF MayResume
    <3> QED
      BY <2>3, <3>1, <3>2
  <2> QED
    BY <1>0, <2>1, <2>4, <2>5 DEF NoneLost, LiveRequestCached, MayResume, Cached, NoRequest
<1>3. ASSUME NEW c \in Conversations, StartResumed(c) PROVE NoneLost'
  <2>1. PICK i \in Cached(request[c]) :
            /\ address' = [address EXCEPT ![c] = cache[i].address]
            /\ cache' = CacheInsert(RemoveAt(cache, i), NewRequest(c), cache[i].address)
    BY <1>3 DEF StartResumed
  <2>2. /\ request' = [request EXCEPT ![c] = NewRequest(c)]
        /\ task' = [task EXCEPT ![c] = "posting"]
        /\ request[c] # NoRequest(c)
    BY <1>3 DEF StartResumed
  <2>3. i \in 1..Len(cache) /\ cache[i].id = request[c] /\ cache[i].address \in Servers
    <3>1. i \in 1..Len(cache) /\ cache[i].id = request[c]
      BY <1>0 DEF Cached
    <3>2. cache[i] \in CacheEntry
      BY <1>0, <3>1, ElementOfSeq
    <3> QED
      BY <3>1, <3>2 DEF CacheEntry
  <2> DEFINE cc == RemoveAt(cache, i)
  <2>4. /\ cc \in Seq(CacheEntry) /\ Len(cc) = Len(cache) - 1
        /\ \A m \in 1..Len(cache) : m # i => \E j \in 1..Len(cc) : cc[j] = cache[m]
    BY <2>2, <2>3, RemovalLeavesNone
  <2>5. Len(cc) < MaxCacheSize
    BY <1>0, <2>4, CacheAssumption DEF Inv, CacheOrder
  <2>6. NewRequest(c) \in RequestId
    BY NewRequestType DEF Inv, Types
  <2>7. cache' = CacheInsert(cc, NewRequest(c), cache[i].address)
    BY <2>1
  <2> HIDE DEF cc
  <2>8. /\ \A m \in 1..Len(cc) : \E j \in DOMAIN cache' : cache'[j] = cc[m]
        /\ \E j \in DOMAIN cache' : cache'[j] = [id |-> NewRequest(c), address |-> cache[i].address]
    <3>1. /\ \A m \in 1..Len(cc) :
                \/ m = 1 /\ Len(cc) >= MaxCacheSize
                \/ \E j \in DOMAIN cache' : cache'[j] = cc[m]
          /\ \E j \in DOMAIN cache' : cache'[j] = [id |-> NewRequest(c), address |-> cache[i].address]
      BY <2>3, <2>4, <2>6, <2>7, InsertKeepsEntries
    <3>2. ~(Len(cc) >= MaxCacheSize)
      BY <1>0, <2>4, <2>5, CacheAssumption
    <3> QED
      BY <3>1, <3>2
  <2>9. \E j \in DOMAIN cache' : cache'[j].id = request'[c] /\ cache'[j].address = address'[c]
    BY <1>0, <2>1, <2>2, <2>8
  <2>10. ASSUME NEW d \in Conversations, d # c, MayResume(d) PROVE Kept(d)
    <3>1. PICK m \in 1..Len(cache) : cache[m].id = request[d] /\ cache[m].address = address[d]
      BY <1>0, <2>10 DEF NoneLost, LiveRequestCached, Cached
    <3>2. m # i
      <4>1. request[d].conv = d /\ request[c].conv = c
        BY DEF Inv, Requests
      <4> QED
        BY <2>3, <2>10, <3>1, <4>1
    <3>3. PICK n \in 1..Len(cc) : cc[n] = cache[m]
      BY <2>4, <3>2
    <3> QED
      BY <2>8, <3>1, <3>3
  <2> QED
    BY <1>0, <2>1, <2>2, <2>9, <2>10 DEF NoneLost, LiveRequestCached, MayResume, Cached, NoRequest
<1>4. ASSUME NEW c \in Conversations, StartLost(c) PROVE NoneLost'
  <2>1. MayResume(c) /\ Cached(request[c]) = {}
    BY <1>4 DEF StartLost, MayResume
  <2> QED
    BY <2>1 DEF NoneLost, LiveRequestCached
<1>5. ASSUME UNCHANGED <<request, address, cache>>,
             \A d \in Conversations :
                /\ task'[d] # "dead"
                /\ task'[d] \in {"created", "posting", "calling"} =>
                        \/ task[d] \in {"created", "posting", "calling"}
                        \/ request[d] = NoRequest(d)
      PROVE  NoneLost'
  BY <1>5 DEF NoneLost, LiveRequestCached, MayResume, Cached, NoRequest
<1>6. CASE WakeUp \/ Postprocess \/ PostprocessFails \/ Sleep \/ UNCHANGED vars
  BY <1>5, <1>6 DEF WakeUp, Postprocess, PostprocessFails, Sleep, vars, NoneLost
<1>7. ASSUME NEW c \in Conversations,
             \/ Submit(c) \/ ToolsFailed(c) \/ Resubmit(c) \/ Answer(c)
      PROVE  NoneLost'
  <2>1. task[c] = "none" => request[c] = NoRequest(c)
    BY DEF Inv, Requests
  <2> QED
    BY <1>0, <1>5, <1>7, <2>1 DEF NoneLost, Submit, ToolsFailed, Resubmit, Answer, PostFails,
       AnswerEnds, AnswerCallsTools, Finish
<1>8. ASSUME NEW k \in calls, Tool(k) PROVE NoneLost'
  <2>1. k.request.conv \in Conversations
    BY DEF Inv, Types, TypeOK, ToolCall, RequestId
  <2>2. CASE UNCHANGED task
    BY <1>5, <1>8, <2>2 DEF NoneLost, Tool, CreateTool, ExecuteEnds, CallRaises, ReleaseTool
  <2>3. CASE CallRaises(k) /\ task' = [task EXCEPT ![k.request.conv] = "finished"]
    BY <1>0, <1>5, <2>1, <2>3 DEF NoneLost, CallRaises
  <2> QED
    BY <1>8, <2>2, <2>3 DEF Tool, CreateTool, ExecuteEnds, CallRaises, ReleaseTool, Finish
<1> QED
  BY <1>1, <1>2, <1>3, <1>4, <1>6, <1>7, <1>8 DEF Next, Driver, Request

LEMMA NothingLost == CacheFits /\ Spec => []NoneLost
<1>1. Init => NoneLost
  BY DEF Init, NoneLost, LiveRequestCached, MayResume
<1>2. CacheFits /\ Inv /\ NoneLost /\ [Next]_vars => NoneLost'
  BY NextNoneLost
<1>3. CASE CacheFits
  <2>1. Inv /\ NoneLost /\ [Next]_vars => NoneLost'
    BY <1>2, <1>3
  <2> QED
    BY <1>1, <2>1, Invariance, PTL DEF Spec
<1> QED
  BY <1>3

(* With a cache that has room for the conversations of a batch, a          *)
(* conversation that may come back always finds its server.                *)
THEOREM LiveRequestsStay == CacheFits /\ Spec => []LiveRequestCached
<1>1. NoneLost => LiveRequestCached
  BY DEF NoneLost
<1> QED
  BY <1>1, NothingLost, PTL

(* With such a cache "__depth__" counts the ongoing requests at all times. *)
THEOREM DepthIsRight == CacheFits /\ Spec => []DepthCountsOngoing
<1>1. Inv /\ NoneLost => DepthCountsOngoing
  BY DEF Inv, Control, NoneLost, DepthCountsOngoing, Ongoing
<1> QED
  BY <1>1, Invariance, NothingLost, PTL

-----------------------------------------------------------------------------
(* New conversations are spread evenly: no two servers ever differ by more *)
(* than one in the conversations given to them.                            *)
THEOREM Balanced == Spec => []ConversationsBalanced
<1>1. Init => ConversationsBalanced
  BY DEF Init, ConversationsBalanced
<1>2. Inv /\ ConversationsBalanced /\ [Next]_vars => ConversationsBalanced'
  <2> SUFFICES ASSUME Inv, ConversationsBalanced, [Next]_vars PROVE ConversationsBalanced'
    OBVIOUS
  <2>1. weight \in [Servers -> Nat]
    BY DEF Inv, Types, TypeOK
  <2>2. ASSUME NEW c \in Conversations, NEW s \in Servers, StartNew(c, s)
        PROVE  ConversationsBalanced'
    <3>1. weight' = [weight EXCEPT ![s] = @ + 1]
      BY <2>2 DEF StartNew
    <3>2. \A t \in Servers : weight[s] <= weight[t]
      BY <2>1, <2>2 DEF StartNew, IsHeapTop, HeapLess
    <3> QED
      BY <2>1, <3>1, <3>2 DEF ConversationsBalanced
  <2>3. CASE UNCHANGED weight
    BY <2>3 DEF ConversationsBalanced
  <2> QED
    BY <2>2, <2>3 DEF Next, Driver, Request, Answer, Tool, WakeUp, GenerateSequences,
       Postprocess, PostprocessFails, Sleep, Submit, StartResumed, StartLost, ToolsFailed,
       Resubmit, PostFails, AnswerEnds, AnswerCallsTools, CreateTool, ExecuteEnds,
       CallRaises, ReleaseTool, vars
<1> QED
  BY <1>1, <1>2, Invariance, PTL DEF Spec

(* The scheduler implements the rounds the trainer relies on, step by      *)
(* step: requests are in flight only while a batch is generated, and a     *)
(* batch returns only when every conversation has come to its end.         *)
RoundsSafety == Rounds!Init /\ [][Rounds!Next]_Rounds!vars

THEOREM ImplementsRounds == Spec => RoundsSafety
<1>1. Init => Rounds!Init
  BY DEF Init, Rounds!Init
<1>2. Inv /\ Inv' /\ [Next]_vars => [Rounds!Next]_Rounds!vars
  <2> SUFFICES ASSUME Inv, Inv', [Next]_vars
               PROVE  Rounds!Next \/ UNCHANGED Rounds!vars
    BY DEF Rounds!Next
  <2> USE DEF Inv, Types, TypeOK
  <2> DEFINE open == {c \in Conversations : ~done[c]}
             inflight == {c \in Conversations : task[c] = "posting"}
  <2>1. CASE WakeUp
    BY <2>1 DEF WakeUp, Rounds!Next, Rounds!WakeUp
  <2>2. CASE GenerateSequences
    <3>1. inflight = {} /\ inflight' = {} /\ open' = Conversations
      BY <2>2 DEF GenerateSequences, Control, QuietOutsideGeneration
    <3> QED
      BY <2>2, <3>1 DEF GenerateSequences, Rounds!Next, Rounds!Begin
  <2>3. CASE Postprocess \/ PostprocessFails
    <3>1. open = {}
      BY <2>3 DEF Postprocess, PostprocessFails, Gathered
    <3> QED
      BY <2>3, <3>1 DEF Postprocess, PostprocessFails, Gathered, Rounds!Next, Rounds!Return
  <2>4. CASE Sleep
    <3>1. inflight = {}
      BY <2>4 DEF Sleep, Control, QuietOutsideGeneration
    <3> QED
      BY <2>4, <3>1 DEF Sleep, Rounds!Next, Rounds!Sleep
  <2>5. ASSUME NEW c \in Conversations, phase = "generating", task[c] = "created",
               task' = [task EXCEPT ![c] = "posting"], UNCHANGED <<phase, batch, done>>
        PROVE  Rounds!Next
    <3>1. c \in open \ inflight
      BY <2>5 DEF Control, WokenByLast
    <3>2. inflight' = inflight \cup {c} /\ open' = open
      BY <2>5
    <3> QED
      BY <2>5, <3>1, <3>2 DEF Rounds!Next, Rounds!Post
  <2>6. ASSUME NEW c \in Conversations, StartResumed(c) \/ \E s \in Servers : StartNew(c, s)
        PROVE  Rounds!Next
    BY <2>5, <2>6 DEF StartResumed, StartNew, Control, QuietOutsideGeneration
  <2>7. ASSUME NEW c \in Conversations, task[c] = "posting",
               task' = [task EXCEPT ![c] = "finished"], UNCHANGED <<phase, batch>>
        PROVE  Rounds!Next
    <3>1. c \in inflight /\ inflight' = inflight \ {c}
      BY <2>7
    <3>2. open' = open \ {c}
      BY <2>7 DEF Control, WokenByLast
    <3> QED
      BY <2>7, <3>1, <3>2 DEF Rounds!Next, Rounds!Answer
  <2>8. ASSUME NEW c \in Conversations, PostFails(c) \/ AnswerEnds(c)
        PROVE  Rounds!Next
    BY <2>7, <2>8 DEF PostFails, AnswerEnds, Finish
  <2>9. ASSUME NEW c \in Conversations, NEW n \in 1..MaxToolCalls, AnswerCallsTools(c, n)
        PROVE  Rounds!Next
    <3>1. c \in inflight /\ inflight' = inflight \ {c} /\ open' = open
      BY <2>9 DEF AnswerCallsTools
    <3> QED
      BY <2>9, <3>1 DEF AnswerCallsTools, Rounds!Next, Rounds!Answer
  <2>10. ASSUME NEW c \in Conversations, task[c] = "calling",
                task' = [task EXCEPT ![c] = "finished"], UNCHANGED <<phase, batch>>
         PROVE  Rounds!Next
    <3>1. c \in open \ inflight /\ phase = "generating"
      BY <2>10 DEF Control, WokenByLast, QuietOutsideGeneration
    <3>2. open' = open \ {c} /\ inflight' = inflight
      BY <2>10 DEF Control, WokenByLast
    <3> QED
      BY <2>10, <3>1, <3>2 DEF Rounds!Next, Rounds!End
  <2>11. ASSUME NEW c \in Conversations, ToolsFailed(c) PROVE Rounds!Next
    BY <2>10, <2>11 DEF ToolsFailed, Finish
  <2>12. ASSUME UNCHANGED <<phase, batch, done>>,
                \A c \in Conversations : task'[c] = "posting" <=> task[c] = "posting"
         PROVE  UNCHANGED Rounds!vars
    BY <2>12 DEF Rounds!vars
  <2>13. ASSUME NEW c \in Conversations, Submit(c) \/ StartLost(c) \/ Resubmit(c)
         PROVE  UNCHANGED Rounds!vars
    BY <2>12, <2>13 DEF Submit, StartLost, Resubmit
  <2>14. ASSUME NEW k \in calls, Tool(k)
         PROVE  Rounds!Next \/ UNCHANGED Rounds!vars
    <3>1. CASE UNCHANGED <<task, done>>
      BY <2>12, <2>14, <3>1 DEF Tool, CreateTool, ExecuteEnds, CallRaises, ReleaseTool
    <3>2. CASE CallRaises(k) /\ Awaited(k)
      <4>1. PICK c \in Conversations : task[c] = "calling" /\ request[c] = k.request
        BY <3>2 DEF Awaited
      <4>2. k.request.conv = c
        BY <4>1 DEF Requests
      <4> QED
        BY <2>10, <3>2, <4>1, <4>2 DEF CallRaises, Finish
    <3> QED
      BY <2>14, <3>1, <3>2 DEF Tool, CreateTool, ExecuteEnds, CallRaises, ReleaseTool
  <2>15. CASE UNCHANGED vars
    BY <2>12, <2>15 DEF vars
  <2> QED
    BY <2>1, <2>2, <2>3, <2>4, <2>6, <2>8, <2>9, <2>11, <2>13, <2>14, <2>15
       DEF Next, Driver, Request, Answer
<1> QED
  BY <1>1, <1>2, Invariance, PTL DEF Spec, RoundsSafety
=============================================================================
