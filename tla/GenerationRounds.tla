-------------------------- MODULE GenerationRounds --------------------------
(***************************************************************************)
(* What the trainer relies on when it generates a batch with asynchronous  *)
(* inference servers (RayPPOTrainer.fit and AsyncLLMServerManager): wake   *)
(* the servers, run every conversation of the batch to its end, return,    *)
(* put the servers to sleep.  Requests reach the servers only in between.  *)
(* ChatScheduler implements this specification.                            *)
(***************************************************************************)
EXTENDS Integers

CONSTANTS Conversations, NumBatches

VARIABLES
    phase,      \* of the trainer
    batch,      \* batches submitted
    open,       \* conversations that have not come to their end
    inflight    \* conversations with a request at a server

vars == <<phase, batch, open, inflight>>

Init ==
    /\ phase = "asleep" /\ batch = 0
    /\ open = Conversations /\ inflight = {}

WakeUp ==
    /\ phase = "asleep" /\ batch < NumBatches
    /\ phase' = "awake"
    /\ UNCHANGED <<batch, open, inflight>>

Begin ==
    /\ phase = "awake" /\ inflight = {}
    /\ phase' = "generating"
    /\ batch' = batch + 1
    /\ open' = Conversations
    /\ UNCHANGED inflight

Post(c) ==
    /\ phase = "generating" /\ c \in open \ inflight
    /\ inflight' = inflight \cup {c}
    /\ UNCHANGED <<phase, batch, open>>

(* The answer arrives; it may be the conversation's last.                  *)
Answer(c) ==
    /\ c \in inflight
    /\ inflight' = inflight \ {c}
    /\ open' \in {open, open \ {c}}
    /\ UNCHANGED <<phase, batch>>

(* A conversation ends between two requests: its tools failed.             *)
End(c) ==
    /\ phase = "generating" /\ c \in open \ inflight
    /\ open' = open \ {c}
    /\ UNCHANGED <<phase, batch, inflight>>

Return ==
    /\ phase = "generating" /\ open = {}
    /\ phase' \in {"returned", "failed"}
    /\ UNCHANGED <<batch, open, inflight>>

Sleep ==
    /\ phase = "returned" /\ inflight = {}
    /\ phase' = "asleep"
    /\ UNCHANGED <<batch, open, inflight>>

Next ==
    \/ WakeUp \/ Begin \/ Return \/ Sleep
    \/ \E c \in Conversations : Post(c) \/ Answer(c) \/ End(c)

(* The driver never waits for nothing: it wakes the servers, begins,       *)
(* returns and sleeps as soon as it can.                                   *)
Fairness == WF_vars(WakeUp) /\ WF_vars(Begin) /\ WF_vars(Return) /\ WF_vars(Sleep)

Spec == Init /\ [][Next]_vars /\ Fairness
=============================================================================
