-------------------------- MODULE ActivationOffload --------------------------
(***************************************************************************)
(* Activation offloading, verl/utils/activation_offload.py: the saved      *)
(* tensors of a transformer layer (a group) are copied to the host while   *)
(* the next layer computes and are copied back while the layer after it    *)
(* runs backward.  AsyncDoubleBufferGroupOffloadHandler orders the copies  *)
(* and the computation by waits between three streams only; the host, that *)
(* is Python, runs ahead of all of them.                                   *)
(*                                                                         *)
(* The host variables are the handler's.  A stream is a queue of           *)
(* operations run in order:                                                *)
(*   "wait"           until the stream `on' has done `upto' operations     *)
(*   "forward"        computes layer g and saves its tensors               *)
(*   "backward"       of layer g: reads them                               *)
(*   "out", "in"      copies them to the host, or back                     *)
(* An operation that allocates device memory may be given any block the    *)
(* host had freed when it was enqueued, as the caching allocator does, so  *)
(* it may overwrite what such a block holds.  A layer stands for all its   *)
(* saved tensors; what they hold is the micro-batch they were saved in.    *)
(*                                                                         *)
(* A definition commented "Fault" is the definition after it with a        *)
(* plausible mistake; no action uses it.                                   *)
(***************************************************************************)
EXTENDS Integers, Sequences, FiniteSets

CONSTANTS
    Sizes,          \* pairs <<num_offload_group, num_model_group>>
    MicroBatches    \* bound: forward and backward passes

ASSUME SizesAssumption ==
    Sizes \subseteq {s \in (Nat \ {0}) \X (Nat \ {0}) : s[1] <= s[2]}
ASSUME MicroBatchesAssumption == MicroBatches \in Nat \ {0}

VARIABLES
    size,       \* num_offload_group and num_layers of this model
    micro,      \* the micro-batch the host is at
    phase,      \* what it does next with layer `layer'
    layer,
    current,    \* current_group
    count,      \* offloaded_group_count
    state,      \* tensor_tag_to_state: group -> "saved" (the tensor it saved),
                \* "key" (of a copy on the host) or "copied" (back)
    buf,        \* tensor_tag_to_buf: the groups whose tensors it refers to
    mapping,    \* group_offload_mapping: the groups with an entry
    freed,      \* the groups whose blocks the host let go of, by pool:
                \* saved (compute stream) and copied (h2d_stream)
    queue,      \* stream -> operations not yet done
    done,       \* stream -> number of operations done
    device,     \* group -> what the block it was saved in holds
    back,       \* group -> what the block it was copied back into holds
    host        \* group -> what its cpu_backup holds

handler == <<current, count, state, buf, mapping>>
hostVars == <<size, micro, phase, layer, handler, freed>>
memory == <<device, back, host>>
vars == <<hostVars, queue, done, memory>>

Streams == {"compute", "d2h", "h2d"}
Junk == 0
NumOffload == size[1]
NumLayers == size[2]
Layers == 0 .. NumLayers - 1

-----------------------------------------------------------------------------
(* Streams. *)

NoOps == [s \in Streams |-> <<>>]
Enqueue(ops, s, op) == [ops EXCEPT ![s] = Append(@, op)]

\* s.wait_stream(other): s waits for what other has been given so far.
WaitStream(ops, s, other) ==
    Enqueue(ops, s, [op |-> "wait", on |-> other,
                     upto |-> done[other] + Len(queue[other]) + Len(ops[other])])

\* An operation on the block of group g in the pool `block'.
Work(op, g, block) ==
    [op |-> op, group |-> g, block |-> block, micro |-> micro,
     reuses |-> freed[IF op = "in" THEN "copied" ELSE "saved"] \ {g}]

Submit(ops) == queue' = [s \in Streams |-> queue[s] \o ops[s]]

\* The two streams wait for one another.
FaultMeet(ops, side) == WaitStream(ops, side, "compute")
Meet(ops, side) == WaitStream(WaitStream(ops, side, "compute"), "compute", side)

-----------------------------------------------------------------------------
(* The handler, on the host. *)

Without(f, g) == [h \in DOMAIN f \ {g} |-> f[h]]
With(f, g, v) == [h \in DOMAIN f \cup {g} |-> IF h = g THEN v ELSE f[h]]

\* layer_window_map[i]: the commit at which group i leaves the device.
FaultWindow(i) ==
    LET rest == NumLayers % NumOffload IN
    (NumLayers \div NumOffload) * (i + 1) - 1 + (IF i < rest THEN i ELSE rest)
Window(i) ==
    LET rest == NumLayers % NumOffload IN
    (NumLayers \div NumOffload) * (i + 1) - 1 + (IF i < rest THEN i + 1 ELSE rest)

\* The forward of a layer, whose saved tensors tensor_push keeps.
Forward ==
    /\ phase = "forward"
    /\ current \notin DOMAIN state
    /\ state' = With(state, current, "saved")
    /\ buf' = IF current < NumOffload THEN buf \cup {current} ELSE buf
    /\ freed' = [freed EXCEPT !.saved = @ \ {current}]
    /\ Submit(Enqueue(NoOps, "compute", Work("forward", current, "saved")))
    /\ phase' = "commit"
    /\ UNCHANGED <<size, micro, layer, current, count, mapping, done, memory>>

\* bulk_offload_group(g): nothing to copy for a layer not yet computed.
Offload(ops, g) ==
    IF g \in DOMAIN state THEN Enqueue(ops, "d2h", Work("out", g, "saved")) ELSE ops

\* synchronize_on_group_commit_forward and on_group_commit_forward.
CommitForward ==
    /\ phase = "commit"
    /\ count < NumOffload
    /\ LET due == Window(count) = current
           next == due /\ count < NumOffload - 1
           out == (IF current = 0 THEN {0} ELSE {}) \cup (IF next THEN {count + 1} ELSE {})
           kick == IF current = 0 THEN Offload(WaitStream(NoOps, "d2h", "compute"), 0) ELSE NoOps
           met == IF due THEN Meet(kick, "d2h") ELSE kick
       IN /\ \A g \in out \cap DOMAIN state : state[g] # "key"
          /\ Submit(IF next THEN Offload(met, count + 1) ELSE met)
          /\ state' = [g \in DOMAIN state |-> IF g \in out THEN "key" ELSE state[g]]
          /\ mapping' = mapping \cup out
          /\ buf' = IF due THEN buf \ {count} ELSE buf
          /\ freed' = IF due /\ state'[count] = "key"
                        THEN [freed EXCEPT !.saved = @ \cup {count}] ELSE freed
          /\ count' = IF due THEN count + 1 ELSE count
    /\ current' = current + 1
    /\ phase' = IF layer = NumLayers - 1 THEN "uncommit" ELSE "forward"
    /\ layer' = IF layer = NumLayers - 1 THEN layer ELSE layer + 1
    /\ UNCHANGED <<size, micro, done, memory>>

\* on_group_commit_backward, which the backward pass meets before the layer.
FaultCommitBackward ==
    /\ phase = "uncommit"
    /\ current > 0
    /\ count \in 1 .. NumOffload
    /\ current' = current - 1
    /\ LET g == count - 1
           due == Window(g) = current'
           copied == due /\ g \in DOMAIN state /\ state[g] = "key"
           met == IF due THEN Meet(NoOps, "h2d") ELSE NoOps
           ops == IF copied THEN Enqueue(met, "h2d", Work("in", g, "copied")) ELSE met
       IN /\ due => g \in mapping
          /\ Submit(IF current' = 0 THEN WaitStream(ops, "compute", "h2d") ELSE ops)
          /\ state' = IF copied THEN [state EXCEPT ![g] = "copied"] ELSE state
          /\ mapping' = IF due THEN mapping \ {g} ELSE mapping
          /\ freed' = IF copied THEN [freed EXCEPT !.copied = @ \ {g}] ELSE freed
          /\ count' = IF due /\ count > 1 THEN count - 1 ELSE count
    /\ phase' = "backward"
    /\ UNCHANGED <<size, micro, layer, buf, done, memory>>
CommitBackward ==
    /\ phase = "uncommit"
    /\ current > 0
    /\ count \in 1 .. NumOffload
    /\ current' = current - 1
    /\ LET g == count - 1
           due == Window(g) = current'
           copied == due /\ g \in DOMAIN state /\ state[g] = "key"
           met == IF due THEN Meet(NoOps, "h2d") ELSE NoOps
           ops == IF copied THEN Enqueue(met, "h2d", Work("in", g, "copied")) ELSE met
       IN /\ due => g \in mapping
          /\ Submit(IF current' = 0 THEN WaitStream(ops, "compute", "h2d") ELSE ops)
          /\ state' = IF copied THEN [state EXCEPT ![g] = "copied"] ELSE state
          /\ mapping' = IF due THEN mapping \ {g} ELSE mapping
          /\ freed' = IF copied THEN [freed EXCEPT !.copied = @ \ {g}] ELSE freed
          /\ count' = IF current' = 0 THEN 0
                      ELSE IF due /\ count > 1 THEN count - 1 ELSE count
    /\ phase' = "backward"
    /\ UNCHANGED <<size, micro, layer, buf, done, memory>>

\* The backward of a layer: tensor_pop, and the reference to what it returns
\* is gone once the kernel is enqueued.
Backward ==
    /\ phase = "backward"
    /\ layer \in DOMAIN state
    /\ state[layer] # "key"
    /\ Submit(Enqueue(NoOps, "compute", Work("backward", layer, state[layer])))
    /\ freed' = [freed EXCEPT ![state[layer]] = @ \cup {layer}]
    /\ state' = Without(state, layer)
    /\ buf' = buf \ {layer}
    /\ layer' = IF layer = 0 THEN 0 ELSE layer - 1
    /\ micro' = IF layer = 0 THEN micro + 1 ELSE micro
    /\ phase' = IF layer > 0 THEN "uncommit" ELSE IF micro < MicroBatches THEN "forward" ELSE "end"
    /\ UNCHANGED <<size, current, count, mapping, done, memory>>

-----------------------------------------------------------------------------
(* The device runs the head of a stream. *)

Overwrite(blocks, gs) == [g \in DOMAIN blocks |-> IF g \in gs THEN Junk ELSE blocks[g]]

Compute(op) ==
    /\ op.op \in {"forward", "backward"}
    /\ device' = LET rest == Overwrite(device, op.reuses) IN
                 IF op.op = "forward" THEN [rest EXCEPT ![op.group] = op.micro] ELSE rest
    /\ UNCHANGED <<back, host>>

CopyOut(op) ==
    /\ op.op = "out"
    /\ host' = [host EXCEPT ![op.group] = device[op.group]]
    /\ UNCHANGED <<device, back>>

CopyIn(op) ==
    /\ op.op = "in"
    /\ back' = [Overwrite(back, op.reuses) EXCEPT ![op.group] = host[op.group]]
    /\ UNCHANGED <<device, host>>

Wait(op) ==
    /\ op.op = "wait"
    /\ done[op.on] >= op.upto
    /\ UNCHANGED memory

Run(s) ==
    /\ queue[s] # <<>>
    /\ LET op == Head(queue[s]) IN Compute(op) \/ CopyOut(op) \/ CopyIn(op) \/ Wait(op)
    /\ queue' = [queue EXCEPT ![s] = Tail(@)]
    /\ done' = [done EXCEPT ![s] = @ + 1]
    /\ UNCHANGED hostVars

-----------------------------------------------------------------------------

Init ==
    /\ size \in Sizes
    /\ micro = 1 /\ phase = "forward" /\ layer = 0
    /\ current = 0 /\ count = 0
    /\ state = <<>> /\ buf = {} /\ mapping = {}
    /\ freed = [saved |-> {}, copied |-> {}]
    /\ queue = NoOps
    /\ done = [s \in Streams |-> 0]
    /\ device = [g \in Layers |-> Junk]
    /\ back = [g \in Layers |-> Junk]
    /\ host = [g \in Layers |-> Junk]

Host == Forward \/ CommitForward \/ CommitBackward \/ Backward

Next == Host \/ \E s \in Streams : Run(s)

\* The host goes on by itself, and the device runs what a stream is given.
Spec == Init /\ [][Next]_vars /\ WF_vars(Host) /\ \A s \in Streams : WF_vars(Run(s))

-----------------------------------------------------------------------------
(* Properties. *)

\* The computation of the backward pass reads what its layer saved in this
\* micro-batch: the copy out came before the block was given away, the copy
\* back is complete, and it brought the right tensors.  The device may run the
\* head of the compute stream at any moment, so this holds of what is there
\* (bulk_offload_group, bulk_reload_group and their waits).
BackwardReadsOwn ==
    queue["compute"] # <<>> =>
        LET op == Head(queue["compute"])
            blocks == IF op.op # "wait" /\ op.block = "copied" THEN back ELSE device
        IN op.op = "backward" => blocks[op.group] = op.micro

\* The groups whose tensors the host keeps in device memory.
Resident == buf \cup {g \in DOMAIN state : state[g] # "key"}

\* "There are at most two activation groups in GPU memory", with one layer
\* less offloaded than the model has, as enable_activation_offloading does.
TwoGroupsResident ==
    NumOffload = NumLayers - 1 => Cardinality(Resident) <= 2

\* The streams never wait for one another in a circle and no window is missed:
\* every micro-batch runs to the end, on the host and on the device.
MicroBatchesEnd == <>(phase = "end" /\ queue = NoOps)
=============================================================================
