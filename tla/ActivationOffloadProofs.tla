----------------------- MODULE ActivationOffloadProofs -----------------------
(***************************************************************************)
(* ActivationOffload for models of any number of layers, any number of     *)
(* them offloaded and any number of micro-batches:                         *)
(*   ReadsOwnAlways    the backward pass reads what its layer saved        *)
(*   TwoGroupsAtMost   at most two groups keep their tensors on the device *)
(*                                                                         *)
(* An operation has a place in its stream that it keeps, pending or done,  *)
(* and Before and Chain say what must be done when it runs, by the waits   *)
(* that are still pending.  OpsSupplied is the invariant of the device: of *)
(* the memory an operation reads, the last write before it is the right    *)
(* one, and every later write comes after it.  It does not depend on which *)
(* stream advances.  Handler is what the handler's counters say of the     *)
(* streams: which copies the computation already waits for (OutsWaited,    *)
(* InsWaited), and that what it believes of a group is true (Believed).    *)
(***************************************************************************)
EXTENDS ActivationOffload, FiniteSetTheorems, SequenceTheorems, TLAPS

(***************************************************************************)
(* Operations by their place: the p-th operation a stream was given, done  *)
(* if p <= done[s] and pending otherwise.                                  *)
(***************************************************************************)
End(s) == done[s] + Len(queue[s])
Pending(s) == done[s] + 1 .. End(s)
Op(s, p) == queue[s][p - done[s]]

\* When stream t runs its r-th operation, s has done its p-th: it already has,
\* it is the same stream, or t waits for it before.
Waits(op, s, p) == op.op = "wait" /\ op.on = s /\ op.upto >= p
Before(s, p, t, r) ==
    \/ p <= done[s]
    \/ s = t /\ p < r
    \/ \E q \in Pending(t) : q < r /\ Waits(Op(t, q), s, p)

\* The same by way of a third stream.
Chain(s, p, t, r) ==
    \/ Before(s, p, t, r)
    \/ \E m \in Streams : \E u \in 0 .. End(m) :
        Before(m, u, t, r) /\ Before(s, p, m, u + 1)

(***************************************************************************)
(* Every memory is written by one stream.                                  *)
(***************************************************************************)
Memories == {"device", "host", "back"}
Writer == [device |-> "compute", host |-> "d2h", back |-> "h2d"]
Filler == [device |-> "forward", host |-> "out", back |-> "in"]
Value(mem, g) ==
    IF mem = "device" THEN device[g] ELSE IF mem = "host" THEN host[g] ELSE back[g]

Fills(op, mem, g) == op.op = Filler[mem] /\ op.group = g
Spoils(op, mem, g) ==
    /\ op.op \in (IF mem = "device" THEN {"forward", "backward"}
                  ELSE IF mem = "back" THEN {"in"} ELSE {})
    /\ g \in op.reuses
Writes(op, mem, g) == Fills(op, mem, g) \/ Spoils(op, mem, g)

Reads(op) == op.op \in {"out", "in", "backward"}
Source(op) ==
    IF op.op = "in" THEN "host"
    ELSE IF op.op = "backward" /\ op.block = "copied" THEN "back" ELSE "device"

\* The block of group g holds m once the writer has come to its p-th operation.
Brought(mem, g, m, p) ==
    IF p = done[Writer[mem]] THEN Value(mem, g) = m
    ELSE Fills(Op(Writer[mem], p), mem, g) /\ Op(Writer[mem], p).micro = m

\* It does when the writer has done all it was given.
Ready(mem, g, m) ==
    LET s == Writer[mem]
    IN  \E p \in done[s] .. End(s) :
            /\ Brought(mem, g, m, p)
            /\ \A k \in p + 1 .. End(s) : ~Writes(Op(s, k), mem, g)

\* It does when t runs its r-th operation.
Supplied(t, r, mem, g, m) ==
    LET s == Writer[mem]
    IN  \E p \in done[s] .. End(s) :
            /\ Brought(mem, g, m, p)
            /\ Chain(s, p, t, r)
            /\ \A k \in p + 1 .. End(s) : Writes(Op(s, k), mem, g) => Chain(t, r, s, k)

Wants(op, mem, g, m) == Reads(op) /\ Source(op) = mem /\ op.group = g /\ op.micro = m
OpsSupplied ==
    \A t \in Streams : \A r \in Pending(t) : \A mem \in Memories, g \in Layers, m \in Nat :
        Wants(Op(t, r), mem, g, m) => Supplied(t, r, mem, g, m)

(***************************************************************************)
(* The types.                                                              *)
(***************************************************************************)
WaitOps == [op: {"wait"}, on: Streams, upto: Nat]
WorkOps(kinds) ==
    [op: kinds, group: Layers, block: {"saved", "copied"}, micro: Nat, reuses: SUBSET Layers]
Kinds == [compute |-> {"forward", "backward"}, d2h |-> {"out"}, h2d |-> {"in"}]

Typed ==
    /\ size \in Sizes /\ micro \in Nat
    /\ phase \in {"forward", "commit", "uncommit", "backward", "end"}
    /\ layer \in Layers /\ current \in 0 .. NumLayers /\ count \in 0 .. NumOffload
    /\ DOMAIN state \subseteq Layers
    /\ \A g \in DOMAIN state : state[g] \in {"saved", "key", "copied"}
    /\ freed \in [{"saved", "copied"} -> SUBSET Layers]
    /\ queue \in [Streams -> Seq(WaitOps \cup WorkOps({"forward", "backward", "out", "in"}))]
    /\ \A s \in Streams : \A i \in 1 .. Len(queue[s]) : queue[s][i].op \in Kinds[s] \cup {"wait"}
    /\ done \in [Streams -> Nat]
    /\ device \in [Layers -> Nat] /\ back \in [Layers -> Nat] /\ host \in [Layers -> Nat]

(***************************************************************************)
(* The handler.                                                            *)
(***************************************************************************)
Going == phase \in {"forward", "commit"}
Has(g, st) == g \in DOMAIN state /\ state[g] = st

\* Which layers have saved their tensors, and which windows have passed.
Progress ==
    /\ phase \in {"forward", "commit", "backward"} => layer = current
    /\ phase = "uncommit" => current = layer + 1
    /\ phase = "end" => current = 0
    /\ DOMAIN state = CASE phase = "forward" -> 0 .. layer - 1
                        [] phase = "end" -> {}
                        [] OTHER -> 0 .. layer
    /\ current = 0 => count = 0
    /\ \A i \in 0 .. NumOffload - 1 : Window(i) < current => i < count
    /\ Going => /\ \A i \in 0 .. count - 1 : Window(i) < current
                /\ \A g \in DOMAIN state : state[g] # "copied"

\* A group that leaves the device is on its way until its window passes: from
\* then on the computation waits for the copy.
Leaving(g) == Has(g, "key") /\ g \notin freed["saved"]
Left == \A g \in DOMAIN state : state[g] = "key" /\ g < count => g \in freed["saved"]
OutsWaited ==
    \A p \in Pending("d2h") :
        Op("d2h", p).op = "out" /\ ~Leaving(Op("d2h", p).group) =>
            Before("d2h", p, "compute", End("compute") + 1)

\* A layer was computed before the window that sends it away, so that the
\* window of the group before it calls it back in time.
InTime ==
    \A g \in DOMAIN state : state[g] # "saved" /\ g > 0 => g < NumOffload /\ g <= Window(g - 1)
Coming(g) == IF g = 0 THEN current > 0 ELSE current > Window(g - 1)
Called == \A g \in DOMAIN state : state[g] = "copied" /\ g > 0 => count <= g
InsWaited ==
    /\ Going \/ current = 0 =>
            Before("h2d", End("h2d"), "compute", End("compute") + 1)
    /\ \A p \in Pending("h2d") :
        Op("h2d", p).op = "in" /\ Has(Op("h2d", p).group, "copied") /\ ~Coming(Op("h2d", p).group) =>
            Before("h2d", p, "compute", End("compute") + 1)

\* What the handler believes of a group is true, as soon as the streams have
\* done what they were given.
Believed ==
    \A g \in DOMAIN state, m \in {micro} :
        /\ state[g] = "saved" => Ready("device", g, m) /\ g \notin freed["saved"]
        /\ state[g] = "key" => Ready("host", g, m)
        /\ state[g] = "copied" => Ready("back", g, m) /\ g \notin freed["copied"]

Handler == Progress /\ Left /\ OutsWaited /\ InTime /\ Called /\ InsWaited /\ Believed
IInv == Typed /\ OpsSupplied /\ Handler

-----------------------------------------------------------------------------
(***************************************************************************)
(* Places in the streams.                                                  *)
(***************************************************************************)

\* The sizes.
LEMMA SizeFacts ==
    ASSUME Typed
    PROVE  /\ NumOffload \in Nat \ {0} /\ NumLayers \in Nat \ {0} /\ NumOffload <= NumLayers
           /\ \A g \in Layers : g \in Nat
BY SizesAssumption DEF Typed, NumOffload, NumLayers, Layers

\* The places of a stream and the types of its operations.
LEMMA PlaceTypes ==
    ASSUME Typed, NEW s \in Streams
    PROVE  /\ done[s] \in Nat /\ Len(queue[s]) \in Nat /\ End(s) \in Nat /\ done[s] <= End(s)
           /\ \A p \in Pending(s) :
                /\ p \in Nat /\ p - done[s] \in 1 .. Len(queue[s])
                /\ Op(s, p).op \in Kinds[s] \cup {"wait"}
                /\ Op(s, p).op = "wait" => Op(s, p) \in WaitOps
                /\ Op(s, p).op # "wait" => Op(s, p) \in WorkOps(Kinds[s])
<1> DEFINE Ops == WaitOps \cup WorkOps({"forward", "backward", "out", "in"})
<1>1. queue[s] \in Seq(Ops) /\ done[s] \in Nat
  BY DEF Typed
<1>2. Len(queue[s]) \in Nat /\ \A i \in 1 .. Len(queue[s]) : queue[s][i] \in Ops
  BY <1>1, LenProperties, ElementOfSeq
<1>3. End(s) \in Nat /\ done[s] <= End(s)
  BY <1>1, <1>2 DEF End
<1>4. ASSUME NEW p \in Pending(s)
      PROVE  /\ p \in Nat /\ p - done[s] \in 1 .. Len(queue[s])
             /\ Op(s, p).op \in Kinds[s] \cup {"wait"}
             /\ Op(s, p).op = "wait" => Op(s, p) \in WaitOps
             /\ Op(s, p).op # "wait" => Op(s, p) \in WorkOps(Kinds[s])
  <2>1. p \in Nat /\ p - done[s] \in 1 .. Len(queue[s])
    BY <1>1, <1>2 DEF Pending, End
  <2>2. Op(s, p) \in Ops
    BY <1>2, <2>1 DEF Op
  <2>3. Op(s, p).op \in Kinds[s] \cup {"wait"}
    BY <2>1 DEF Typed, Op
  <2>4. Op(s, p).op = "wait" => Op(s, p) \notin WorkOps({"forward", "backward", "out", "in"})
    BY DEF WorkOps
  <2>5. Op(s, p).op # "wait" => Op(s, p) \in WorkOps({"forward", "backward", "out", "in"})
    BY <2>2 DEF WaitOps
  <2>6. Op(s, p).op # "wait" => Op(s, p) \in WorkOps(Kinds[s])
    BY <2>3, <2>5 DEF WorkOps
  <2> QED
    BY <2>1, <2>2, <2>3, <2>4, <2>6
<1> QED
  BY <1>1, <1>2, <1>3, <1>4

\* Later is after as well.
LEMMA BeforeLater ==
    ASSUME Typed, NEW s \in Streams, NEW t \in Streams, NEW p \in Int,
           NEW r \in Int, NEW r2 \in Int, r <= r2, Before(s, p, t, r)
    PROVE  Before(s, p, t, r2)
<1>1. \A q \in Pending(t) : q \in Nat
  BY PlaceTypes
<1> QED
  BY <1>1 DEF Before

\* What is before one operation is before it with all its predecessors.
LEMMA BeforeEarlier ==
    ASSUME Typed, NEW s \in Streams, NEW t \in Streams, NEW p \in Int,
           NEW p2 \in Int, NEW r \in Int, p2 <= p, Before(s, p, t, r)
    PROVE  Before(s, p2, t, r)
<1>1. \A q \in Pending(t) : q \in Nat /\ (Op(t, q).op = "wait" => Op(t, q).upto \in Nat)
  BY PlaceTypes DEF WaitOps
<1>2. done[s] \in Nat
  BY PlaceTypes
<1> QED
  BY <1>1, <1>2 DEF Before, Waits

\* At the head of a stream, what is before has been done.
LEMMA BeforeHead ==
    ASSUME Typed, NEW s \in Streams, NEW t \in Streams, NEW p \in Int, NEW r \in Int,
           r <= done[t] + 1, Before(s, p, t, r)
    PROVE  p <= done[s]
<1>1. done[t] \in Nat /\ \A q \in Pending(t) : q \in Nat /\ q >= done[t] + 1
  BY PlaceTypes DEF Pending
<1>2. ~\E q \in Pending(t) : q < r
  BY <1>1
<1> QED
  BY <1>1, <1>2 DEF Before

\* The same by way of a third stream.
LEMMA ChainHead ==
    ASSUME Typed, NEW s \in Streams, NEW t \in Streams, NEW p \in Int, NEW r \in Int,
           r <= done[t] + 1, Chain(s, p, t, r)
    PROVE  p <= done[s]
<1>1. CASE Before(s, p, t, r)
  BY <1>1, BeforeHead
<1>2. ASSUME NEW m \in Streams, NEW u \in 0 .. End(m), Before(m, u, t, r), Before(s, p, m, u + 1)
      PROVE  p <= done[s]
  <2>1. u \in Int /\ u <= done[m] /\ done[m] \in Nat
    BY <1>2, BeforeHead, PlaceTypes
  <2> QED
    BY <1>2, <2>1, BeforeHead
<1> QED
  BY <1>1, <1>2 DEF Chain

-----------------------------------------------------------------------------
(***************************************************************************)
(* The device runs an operation.                                           *)
(***************************************************************************)
LEMMA RunPlaces ==
    ASSUME Typed, NEW x \in Streams, Run(x)
    PROVE  /\ done[x] + 1 \in Pending(x) /\ Head(queue[x]) = Op(x, done[x] + 1)
           /\ done' \in [Streams -> Nat] /\ done'[x] = done[x] + 1
           /\ \A s \in Streams \ {x} : done'[s] = done[s]
           /\ \A s \in Streams : End(s)' = End(s)
           /\ \A s \in Streams : \A p \in Pending(s)' : p \in Pending(s) /\ Op(s, p)' = Op(s, p)
           /\ \A s \in Streams : \A p \in Pending(s) :
                p \in Pending(s)' \/ (s = x /\ p = done[x] + 1)
<1> DEFINE Ops == WaitOps \cup WorkOps({"forward", "backward", "out", "in"})
<1>1. /\ queue[x] # <<>> /\ queue' = [queue EXCEPT ![x] = Tail(@)]
      /\ done' = [done EXCEPT ![x] = @ + 1]
  BY DEF Run
<1>2. queue \in [Streams -> Seq(Ops)] /\ done \in [Streams -> Nat]
  BY DEF Typed
<1> HIDE DEF Ops
<1>3. /\ Len(queue[x]) \in Nat /\ Len(queue[x]) >= 1 /\ Head(queue[x]) = queue[x][1]
      /\ Len(Tail(queue[x])) = Len(queue[x]) - 1
      /\ \A i \in 1 .. Len(queue[x]) - 1 : Tail(queue[x])[i] = queue[x][i + 1]
  BY <1>1, <1>2
<1>4. \A s \in Streams : Len(queue[s]) \in Nat
  BY <1>2
<1>5. ASSUME NEW s \in Streams, s # x
      PROVE  /\ done'[s] = done[s] /\ queue'[s] = queue[s]
             /\ End(s)' = End(s) /\ Pending(s)' = Pending(s)
             /\ \A p \in Pending(s)' : Op(s, p)' = Op(s, p)
  <2>1. done'[s] = done[s] /\ queue'[s] = queue[s]
    BY <1>1, <1>2, <1>5
  <2> QED
    BY <2>1 DEF End, Pending, Op
<1>6. /\ done'[x] = done[x] + 1 /\ queue'[x] = Tail(queue[x]) /\ done[x] \in Nat
  BY <1>1, <1>2
<1>7. End(x)' = End(x)
  BY <1>3, <1>6 DEF End
<1>8. done[x] + 1 \in Pending(x) /\ Head(queue[x]) = Op(x, done[x] + 1)
  BY <1>3, <1>6 DEF Pending, End, Op
<1>9. ASSUME NEW p \in Pending(x)'
      PROVE  p \in Pending(x) /\ Op(x, p)' = Op(x, p)
  <2>1. p \in Int /\ done[x] + 2 <= p /\ p <= End(x)
    BY <1>3, <1>6, <1>7, <1>9 DEF Pending, End
  <2>2. p - done[x] - 1 \in 1 .. Len(queue[x]) - 1
    BY <1>3, <1>6, <2>1 DEF End
  <2>3. Op(x, p)' = Tail(queue[x])[p - (done[x] + 1)]
    BY <1>6 DEF Op
  <2>4. p - (done[x] + 1) = p - done[x] - 1 /\ p - done[x] - 1 + 1 = p - done[x]
    BY <1>6, <2>1
  <2>5. Op(x, p)' = Op(x, p)
    BY <1>3, <2>2, <2>3, <2>4 DEF Op
  <2> QED
    BY <1>6, <2>1, <2>5 DEF Pending
<1>10. ASSUME NEW p \in Pending(x) PROVE p \in Pending(x)' \/ p = done[x] + 1
  BY <1>6, <1>7 DEF Pending
<1>11. done' \in [Streams -> Nat]
  BY <1>1, <1>2
<1> QED
  BY <1>5, <1>6, <1>7, <1>8, <1>9, <1>10, <1>11

\* An order that holds goes on to hold when a stream advances.
LEMMA RunBefore ==
    ASSUME Typed, NEW x \in Streams, Run(x),
           NEW s \in Streams, NEW t \in Streams, NEW p \in Int, NEW r \in Int,
           Before(s, p, t, r)
    PROVE  Before(s, p, t, r)'
<1>1. done[s] \in Nat /\ done'[s] \in Nat /\ done'[s] >= done[s]
  BY RunPlaces, PlaceTypes
<1>2. CASE p <= done[s]
  BY <1>1, <1>2 DEF Before
<1>3. CASE s = t /\ p < r
  BY <1>3 DEF Before
<1>4. ASSUME NEW q \in Pending(t), q < r, Waits(Op(t, q), s, p)
      PROVE  Before(s, p, t, r)'
  <2>1. CASE q \in Pending(t)'
    <3>1. Op(t, q)' = Op(t, q)
      BY <2>1, RunPlaces
    <3>2. Waits(Op(t, q), s, p)'
      BY <1>4, <3>1 DEF Waits
    <3> QED
      BY <1>4, <2>1, <3>2 DEF Before
  <2>2. CASE t = x /\ q = done[x] + 1
    <3>1. Op(t, q) = Head(queue[x]) /\ Op(t, q).op = "wait" /\ Op(t, q).on = s
      BY <1>4, <2>2, RunPlaces DEF Waits
    <3>2. done[s] >= Op(t, q).upto
      BY <3>1 DEF Run, Compute, CopyOut, CopyIn, Wait
    <3>3. Op(t, q).upto \in Nat
      BY <3>1, PlaceTypes DEF WaitOps
    <3> QED
      BY <1>1, <1>4, <3>2, <3>3 DEF Waits, Before
  <2> QED
    BY <2>1, <2>2, RunPlaces
<1> QED
  BY <1>2, <1>3, <1>4 DEF Before

\* The same by way of a third stream.
LEMMA RunChain ==
    ASSUME Typed, NEW x \in Streams, Run(x),
           NEW s \in Streams, NEW t \in Streams, NEW p \in Int, NEW r \in Int,
           Chain(s, p, t, r)
    PROVE  Chain(s, p, t, r)'
<1>1. CASE Before(s, p, t, r)
  BY <1>1, RunBefore DEF Chain
<1>2. ASSUME NEW m \in Streams, NEW u \in 0 .. End(m), Before(m, u, t, r), Before(s, p, m, u + 1)
      PROVE  Chain(s, p, t, r)'
  <2>1. End(m)' = End(m) /\ u \in Int /\ u + 1 \in Int
    BY RunPlaces, PlaceTypes
  <2>2. Before(m, u, t, r)' /\ Before(s, p, m, u + 1)'
    BY <1>2, <2>1, RunBefore
  <2> QED
    BY <2>1, <2>2 DEF Chain
<1> QED
  BY <1>1, <1>2 DEF Chain

\* What the operation at the head of a stream reads is what it is meant to.
LEMMA HeadSupplied ==
    ASSUME Typed, NEW t \in Streams, NEW mem \in Memories, NEW g, NEW m,
           Supplied(t, done[t] + 1, mem, g, m)
    PROVE  Value(mem, g) = m
<1> DEFINE s == Writer[mem]
<1>1. s \in Streams
  BY DEF Memories, Writer, Streams
<1>2. PICK p \in done[s] .. End(s) : Brought(mem, g, m, p) /\ Chain(s, p, t, done[t] + 1)
  BY DEF Supplied
<1>3. done[t] + 1 \in Int /\ done[s] \in Nat /\ p \in Int
  BY <1>1, PlaceTypes
<1>4. p <= done[s]
  BY <1>1, <1>2, <1>3, ChainHead
<1> QED
  BY <1>2, <1>3, <1>4 DEF Brought

\* Of a memory, a stream changes the blocks its operation writes.
LEMMA RunValue ==
    ASSUME Typed, OpsSupplied, NEW x \in Streams, Run(x), NEW mem \in Memories, NEW g \in Layers,
           NEW op, op = Op(x, done[x] + 1)
    PROVE  /\ x # Writer[mem] \/ ~Writes(op, mem, g) => Value(mem, g)' = Value(mem, g)
           /\ x = Writer[mem] /\ Fills(op, mem, g) => Value(mem, g)' = op.micro
<1>1. op = Head(queue[x]) /\ done[x] + 1 \in Pending(x)
  BY RunPlaces
<1>2. /\ op.op \in Kinds[x] \cup {"wait"}
      /\ op.op # "wait" => op \in WorkOps(Kinds[x])
  BY <1>1, PlaceTypes
<1>3. Compute(op) \/ CopyOut(op) \/ CopyIn(op) \/ Wait(op)
  BY <1>1 DEF Run
<1>4. Reads(op) => Value(Source(op), op.group) = op.micro
  <2> SUFFICES ASSUME Reads(op) PROVE Value(Source(op), op.group) = op.micro
    OBVIOUS
  <2>1. op.op # "wait" /\ op.group \in Layers /\ op.micro \in Nat
    BY <1>2 DEF Reads, WorkOps
  <2>2. Source(op) \in Memories /\ Wants(Op(x, done[x] + 1), Source(op), op.group, op.micro)
    BY DEF Source, Memories, Wants
  <2>3. Supplied(x, done[x] + 1, Source(op), op.group, op.micro)
    BY <1>1, <2>1, <2>2 DEF OpsSupplied
  <2> QED
    BY <2>2, <2>3, HeadSupplied
<1>5. /\ device \in [Layers -> Nat] /\ back \in [Layers -> Nat] /\ host \in [Layers -> Nat]
  BY DEF Typed
<1>6. CASE Wait(op)
  <2>1. op.op = "wait" /\ UNCHANGED memory
    BY <1>6 DEF Wait
  <2> QED
    BY <2>1 DEF memory, Value, Fills, Filler, Memories
<1>7. CASE Compute(op)
  <2>1. op.op \in {"forward", "backward"} /\ op \in WorkOps(Kinds[x]) /\ x = "compute"
    BY <1>2, <1>7 DEF Compute, Kinds, Streams
  <2>2. op.group \in Layers
    BY <2>1 DEF WorkOps
  <2>3. back' = back /\ host' = host
    BY <1>7 DEF Compute
  <2>4. g \notin op.reuses /\ ~(op.op = "forward" /\ op.group = g) => device'[g] = device[g]
    BY <1>5, <1>7, <2>2 DEF Compute, Overwrite
  <2>5. op.op = "forward" /\ op.group = g => device'[g] = op.micro
    BY <1>5, <1>7, <2>2 DEF Compute, Overwrite
  <2>6. CASE mem = "device"
    <3>1. Writes(op, mem, g) <=> g \in op.reuses \/ (op.op = "forward" /\ op.group = g)
      BY <2>1, <2>6 DEF Writes, Fills, Spoils, Filler
    <3>2. Fills(op, mem, g) <=> op.op = "forward" /\ op.group = g
      BY <2>6 DEF Fills, Filler
    <3> QED
      BY <2>1, <2>4, <2>5, <2>6, <3>1, <3>2 DEF Writer, Value
  <2>7. CASE mem # "device"
    <3>1. x # Writer[mem] /\ Value(mem, g)' = Value(mem, g)
      BY <2>1, <2>3, <2>7 DEF Writer, Memories, Value
    <3> QED
      BY <3>1
  <2> QED
    BY <2>6, <2>7
<1>8. CASE CopyOut(op)
  <2>1. op.op = "out" /\ op \in WorkOps(Kinds[x]) /\ x = "d2h"
    BY <1>2, <1>8 DEF CopyOut, Kinds, Streams
  <2>2. op.group \in Layers
    BY <2>1 DEF WorkOps
  <2>3. device' = device /\ back' = back /\ host' = [host EXCEPT ![op.group] = device[op.group]]
    BY <1>8 DEF CopyOut
  <2>4. device[op.group] = op.micro
    BY <1>4, <2>1 DEF Reads, Source, Value
  <2>5. CASE mem = "host"
    <3>1. Fills(op, mem, g) <=> op.group = g
      BY <2>1, <2>5 DEF Fills, Filler
    <3>2. Writes(op, mem, g) <=> op.group = g
      BY <2>5, <3>1 DEF Writes, Spoils
    <3>3. /\ op.group # g => host'[g] = host[g]
          /\ op.group = g => host'[g] = op.micro
      BY <1>5, <2>2, <2>3, <2>4
    <3> QED
      BY <2>1, <2>5, <3>1, <3>2, <3>3 DEF Value, Writer
  <2>6. CASE mem # "host"
    <3>1. x # Writer[mem] /\ Value(mem, g)' = Value(mem, g)
      BY <2>1, <2>3, <2>6 DEF Writer, Memories, Value
    <3> QED
      BY <3>1
  <2> QED
    BY <2>5, <2>6
<1>9. CASE CopyIn(op)
  <2>1. op.op = "in" /\ op \in WorkOps(Kinds[x]) /\ x = "h2d"
    BY <1>2, <1>9 DEF CopyIn, Kinds, Streams
  <2>2. op.group \in Layers
    BY <2>1 DEF WorkOps
  <2>3. device' = device /\ host' = host
        /\ back' = [Overwrite(back, op.reuses) EXCEPT ![op.group] = host[op.group]]
    BY <1>9 DEF CopyIn
  <2>4. host[op.group] = op.micro
    BY <1>4, <2>1 DEF Reads, Source, Value
  <2>5. CASE mem = "back"
    <3>1. Fills(op, mem, g) <=> op.group = g
      BY <2>1, <2>5 DEF Fills, Filler
    <3>2. Writes(op, mem, g) <=> op.group = g \/ g \in op.reuses
      BY <2>1, <2>5, <3>1 DEF Writes, Spoils
    <3>3. /\ op.group # g /\ g \notin op.reuses => back'[g] = back[g]
          /\ op.group = g => back'[g] = op.micro
      BY <1>5, <2>2, <2>3, <2>4 DEF Overwrite
    <3> QED
      BY <2>1, <2>5, <3>1, <3>2, <3>3 DEF Value, Writer
  <2>6. CASE mem # "back"
    <3>1. x # Writer[mem] /\ Value(mem, g)' = Value(mem, g)
      BY <2>1, <2>3, <2>6 DEF Writer, Memories, Value
    <3> QED
      BY <3>1
  <2> QED
    BY <2>5, <2>6
<1> QED
  BY <1>3, <1>6, <1>7, <1>8, <1>9

\* The last writer stays the last writer, or has written.
LEMMA RunBrought ==
    ASSUME Typed, OpsSupplied, NEW x \in Streams, Run(x), NEW mem \in Memories,
           NEW g \in Layers, NEW m, NEW s, s = Writer[mem], NEW p \in done[s] .. End(s),
           Brought(mem, g, m, p),
           x = s /\ p = done[x] => ~Writes(Op(x, done[x] + 1), mem, g),
           NEW p2, p2 = IF x = s /\ p = done[s] THEN p + 1 ELSE p
    PROVE  p2 \in done'[s] .. End(s)' /\ Brought(mem, g, m, p2)'
<1>1. s \in Streams
  BY DEF Memories, Writer, Streams
<1>2. /\ done[s] \in Nat /\ End(s) \in Nat /\ p \in Nat /\ done'[s] \in Nat
      /\ x = s => done'[s] = done[s] + 1 /\ done[s] + 1 <= End(s)
      /\ x # s => done'[s] = done[s]
      /\ End(s)' = End(s)
  BY <1>1, PlaceTypes, RunPlaces DEF Pending
<1>3. p2 \in done'[s] .. End(s)'
  BY <1>2
<1>4. CASE p = done[s]
  <2>1. Value(mem, g) = m
    BY <1>4 DEF Brought
  <2>2. Value(mem, g)' = Value(mem, g)
    BY <1>4, RunValue
  <2>3. p2 = done'[s]
    BY <1>2, <1>4
  <2> QED
    BY <1>3, <2>1, <2>2, <2>3 DEF Brought
<1>5. CASE p # done[s]
  <2>1. Fills(Op(s, p), mem, g) /\ Op(s, p).micro = m /\ p2 = p /\ p \in Pending(s)
    BY <1>2, <1>5 DEF Brought, Pending
  <2>2. CASE x = s /\ p = done[s] + 1
    <3>1. Value(mem, g)' = m
      BY <2>1, <2>2, RunValue
    <3> QED
      BY <1>2, <1>3, <2>1, <2>2, <3>1 DEF Brought
  <2>3. CASE ~(x = s /\ p = done[s] + 1)
    <3>1. p \in Pending(s)' /\ Op(s, p)' = Op(s, p)
      BY <1>1, <2>1, <2>3, RunPlaces
    <3>2. p # done'[s]
      BY <1>2, <3>1 DEF Pending
    <3> QED
      BY <1>3, <2>1, <3>1, <3>2 DEF Brought, Fills
  <2> QED
    BY <2>2, <2>3
<1> QED
  BY <1>4, <1>5

\* A block that will hold m goes on to when a stream advances.
LEMMA RunReady ==
    ASSUME Typed, OpsSupplied, NEW x \in Streams, Run(x), NEW mem \in Memories,
           NEW g \in Layers, NEW m, Ready(mem, g, m)
    PROVE  Ready(mem, g, m)'
<1>0. PICK s : s = Writer[mem]
  OBVIOUS
<1>1. s \in Streams
  BY <1>0 DEF Memories, Writer, Streams
<1>2. PICK p \in done[s] .. End(s) :
        Brought(mem, g, m, p) /\ \A k \in p + 1 .. End(s) : ~Writes(Op(s, k), mem, g)
  BY <1>0 DEF Ready
<1>p. PICK p2 : p2 = IF x = s /\ p = done[s] THEN p + 1 ELSE p
  OBVIOUS
<1>3. /\ done[s] \in Nat /\ End(s) \in Nat /\ p \in Nat /\ End(s)' = End(s) /\ p2 \in Nat /\ p2 >= p
      /\ (x = s => done[s] + 1 <= End(s)) /\ done'[s] \in Nat
  BY <1>1, <1>p, PlaceTypes, RunPlaces DEF Pending
<1>4. x = s /\ p = done[x] => ~Writes(Op(x, done[x] + 1), mem, g)
  BY <1>2, <1>3
<1>5. p2 \in done'[s] .. End(s)' /\ Brought(mem, g, m, p2)'
  BY <1>0, <1>2, <1>4, <1>p, RunBrought
<1>6. ASSUME NEW k \in p2 + 1 .. End(s)' PROVE ~Writes(Op(s, k), mem, g)'
  <2>1. k \in p + 1 .. End(s) /\ k \in Pending(s)'
    BY <1>1, <1>3, <1>5 DEF Pending
  <2>2. Op(s, k)' = Op(s, k) /\ ~Writes(Op(s, k), mem, g)
    BY <1>1, <1>2, <2>1, RunPlaces
  <2> QED
    BY <2>2 DEF Writes, Fills, Spoils
<1> QED
  BY <1>0, <1>5, <1>6 DEF Ready

\* So does what a pending operation is going to read.
LEMMA RunSupplied ==
    ASSUME Typed, OpsSupplied, NEW x \in Streams, Run(x), NEW mem \in Memories,
           NEW g \in Layers, NEW m, NEW t \in Streams, NEW r \in Pending(t)',
           Supplied(t, r, mem, g, m)
    PROVE  Supplied(t, r, mem, g, m)'
<1>0. PICK s : s = Writer[mem]
  OBVIOUS
<1>1. s \in Streams
  BY <1>0 DEF Memories, Writer, Streams
<1>2. PICK p \in done[s] .. End(s) :
        /\ Brought(mem, g, m, p) /\ Chain(s, p, t, r)
        /\ \A k \in p + 1 .. End(s) : Writes(Op(s, k), mem, g) => Chain(t, r, s, k)
  BY <1>0 DEF Supplied
<1>p. PICK p2 : p2 = IF x = s /\ p = done[s] THEN p + 1 ELSE p
  OBVIOUS
<1>3. /\ done[s] \in Nat /\ End(s) \in Nat /\ p \in Nat /\ End(s)' = End(s) /\ p2 \in Nat /\ p2 >= p
      /\ (x = s => done[s] + 1 <= End(s) /\ done'[s] = done[s] + 1) /\ done'[s] \in Nat
  BY <1>1, <1>p, PlaceTypes, RunPlaces DEF Pending
<1>r. done[t] \in Nat /\ r \in Int /\ r > done[t]
  BY PlaceTypes, RunPlaces DEF Pending
<1>4. x = s /\ p = done[x] => ~Writes(Op(x, done[x] + 1), mem, g)
  <2> SUFFICES ASSUME x = s, p = done[x], Writes(Op(x, done[x] + 1), mem, g) PROVE FALSE
    OBVIOUS
  <2>1. Chain(t, r, s, done[s] + 1)
    BY <1>2, <1>3
  <2>2. r <= done[t]
    BY <1>1, <1>3, <1>r, <2>1, ChainHead
  <2> QED
    BY <1>r, <2>2
<1>5. p2 \in done'[s] .. End(s)' /\ Brought(mem, g, m, p2)'
  BY <1>0, <1>2, <1>4, <1>p, RunBrought
<1>6. Chain(s, p2, t, r)'
  <2>1. CASE p2 = p
    BY <1>1, <1>2, <1>3, <1>r, <2>1, RunChain
  <2>2. CASE p2 # p
    <3>1. p2 <= done'[s]
      BY <1>3, <1>p, <2>2
    <3> QED
      BY <3>1 DEF Chain, Before
  <2> QED
    BY <2>1, <2>2
<1>7. ASSUME NEW k \in p2 + 1 .. End(s)', Writes(Op(s, k), mem, g)' PROVE Chain(t, r, s, k)'
  <2>1. k \in p + 1 .. End(s) /\ k \in Pending(s)' /\ k \in Int
    BY <1>1, <1>3, <1>5 DEF Pending
  <2>2. Op(s, k)' = Op(s, k)
    BY <1>1, <2>1, RunPlaces
  <2>3. Chain(t, r, s, k)
    BY <1>2, <1>7, <2>1, <2>2 DEF Writes, Fills, Spoils
  <2> QED
    BY <1>1, <1>r, <2>1, <2>3, RunChain
<1> QED
  BY <1>0, <1>5, <1>6, <1>7 DEF Supplied

\* No step of a stream takes from an operation what it is meant to read.
LEMMA RunOpsSupplied ==
    ASSUME Typed, OpsSupplied, NEW x \in Streams, Run(x)
    PROVE  OpsSupplied'
<1>1. Layers' = Layers
  BY DEF Run, hostVars, Layers, NumLayers
<1> SUFFICES ASSUME NEW t \in Streams, NEW r \in Pending(t)', NEW mem \in Memories,
                    NEW g \in Layers, NEW m \in Nat, Wants(Op(t, r), mem, g, m)'
             PROVE  Supplied(t, r, mem, g, m)'
  BY <1>1 DEF OpsSupplied
<1>2. r \in Pending(t) /\ Op(t, r)' = Op(t, r)
  BY RunPlaces
<1>3. Wants(Op(t, r), mem, g, m)
  BY <1>2 DEF Wants, Reads, Source
<1>4. Supplied(t, r, mem, g, m)
  BY <1>2, <1>3 DEF OpsSupplied
<1> QED
  BY <1>4, RunSupplied

\* A step of a stream keeps the types: what it copies is what it was meant to.
LEMMA RunTyped ==
    ASSUME Typed, OpsSupplied, NEW x \in Streams, Run(x)
    PROVE  Typed'
<1> DEFINE Ops == WaitOps \cup WorkOps({"forward", "backward", "out", "in"})
<1>1. UNCHANGED hostVars /\ Layers' = Layers /\ NumLayers' = NumLayers /\ NumOffload' = NumOffload
  BY DEF Run, hostVars, Layers, NumLayers, NumOffload
<1>2. Ops' = Ops
  BY <1>1 DEF WorkOps
<1>3. /\ queue[x] # <<>> /\ queue \in [Streams -> Seq(Ops)]
      /\ queue' = [queue EXCEPT ![x] = Tail(@)]
  BY DEF Run, Typed
<1>4. queue' \in [Streams -> Seq(Ops)]
  <2> HIDE DEF Ops
  <2> QED
    BY <1>3
<1>5. ASSUME NEW s \in Streams, NEW i \in 1 .. Len(queue'[s])
      PROVE  queue'[s][i].op \in Kinds[s] \cup {"wait"}
  <2> HIDE DEF Ops
  <2>1. CASE s = x
    <3>1. Len(queue[x]) \in Nat /\ i \in Int /\ i + 1 \in 1 .. Len(queue[x]) /\ queue'[x][i] = queue[x][i + 1]
      BY <1>3, <1>5, <2>1
    <3> QED
      BY <2>1, <3>1 DEF Typed
  <2>2. CASE s # x
    BY <1>3, <1>5, <2>2 DEF Typed
  <2> QED
    BY <2>1, <2>2
<1>6. done' \in [Streams -> Nat]
  BY RunPlaces
<1>7. device' \in [Layers -> Nat] /\ back' \in [Layers -> Nat] /\ host' \in [Layers -> Nat]
  <2> DEFINE op == Head(queue[x])
  <2>1. /\ op.op \in Kinds[x] \cup {"wait"} /\ (op.op # "wait" => op \in WorkOps(Kinds[x]))
    BY RunPlaces, PlaceTypes
  <2>2. op.op # "wait" => op.group \in Layers /\ op.micro \in Nat
    BY <2>1 DEF WorkOps
  <2>3. Compute(op) \/ CopyOut(op) \/ CopyIn(op) \/ Wait(op)
    BY DEF Run
  <2>4. device \in [Layers -> Nat] /\ back \in [Layers -> Nat] /\ host \in [Layers -> Nat]
    BY DEF Typed
  <2> HIDE DEF op
  <2>5. Overwrite(device, op.reuses) \in [Layers -> Nat] /\ Overwrite(back, op.reuses) \in [Layers -> Nat]
    BY <2>4 DEF Overwrite, Junk
  <2>6. CASE Compute(op)
    BY <2>2, <2>4, <2>5, <2>6 DEF Compute
  <2>7. CASE CopyOut(op)
    BY <2>2, <2>4, <2>7 DEF CopyOut
  <2>8. CASE CopyIn(op)
    BY <2>2, <2>4, <2>5, <2>8 DEF CopyIn
  <2>9. CASE Wait(op)
    BY <2>4, <2>9 DEF Wait, memory
  <2> QED
    BY <2>3, <2>6, <2>7, <2>8, <2>9
<1>8. /\ size' \in Sizes /\ micro' \in Nat
      /\ phase' \in {"forward", "commit", "uncommit", "backward", "end"}
      /\ layer' \in Layers /\ current' \in 0 .. NumLayers /\ count' \in 0 .. NumOffload
      /\ DOMAIN state' \subseteq Layers
      /\ \A g \in DOMAIN state' : state'[g] \in {"saved", "key", "copied"}
      /\ freed' \in [{"saved", "copied"} -> SUBSET Layers]
  BY <1>1 DEF Typed, hostVars, handler
<1> QED
  BY <1>1, <1>2, <1>4, <1>5, <1>6, <1>7, <1>8 DEF Typed

\* It leaves the handler alone, and what the handler believes.
LEMMA RunHandler ==
    ASSUME IInv, NEW x \in Streams, Run(x)
    PROVE  Handler'
<1> USE DEF IInv
<1>1. /\ UNCHANGED <<size, micro, phase, layer, current, count, state, buf, mapping, freed>>
      /\ NumLayers' = NumLayers /\ NumOffload' = NumOffload
      /\ \A i : Window(i)' = Window(i)
  BY DEF Run, hostVars, handler, NumLayers, NumOffload, Window
<1>2. Progress'
  BY <1>1 DEF Handler, Progress, Going
<1>3. Left' /\ InTime' /\ Called'
  BY <1>1 DEF Handler, Left, InTime, Called
<1>e. "compute" \in Streams /\ "d2h" \in Streams /\ "h2d" \in Streams
  BY DEF Streams
<1>4. \A s \in Streams : End(s)' = End(s) /\ End(s) \in Nat
  BY RunPlaces, PlaceTypes
<1>5. OutsWaited'
  <2> SUFFICES ASSUME NEW p \in Pending("d2h")', Op("d2h", p)'.op = "out", ~Leaving(Op("d2h", p).group)'
               PROVE  Before("d2h", p, "compute", End("compute") + 1)'
    BY DEF OutsWaited
  <2>1. p \in Pending("d2h") /\ Op("d2h", p)' = Op("d2h", p) /\ p \in Nat
    BY <1>e, RunPlaces, PlaceTypes
  <2>2. Before("d2h", p, "compute", End("compute") + 1)
    BY <1>1, <2>1 DEF Handler, OutsWaited, Leaving, Has
  <2>3. PICK r \in Int : r = End("compute") + 1
    BY <1>4, <1>e
  <2>4. Before("d2h", p, "compute", r)'
    BY <1>e, <2>1, <2>2, <2>3, RunBefore
  <2> QED
    BY <1>4, <1>e, <2>3, <2>4 DEF Before
<1>6. InsWaited'
  <2>0. PICK r \in Int : r = End("compute") + 1
    BY <1>4, <1>e
  <2>1. ASSUME Going \/ current = 0
        PROVE  Before("h2d", End("h2d"), "compute", End("compute") + 1)'
    <3>1. PICK p \in Int : p = End("h2d")
      BY <1>4, <1>e
    <3>2. Before("h2d", p, "compute", r)
      BY <2>0, <2>1, <3>1 DEF Handler, InsWaited
    <3>3. Before("h2d", p, "compute", r)'
      BY <1>e, <3>2, RunBefore
    <3> QED
      BY <1>4, <1>e, <2>0, <3>1, <3>3 DEF Before, Waits
  <2>2. ASSUME NEW p \in Pending("h2d")', Op("h2d", p)'.op = "in",
               Has(Op("h2d", p).group, "copied")', ~Coming(Op("h2d", p).group)'
        PROVE  Before("h2d", p, "compute", End("compute") + 1)'
    <3>1. p \in Pending("h2d") /\ Op("h2d", p)' = Op("h2d", p) /\ p \in Nat
      BY <1>e, <2>2, RunPlaces, PlaceTypes
    <3>2. Before("h2d", p, "compute", r)
      BY <1>1, <2>0, <2>2, <3>1 DEF Handler, InsWaited, Coming, Has
    <3>3. Before("h2d", p, "compute", r)'
      BY <1>e, <3>1, <3>2, RunBefore
    <3> QED
      BY <1>4, <1>e, <2>0, <3>3 DEF Before
  <2> QED
    BY <1>1, <2>1, <2>2 DEF InsWaited, Going
<1>7. Believed'
  <2> SUFFICES ASSUME NEW g \in DOMAIN state, NEW m \in {micro}
               PROVE  /\ state[g] = "saved" => Ready("device", g, m)' /\ g \notin freed["saved"]
                      /\ state[g] = "key" => Ready("host", g, m)'
                      /\ state[g] = "copied" => Ready("back", g, m)' /\ g \notin freed["copied"]
    BY <1>1 DEF Believed
  <2>1. g \in Layers
    BY DEF Typed
  <2>2. \A mem \in Memories : Ready(mem, g, m) => Ready(mem, g, m)'
    BY <2>1, RunReady
  <2> QED
    BY <2>2 DEF Handler, Believed, Memories
<1> QED
  BY <1>2, <1>3, <1>5, <1>6, <1>7 DEF Handler

\* Between two steps the device may run what is at the head of the compute
\* stream: OpsSupplied is all that this needs.
LEMMA ReadsOwn == Typed /\ OpsSupplied => BackwardReadsOwn
<1> SUFFICES ASSUME Typed, OpsSupplied, queue["compute"] # <<>>, Head(queue["compute"]).op = "backward"
             PROVE  LET op == Head(queue["compute"])
                        blocks == IF op.op # "wait" /\ op.block = "copied" THEN back ELSE device
                    IN  blocks[op.group] = op.micro
  BY DEF BackwardReadsOwn
<1> DEFINE t == "compute"
           r == done[t] + 1
           op == Op(t, r)
<1>1. t \in Streams
  BY DEF Streams
<1>2. /\ queue[t] \in Seq(WaitOps \cup WorkOps({"forward", "backward", "out", "in"})) /\ done[t] \in Nat
  BY <1>1 DEF Typed
<1>3. Len(queue[t]) \in Nat /\ Len(queue[t]) >= 1 /\ Head(queue[t]) = queue[t][1]
  BY <1>2, HeadTailProperties, LenProperties, EmptySeq
<1>4. r \in Pending(t) /\ Head(queue[t]) = op
  BY <1>2, <1>3 DEF Pending, End, Op
<1>5. op.op = "backward" /\ op.group \in Layers /\ op.micro \in Nat
  BY <1>1, <1>4, PlaceTypes DEF WorkOps
<1>6. Source(op) \in Memories /\ Wants(op, Source(op), op.group, op.micro)
  BY <1>5 DEF Source, Memories, Wants, Reads
<1>7. Supplied(t, r, Source(op), op.group, op.micro)
  BY <1>1, <1>4, <1>5, <1>6 DEF OpsSupplied
<1>8. Value(Source(op), op.group) = op.micro
  <2> HIDE DEF op, t
  <2> QED
    BY <1>1, <1>6, <1>7, HeadSupplied DEF r
<1> HIDE DEF op
<1> QED
  BY <1>4, <1>5, <1>8 DEF Source, Value

-----------------------------------------------------------------------------
(***************************************************************************)
(* The host gives the streams more to do.                                  *)
(***************************************************************************)
AllOps == WaitOps \cup WorkOps({"forward", "backward", "out", "in"})
Given(ops) ==
    /\ ops \in [Streams -> Seq(AllOps)]
    /\ \A s \in Streams : \A j \in 1 .. Len(ops[s]) : ops[s][j].op \in Kinds[s] \cup {"wait"}
    /\ Submit(ops)
    /\ UNCHANGED <<size, done, memory>>

\* The two parts of a queue that was added to.
LEMMA Concatenated ==
    ASSUME NEW S, NEW q \in Seq(S), NEW r \in Seq(S), NEW n, n = Len(q), NEW k, k = Len(r)
    PROVE  /\ n \in Nat /\ k \in Nat /\ Len(q \o r) = n + k
           /\ \A i \in 1 .. n : (q \o r)[i] = q[i]
           /\ \A j \in 1 .. k : (q \o r)[n + j] = r[j]
<1>1. n \in Nat /\ k \in Nat
  BY LenProperties
<1>2. /\ Len(q \o r) = n + k
      /\ \A i \in 1 .. n + k : (q \o r)[i] = IF i <= n THEN q[i] ELSE r[i - n]
  BY ConcatProperties
<1>3. \A i \in 1 .. n : i \in 1 .. n + k /\ i <= n
  BY <1>1
<1>4. \A j \in 1 .. k : n + j \in 1 .. n + k /\ ~(n + j <= n) /\ n + j - n = j
  BY <1>1
<1> QED
  BY <1>1, <1>2, <1>3, <1>4

\* A place beyond the first part is in the second.
LEMMA EitherPart ==
    ASSUME NEW n \in Nat, NEW k \in Nat, NEW i \in 1 .. n + k, i \notin 1 .. n
    PROVE  \E j \in 1 .. k : i = n + j
<1>1. i - n \in 1 .. k /\ i = n + (i - n)
  OBVIOUS
<1> QED
  BY <1>1

\* What a stream was given before keeps its place, and the new comes after.
LEMMA GivenPlaces ==
    ASSUME Typed, NEW ops, Given(ops), NEW s \in Streams, NEW e, e = End(s)
    PROVE  /\ Len(ops[s]) \in Nat /\ e \in Nat /\ End(s)' = e + Len(ops[s]) /\ End(s)' \in Nat
           /\ \A p \in Pending(s) : p \in Pending(s)' /\ Op(s, p)' = Op(s, p) /\ p \in Nat /\ p <= e
           /\ \A j \in 1 .. Len(ops[s]) : e + j \in Pending(s)' /\ Op(s, e + j)' = ops[s][j]
           /\ \A p \in Pending(s)' : p \in Pending(s) \/ \E j \in 1 .. Len(ops[s]) : p = e + j
<1>1. queue[s] \in Seq(AllOps) /\ ops[s] \in Seq(AllOps) /\ queue'[s] = queue[s] \o ops[s]
      /\ done[s] \in Nat /\ done'[s] = done[s]
  BY DEF Typed, Given, Submit, AllOps
<1>n. PICK a \in Seq(AllOps), b \in Seq(AllOps), n, k, d \in Nat :
        /\ a = queue[s] /\ b = ops[s] /\ n = Len(a) /\ k = Len(b) /\ d = done[s]
        /\ queue'[s] = a \o b /\ d = done'[s]
  BY <1>1, LenProperties
<1>c. PICK q : q = a \o b
  OBVIOUS
<1>2. /\ n \in Nat /\ k \in Nat /\ Len(q) = n + k
      /\ \A i \in 1 .. n : q[i] = a[i]
      /\ \A j \in 1 .. k : q[n + j] = b[j]
  <2>1. /\ n \in Nat /\ k \in Nat /\ Len(a \o b) = n + k
        /\ \A i \in 1 .. n : (a \o b)[i] = a[i]
        /\ \A j \in 1 .. k : (a \o b)[n + j] = b[j]
    <3>1. n = Len(a) /\ k = Len(b) /\ a \in Seq(AllOps) /\ b \in Seq(AllOps)
      BY <1>n
    <3> HIDE <1>n, <1>1
    <3> QED
      BY <3>1, Concatenated
  <2> QED
    BY <1>c, <2>1
<1>q. queue'[s] = q /\ queue[s] = a /\ done'[s] = d /\ done[s] = d /\ Len(a) = n
  BY <1>c, <1>n
<1>3. End(s) = d + n /\ End(s)' = d + (n + k)
      /\ Pending(s) = d + 1 .. d + n /\ Pending(s)' = d + 1 .. d + (n + k)
  BY <1>2, <1>q DEF End, Pending
<1>4. ASSUME NEW p \in d + 1 .. d + n
      PROVE  p \in d + 1 .. d + (n + k) /\ p <= d + n /\ Op(s, p)' = Op(s, p)
  <2>1. p - d \in 1 .. n /\ p \in d + 1 .. d + (n + k) /\ p <= d + n
    BY <1>2, <1>4
  <2> QED
    BY <1>2, <1>q, <2>1 DEF Op
<1>5. ASSUME NEW j \in 1 .. k
      PROVE  d + n + j \in d + 1 .. d + (n + k) /\ Op(s, d + n + j)' = b[j]
  <2>1. d + n + j - d = n + j /\ d + n + j \in d + 1 .. d + (n + k)
    BY <1>2
  <2>2. Op(s, d + n + j)' = q[d + n + j - d]
    BY <1>q DEF Op
  <2> QED
    BY <1>2, <2>1, <2>2
<1>6. ASSUME NEW p \in d + 1 .. d + (n + k), p \notin d + 1 .. d + n
      PROVE  \E j \in 1 .. k : p = d + n + j
  <2>1. p - (d + n) \in 1 .. k /\ p = d + n + (p - (d + n))
    BY <1>2, <1>6
  <2> QED
    BY <2>1
<1>7. e = d + n /\ End(s)' = e + k /\ e \in Nat /\ End(s)' \in Nat
  BY <1>2, <1>3
<1>8. \A p \in Pending(s) : p \in Pending(s)' /\ Op(s, p)' = Op(s, p) /\ p \in Nat /\ p <= e
  BY <1>2, <1>3, <1>4, <1>7
<1>9. \A j \in 1 .. k : e + j \in Pending(s)' /\ Op(s, e + j)' = b[j]
  BY <1>3, <1>5, <1>7
<1>10. \A p \in Pending(s)' : p \in Pending(s) \/ \E j \in 1 .. k : p = e + j
  BY <1>3, <1>6, <1>7
<1>11. Len(ops[s]) = k /\ ops[s] = b
  BY <1>n
<1> QED
  BY <1>2, <1>7, <1>8, <1>9, <1>10, <1>11

\* An order that holds goes on to hold when the streams are given more.
LEMMA GivenBefore ==
    ASSUME Typed, NEW ops, Given(ops), NEW s \in Streams, NEW t \in Streams,
           NEW p \in Int, NEW r \in Int, Before(s, p, t, r)
    PROVE  Before(s, p, t, r)'
<1>1. done'[s] = done[s]
  BY DEF Given
<1>2. ASSUME NEW q \in Pending(t), q < r, Waits(Op(t, q), s, p)
      PROVE  Before(s, p, t, r)'
  <2>1. q \in Pending(t)' /\ Op(t, q)' = Op(t, q)
    BY GivenPlaces
  <2> QED
    BY <1>2, <2>1 DEF Before, Waits
<1> QED
  BY <1>1, <1>2 DEF Before

\* The same by way of a third stream.
LEMMA GivenChain ==
    ASSUME Typed, NEW ops, Given(ops), NEW s \in Streams, NEW t \in Streams,
           NEW p \in Int, NEW r \in Int, Chain(s, p, t, r)
    PROVE  Chain(s, p, t, r)'
<1>1. CASE Before(s, p, t, r)
  BY <1>1, GivenBefore DEF Chain
<1>2. ASSUME NEW m \in Streams, NEW u \in 0 .. End(m), Before(m, u, t, r), Before(s, p, m, u + 1)
      PROVE  Chain(s, p, t, r)'
  <2>1. u \in 0 .. End(m)' /\ u \in Int /\ u + 1 \in Int
    BY GivenPlaces, PlaceTypes
  <2>2. Before(m, u, t, r)' /\ Before(s, p, m, u + 1)'
    BY <1>2, <2>1, GivenBefore
  <2> QED
    BY <2>1, <2>2 DEF Chain
<1> QED
  BY <1>1, <1>2 DEF Chain

\* What an operation brings is what it brought.
LEMMA GivenBrought ==
    ASSUME Typed, NEW ops, Given(ops), NEW mem \in Memories, NEW g, NEW m,
           NEW s, s = Writer[mem], NEW p \in done[s] .. End(s), Brought(mem, g, m, p)
    PROVE  p \in done'[s] .. End(s)' /\ p \in Int /\ Brought(mem, g, m, p)'
<1>1. s \in Streams
  BY DEF Memories, Writer, Streams
<1>2. done[s] \in Nat /\ End(s) \in Nat /\ done'[s] = done[s] /\ Value(mem, g)' = Value(mem, g)
  BY <1>1, PlaceTypes DEF Given, memory, Value
<1>3. p \in done'[s] .. End(s)' /\ p \in Int
  BY <1>1, <1>2, GivenPlaces
<1>4. CASE p = done[s]
  BY <1>2, <1>3, <1>4 DEF Brought
<1>5. CASE p # done[s]
  <2>1. p \in Pending(s)
    BY <1>2, <1>5 DEF Pending
  <2>2. Op(s, p)' = Op(s, p)
    BY <1>1, <2>1, GivenPlaces
  <2> QED
    BY <1>2, <1>3, <1>5, <2>2 DEF Brought, Fills
<1> QED
  BY <1>4, <1>5

\* What a block holds in the end does not change if nothing new is written to it.
LEMMA GivenKept ==
    ASSUME Typed, NEW ops, Given(ops), NEW mem \in Memories, NEW g, NEW m, NEW s, s = Writer[mem],
           NEW p \in done[s] .. End(s), Brought(mem, g, m, p),
           \A k \in p + 1 .. End(s) : ~Writes(Op(s, k), mem, g),
           \A j \in 1 .. Len(ops[s]) : ~Writes(ops[s][j], mem, g)
    PROVE  /\ p \in done'[s] .. End(s)' /\ Brought(mem, g, m, p)'
           /\ \A k \in p + 1 .. End(s)' : ~Writes(Op(s, k), mem, g)'
<1>0. PICK e : e = End(s)
  OBVIOUS
<1>1. s \in Streams
  BY DEF Memories, Writer, Streams
<1>2. p \in done'[s] .. End(s)' /\ p \in Int /\ Brought(mem, g, m, p)'
  BY GivenBrought
<1>3. done'[s] = done[s] /\ done[s] \in Nat /\ e \in Nat /\ End(s)' \in Nat
  BY <1>0, <1>1, GivenPlaces, PlaceTypes DEF Given
<1>4. ASSUME NEW k \in p + 1 .. End(s)' PROVE ~Writes(Op(s, k), mem, g)'
  <2>1. k \in Pending(s)'
    BY <1>2, <1>3 DEF Pending
  <2>2. CASE k \in Pending(s)
    <3>1. k \in p + 1 .. End(s) /\ Op(s, k)' = Op(s, k)
      BY <1>0, <1>1, <1>2, <1>3, <2>2, GivenPlaces
    <3> QED
      BY <3>1 DEF Writes, Fills, Spoils
  <2>3. ASSUME NEW j \in 1 .. Len(ops[s]), k = e + j
        PROVE  ~Writes(Op(s, k), mem, g)'
    <3>1. Op(s, k)' = ops[s][j]
      BY <1>0, <1>1, <2>3, GivenPlaces
    <3> QED
      BY <3>1 DEF Writes, Fills, Spoils
  <2> QED
    BY <1>0, <1>1, <2>1, <2>2, <2>3, GivenPlaces
<1> QED
  BY <1>2, <1>4

\* The same, whichever operation fills the block.
LEMMA GivenReady ==
    ASSUME Typed, NEW ops, Given(ops), NEW mem \in Memories, NEW g, NEW m, Ready(mem, g, m),
           \A j \in 1 .. Len(ops[Writer[mem]]) : ~Writes(ops[Writer[mem]][j], mem, g)
    PROVE  Ready(mem, g, m)'
<1>0. PICK s : s = Writer[mem]
  OBVIOUS
<1>1. PICK p \in done[s] .. End(s) :
        Brought(mem, g, m, p) /\ \A k \in p + 1 .. End(s) : ~Writes(Op(s, k), mem, g)
  BY <1>0 DEF Ready
<1>2. /\ p \in done'[s] .. End(s)' /\ Brought(mem, g, m, p)'
      /\ \A k \in p + 1 .. End(s)' : ~Writes(Op(s, k), mem, g)'
  BY <1>0, <1>1, GivenKept
<1> QED
  BY <1>0, <1>2 DEF Ready

\* A block holds what the last of the new operations that writes it brings.
LEMMA GivenFilled ==
    ASSUME Typed, NEW ops, Given(ops), NEW mem \in Memories, NEW g, NEW m,
           NEW i \in 1 .. Len(ops[Writer[mem]]),
           Fills(ops[Writer[mem]][i], mem, g), ops[Writer[mem]][i].micro = m,
           \A j \in i + 1 .. Len(ops[Writer[mem]]) : ~Writes(ops[Writer[mem]][j], mem, g)
    PROVE  Ready(mem, g, m)'
<1>0. PICK s, e : s = Writer[mem] /\ e = End(s)
  OBVIOUS
<1>1. s \in Streams
  BY <1>0 DEF Memories, Writer, Streams
<1>2. /\ done'[s] = done[s] /\ done[s] \in Nat /\ e \in Nat /\ Len(ops[s]) \in Nat
      /\ End(s)' = e + Len(ops[s]) /\ done[s] <= e
  BY <1>0, <1>1, GivenPlaces, PlaceTypes DEF Given
<1>3. PICK p : p = e + i
  OBVIOUS
<1>4. p \in Nat /\ p \in done'[s] .. End(s)' /\ p # done'[s]
  BY <1>0, <1>2, <1>3
<1>5. Op(s, p)' = ops[s][i]
  BY <1>0, <1>1, <1>3, GivenPlaces
<1>6. Brought(mem, g, m, p)'
  BY <1>0, <1>4, <1>5 DEF Brought, Fills
<1>7. ASSUME NEW k \in p + 1 .. End(s)' PROVE ~Writes(Op(s, k), mem, g)'
  <2>1. k - e \in i + 1 .. Len(ops[s]) /\ k - e \in 1 .. Len(ops[s]) /\ e + (k - e) = k
    BY <1>0, <1>2, <1>3
  <2>2. Op(s, k)' = ops[s][k - e]
    BY <1>0, <1>1, <2>1, GivenPlaces
  <2> QED
    BY <1>0, <2>1, <2>2 DEF Writes, Fills, Spoils
<1> QED
  BY <1>0, <1>4, <1>6, <1>7 DEF Ready

\* A new operation that comes after the one that filled what it reads.
LEMMA GivenReader ==
    ASSUME Typed, NEW ops, Given(ops), NEW mem \in Memories, NEW g, NEW m, Ready(mem, g, m),
           \A j \in 1 .. Len(ops[Writer[mem]]) : ~Writes(ops[Writer[mem]][j], mem, g),
           NEW t \in Streams, NEW r \in Pending(t)',
           \A p \in Pending(Writer[mem]) :
                Fills(Op(Writer[mem], p), mem, g) => Chain(Writer[mem], p, t, r)'
    PROVE  Supplied(t, r, mem, g, m)'
<1>0. PICK s : s = Writer[mem]
  OBVIOUS
<1>1. s \in Streams
  BY <1>0 DEF Memories, Writer, Streams
<1>2. PICK p \in done[s] .. End(s) :
        Brought(mem, g, m, p) /\ \A k \in p + 1 .. End(s) : ~Writes(Op(s, k), mem, g)
  BY <1>0 DEF Ready
<1>3. /\ p \in done'[s] .. End(s)' /\ Brought(mem, g, m, p)'
      /\ \A k \in p + 1 .. End(s)' : ~Writes(Op(s, k), mem, g)'
  BY <1>0, <1>2, GivenKept
<1>4. Chain(s, p, t, r)'
  <2>1. done'[s] = done[s] /\ done[s] \in Nat /\ End(s) \in Nat /\ p \in Int
    BY <1>1, PlaceTypes DEF Given
  <2>2. CASE p = done[s]
    BY <2>1, <2>2 DEF Chain, Before
  <2>3. CASE p # done[s]
    <3>1. p \in Pending(s) /\ Fills(Op(s, p), mem, g)
      BY <1>0, <1>2, <2>1, <2>3 DEF Pending, Brought
    <3> QED
      BY <1>0, <3>1
  <2> QED
    BY <2>2, <2>3
<1> QED
  BY <1>0, <1>3, <1>4 DEF Supplied

\* What an operation reads stays what it is meant to if every new operation
\* that writes it comes after.
LEMMA GivenSupplied ==
    ASSUME Typed, NEW ops, Given(ops), NEW mem \in Memories, NEW g, NEW m,
           NEW t \in Streams, NEW r \in Pending(t), Supplied(t, r, mem, g, m),
           NEW e, e = End(Writer[mem]),
           \A j \in 1 .. Len(ops[Writer[mem]]) :
                Writes(ops[Writer[mem]][j], mem, g) => Chain(t, r, Writer[mem], e + j)'
    PROVE  Supplied(t, r, mem, g, m)'
<1>0. PICK s : s = Writer[mem]
  OBVIOUS
<1>1. s \in Streams
  BY <1>0 DEF Memories, Writer, Streams
<1>2. PICK p \in done[s] .. End(s) :
        /\ Brought(mem, g, m, p) /\ Chain(s, p, t, r)
        /\ \A k \in p + 1 .. End(s) : Writes(Op(s, k), mem, g) => Chain(t, r, s, k)
  BY <1>0 DEF Supplied
<1>3. p \in done'[s] .. End(s)' /\ p \in Int /\ Brought(mem, g, m, p)'
  BY <1>0, <1>2, GivenBrought
<1>4. done'[s] = done[s] /\ done[s] \in Nat /\ e \in Nat /\ End(s)' \in Nat /\ r \in Int
  BY <1>0, <1>1, GivenPlaces, PlaceTypes DEF Given
<1>5. ASSUME NEW k \in p + 1 .. End(s)', Writes(Op(s, k), mem, g)' PROVE Chain(t, r, s, k)'
  <2>1. k \in Pending(s)'
    BY <1>3, <1>4 DEF Pending
  <2>2. CASE k \in Pending(s)
    <3>1. k \in p + 1 .. End(s) /\ k \in Int /\ Op(s, k)' = Op(s, k)
      BY <1>0, <1>1, <1>3, <1>4, <2>2, GivenPlaces
    <3>2. Chain(t, r, s, k)
      BY <1>2, <1>5, <3>1 DEF Writes, Fills, Spoils
    <3> QED
      BY <1>1, <1>4, <3>1, <3>2, GivenChain
  <2>3. ASSUME NEW j \in 1 .. Len(ops[s]), k = e + j
        PROVE  Chain(t, r, s, k)'
    <3>1. Op(s, k)' = ops[s][j]
      BY <1>0, <1>1, <2>3, GivenPlaces
    <3>2. Writes(ops[s][j], mem, g)
      BY <1>5, <3>1 DEF Writes, Fills, Spoils
    <3> QED
      BY <1>0, <2>3, <3>2
  <2>4. \A q \in Pending(s)' : q \in Pending(s) \/ \E j \in 1 .. Len(ops[s]) : q = e + j
    BY <1>0, <1>1, GivenPlaces
  <2>5. CASE k \notin Pending(s)
    <3>1. PICK j \in 1 .. Len(ops[s]) : k = e + j
      BY <2>1, <2>4, <2>5
    <3> QED
      BY <2>3, <3>1
  <2> QED
    BY <2>2, <2>5
<1>6. Chain(s, p, t, r)'
  BY <1>1, <1>2, <1>3, <1>4, GivenChain
<1> QED
  BY <1>0, <1>3, <1>5, <1>6 DEF Supplied

\* Every operation, old or new, reads what it is meant to, if the new writers come
\* after the old readers and the new readers have what they read.
LEMMA GivenOps ==
    ASSUME Typed, OpsSupplied, NEW ops, Given(ops),
           \A t \in Streams : \A r \in Pending(t) : \A mem \in Memories, g \in Layers, m \in Nat :
                Wants(Op(t, r), mem, g, m) =>
                    \A e : e = End(Writer[mem]) =>
                        \A j \in 1 .. Len(ops[Writer[mem]]) :
                            Writes(ops[Writer[mem]][j], mem, g) => Chain(t, r, Writer[mem], e + j)',
           \A t \in Streams : \A e : e = End(t) => \A j \in 1 .. Len(ops[t]) :
                \A mem \in Memories, g \in Layers, m \in Nat :
                    Wants(ops[t][j], mem, g, m) => Supplied(t, e + j, mem, g, m)'
    PROVE  OpsSupplied'
<1>1. Layers' = Layers
  BY DEF Given, Layers, NumLayers
<1> SUFFICES ASSUME NEW t \in Streams, NEW r \in Pending(t)', NEW mem \in Memories,
                    NEW g \in Layers, NEW m \in Nat, Wants(Op(t, r), mem, g, m)'
             PROVE  Supplied(t, r, mem, g, m)'
  BY <1>1 DEF OpsSupplied
<1>2. CASE r \in Pending(t)
  <2>1. Op(t, r)' = Op(t, r)
    BY <1>2, GivenPlaces
  <2>2. Wants(Op(t, r), mem, g, m)
    BY <2>1 DEF Wants, Reads, Source
  <2>3. Supplied(t, r, mem, g, m)
    BY <1>2, <2>2 DEF OpsSupplied
  <2>4. PICK e : e = End(Writer[mem])
    OBVIOUS
  <2>5. \A j \in 1 .. Len(ops[Writer[mem]]) :
            Writes(ops[Writer[mem]][j], mem, g) => Chain(t, r, Writer[mem], e + j)'
    BY <1>2, <2>2, <2>4
  <2> QED
    BY <1>2, <2>3, <2>4, <2>5, GivenSupplied
<1>3. CASE r \notin Pending(t)
  <2>1. PICK e : e = End(t)
    OBVIOUS
  <2>2. PICK j \in 1 .. Len(ops[t]) : r = e + j /\ Op(t, r)' = ops[t][j]
    BY <1>3, <2>1, GivenPlaces
  <2>3. Wants(ops[t][j], mem, g, m)
    BY <2>2 DEF Wants, Reads, Source
  <2> QED
    BY <2>1, <2>2, <2>3
<1> QED
  BY <1>2, <1>3

\* The types of the streams.
LEMMA GivenTyped ==
    ASSUME Typed, NEW ops, Given(ops)
    PROVE  /\ size' \in Sizes /\ Layers' = Layers /\ NumLayers' = NumLayers /\ NumOffload' = NumOffload
           /\ queue' \in [Streams -> Seq(AllOps')]
           /\ \A s \in Streams : \A i \in 1 .. Len(queue'[s]) : queue'[s][i].op \in Kinds[s] \cup {"wait"}
           /\ done' \in [Streams -> Nat]
           /\ device' \in [Layers -> Nat] /\ back' \in [Layers -> Nat] /\ host' \in [Layers -> Nat]
<1>1. size' \in Sizes /\ Layers' = Layers /\ NumLayers' = NumLayers /\ NumOffload' = NumOffload
  BY DEF Given, Typed, Layers, NumLayers, NumOffload
<1>2. AllOps' = AllOps
  BY <1>1 DEF AllOps, WorkOps
<1>3. ASSUME NEW s \in Streams
      PROVE  /\ queue'[s] \in Seq(AllOps)
             /\ \A i \in 1 .. Len(queue'[s]) : queue'[s][i].op \in Kinds[s] \cup {"wait"}
  <2>1. queue[s] \in Seq(AllOps) /\ ops[s] \in Seq(AllOps) /\ queue'[s] = queue[s] \o ops[s]
    BY DEF Typed, Given, Submit, AllOps
  <2>2. queue'[s] \in Seq(AllOps)
    BY <2>1, ConcatProperties
  <2>3. PICK a \in Seq(AllOps), b \in Seq(AllOps), n \in Nat, k \in Nat :
            a = queue[s] /\ b = ops[s] /\ n = Len(a) /\ k = Len(b) /\ queue'[s] = a \o b
    BY <2>1, LenProperties
  <2>4. /\ Len(a \o b) = n + k
        /\ \A i \in 1 .. n : (a \o b)[i] = a[i]
        /\ \A j \in 1 .. k : (a \o b)[n + j] = b[j]
    <3>1. n = Len(a) /\ k = Len(b) /\ a \in Seq(AllOps) /\ b \in Seq(AllOps)
      BY <2>3
    <3> HIDE <2>1, <2>2, <2>3
    <3> QED
      BY <3>1, Concatenated
  <2>5. /\ \A i \in 1 .. n : a[i].op \in Kinds[s] \cup {"wait"}
        /\ \A j \in 1 .. k : b[j].op \in Kinds[s] \cup {"wait"}
    BY <2>3 DEF Typed, Given
  <2>6. ASSUME NEW i \in 1 .. n + k PROVE (a \o b)[i].op \in Kinds[s] \cup {"wait"}
    <3>1. i \in 1 .. n \/ \E j \in 1 .. k : i = n + j
      <4>1. n \in Nat /\ k \in Nat
        BY <2>3
      <4> HIDE <2>1, <2>2, <2>3
      <4> QED
        BY <2>6, <4>1, EitherPart
    <3> QED
      BY <2>4, <2>5, <3>1
  <2> QED
    BY <2>2, <2>3, <2>4, <2>6
<1>4. queue' \in [Streams -> Seq(AllOps)]
  BY <1>3 DEF Given, Submit
<1>5. done' \in [Streams -> Nat]
  BY DEF Given, Typed
<1>6. device' \in [Layers -> Nat] /\ back' \in [Layers -> Nat] /\ host' \in [Layers -> Nat]
  BY DEF Given, Typed, memory
<1> QED
  BY <1>1, <1>2, <1>3, <1>4, <1>5, <1>6

\* The streams.
LEMMA StreamNames == "compute" \in Streams /\ "d2h" \in Streams /\ "h2d" \in Streams
BY DEF Streams

\* What the computation waits for before the next operation it is given.
LEMMA GivenAhead ==
    ASSUME Typed, NEW ops, Given(ops), NEW s \in Streams, NEW t \in Streams, NEW p \in Int,
           Before(s, p, t, End(t) + 1)
    PROVE  Before(s, p, t, End(t) + 1)'
<1>1. PICK e, e2 : e = End(t) /\ e2 = End(t)'
  OBVIOUS
<1>2. e \in Nat /\ e2 \in Nat /\ e <= e2
  BY <1>1, GivenPlaces
<1>3. Before(s, p, t, e + 1)
  BY <1>1
<1>4. Before(s, p, t, e2 + 1)
  BY <1>2, <1>3, BeforeLater
<1>5. Before(s, p, t, e2 + 1)'
  BY <1>2, <1>4, GivenBefore
<1> QED
  BY <1>1, <1>5 DEF Before

\* A stream that was given nothing.
LEMMA GivenNone ==
    ASSUME Typed, NEW ops, Given(ops), NEW s \in Streams, Len(ops[s]) = 0
    PROVE  /\ Pending(s)' = Pending(s) /\ End(s)' = End(s) /\ End(s) \in Nat
           /\ \A p \in Pending(s) : p \in Nat /\ Op(s, p)' = Op(s, p)
<1>1. PICK e : e = End(s)
  OBVIOUS
<1>2. End(s)' = e /\ e \in Nat /\ \A p \in Pending(s) : p \in Nat /\ Op(s, p)' = Op(s, p)
  BY <1>1, GivenPlaces
<1> QED
  BY <1>1, <1>2 DEF Pending, Given

\* The computation still waits for the copies back, if there is none new and the
\* handler asks for no more than before.
LEMMA NoIns ==
    ASSUME Typed, InsWaited, NEW ops, Given(ops), Len(ops["h2d"]) = 0,
           (Going \/ current = 0)' => Going \/ current = 0,
           \A x : Has(x, "copied")' /\ ~Coming(x)' => Has(x, "copied") /\ ~Coming(x)
    PROVE  InsWaited'
<1>1. ASSUME (Going \/ current = 0)'
      PROVE  Before("h2d", End("h2d"), "compute", End("compute") + 1)'
  <2>1. PICK p : p = End("h2d") /\ p \in Nat
    BY PlaceTypes, StreamNames
  <2>2. Before("h2d", p, "compute", End("compute") + 1)
    BY <1>1, <2>1 DEF InsWaited
  <2>3. Before("h2d", p, "compute", End("compute") + 1)'
    BY <2>1, <2>2, GivenAhead, StreamNames
  <2>4. End("h2d")' = p
    BY <2>1, GivenNone, StreamNames
  <2> QED
    BY <2>3, <2>4 DEF Before, Waits
<1>2. ASSUME NEW p \in Pending("h2d")', Op("h2d", p)'.op = "in",
             Has(Op("h2d", p).group, "copied")', ~Coming(Op("h2d", p).group)'
      PROVE  Before("h2d", p, "compute", End("compute") + 1)'
  <2>1. p \in Pending("h2d") /\ Op("h2d", p)' = Op("h2d", p) /\ p \in Nat
    BY <1>2, GivenNone, StreamNames
  <2>2. PICK x : x = Op("h2d", p).group
    OBVIOUS
  <2>3. Has(x, "copied")' /\ ~Coming(x)'
    BY <1>2, <2>1, <2>2 DEF Has, Coming
  <2>4. Has(x, "copied") /\ ~Coming(x)
    BY <2>3
  <2>5. Before("h2d", p, "compute", End("compute") + 1)
    BY <1>2, <2>1, <2>2, <2>4 DEF InsWaited
  <2> QED
    BY <2>1, <2>5, GivenAhead, StreamNames
<1> QED
  BY <1>1, <1>2 DEF InsWaited

\* The windows of the groups come one after the other.
LEMMA Multiples ==
    ASSUME NEW q \in Nat \ {0}, NEW i \in Nat, NEW j \in Nat, i < j
    PROVE  q * (i + 1) \in Nat /\ q * (i + 1) >= 1 /\ q * (i + 1) + 1 <= q * (j + 1)
<1>1. PICK d \in Nat \ {0} : j = i + d
  <2>1. j - i \in Nat \ {0} /\ j = i + (j - i)
    OBVIOUS
  <2> QED
    BY <2>1
<1>2. q * (j + 1) = q * (i + 1) + q * d
  BY <1>1
<1>3. q * d \in Nat /\ q * d >= 1
  BY <1>1
<1>4. q * (i + 1) \in Nat /\ q * (i + 1) >= 1
  OBVIOUS
<1> QED
  BY <1>2, <1>3, <1>4

\* No group leaves before it was computed, and each leaves after the one before it.
LEMMA WindowFacts ==
    ASSUME Typed
    PROVE  /\ \A i \in Nat : Window(i) \in Nat /\ i <= Window(i)
           /\ \A i \in Nat, j \in Nat : i < j => Window(i) < Window(j)
<1>1. PICK q, rest : q = NumLayers \div NumOffload /\ rest = NumLayers % NumOffload
  OBVIOUS
<1>2. q \in Nat \ {0} /\ rest \in Nat
  BY <1>1, SizeFacts
<1>3. \A i \in Nat : Window(i) = q * (i + 1) - 1 + (IF i < rest THEN i + 1 ELSE rest)
  BY <1>1 DEF Window
<1>4. ASSUME NEW i \in Nat PROVE Window(i) \in Nat /\ i <= Window(i)
  <2>1. q * (i + 1) \in Nat /\ q * (i + 1) >= i + 1
    <3>1. PICK d \in Nat : q = 1 + d
      <4>1. q - 1 \in Nat /\ q = 1 + (q - 1)
        BY <1>2
      <4> QED
        BY <4>1
    <3>2. q * (i + 1) = (i + 1) + d * (i + 1) /\ d * (i + 1) \in Nat
      BY <3>1
    <3> QED
      BY <3>2
  <2> QED
    BY <1>2, <1>3, <2>1
<1>5. ASSUME NEW i \in Nat, NEW j \in Nat, i < j PROVE Window(i) < Window(j)
  <2>1. PICK a \in Nat, b \in Nat : a = q * (i + 1) /\ b = q * (j + 1) /\ a + 1 <= b
    <3>1. q * (i + 1) \in Nat /\ q * (j + 1) \in Nat /\ q * (i + 1) + 1 <= q * (j + 1)
      BY <1>2, <1>5, Multiples
    <3> QED
      BY <3>1
  <2>2. Window(i) = a - 1 + (IF i < rest THEN i + 1 ELSE rest)
    BY <1>3, <2>1
  <2>3. Window(j) = b - 1 + (IF j < rest THEN j + 1 ELSE rest)
    BY <1>3, <2>1
  <2> HIDE <1>3
  <2> QED
    BY <1>2, <1>5, <2>1, <2>2, <2>3
<1> QED
  BY <1>4, <1>5

\* One operation for one stream.
LEMMA OneGiven ==
    ASSUME Typed, NEW s \in Streams, NEW op \in AllOps, op.op \in Kinds[s] \cup {"wait"},
           Submit(Enqueue(NoOps, s, op)), UNCHANGED <<size, done, memory>>, NEW ops, ops = Enqueue(NoOps, s, op)
    PROVE  /\ Given(ops) /\ Len(ops[s]) = 1 /\ ops[s][1] = op
           /\ \A t \in Streams \ {s} : Len(ops[t]) = 0
<1>1. NoOps \in [Streams -> Seq(AllOps)] /\ \A t \in Streams : NoOps[t] = <<>>
  BY DEF NoOps
<1>a. Append(<<>>, op) = <<op>>
  OBVIOUS
<1>e. ops = [NoOps EXCEPT ![s] = <<op>>]
  BY <1>1, <1>a DEF Enqueue
<1>2. ops[s] = <<op>> /\ \A t \in Streams \ {s} : ops[t] = <<>>
  BY <1>1, <1>e
<1>3. ops \in [Streams -> Seq(AllOps)]
  BY <1>1, <1>e
<1>4. Len(<<op>>) = 1 /\ <<op>>[1] = op /\ Len(<<>>) = 0
  OBVIOUS
<1>5. \A t \in Streams : \A j \in 1 .. Len(ops[t]) : ops[t][j].op \in Kinds[t] \cup {"wait"}
  BY <1>2, <1>4
<1> QED
  BY <1>2, <1>3, <1>4, <1>5 DEF Given

\* The forward of a layer writes the block it saves in and the blocks it reuses:
\* none of them is still being copied out, for their groups are no longer Leaving.
LEMMA ForwardPreserves ==
    ASSUME IInv, Forward
    PROVE  IInv'
<1> USE DEF IInv
<1> DEFINE w == Work("forward", current, "saved")
<1>1. /\ phase = "forward" /\ layer = current /\ current \in Layers /\ current \in Nat /\ Going
      /\ DOMAIN state = 0 .. layer - 1 /\ micro \in Nat
  BY SizeFacts DEF Handler, Progress, Forward, Typed, Going
<1>2. /\ w \in WorkOps({"forward"}) /\ w.op = "forward" /\ w.group = current /\ w.block = "saved"
      /\ w.micro = micro /\ w.reuses = freed["saved"] \ {current}
  BY <1>1 DEF w, Work, WorkOps, Typed
<1>3. w \in AllOps /\ w.op \in Kinds["compute"] \cup {"wait"}
  BY <1>2 DEF AllOps, WorkOps, Kinds
<1> HIDE DEF w
<1>4. PICK ops : ops = Enqueue(NoOps, "compute", w)
  OBVIOUS
<1>5. /\ Given(ops) /\ Len(ops["compute"]) = 1 /\ ops["compute"][1] = w
      /\ Len(ops["d2h"]) = 0 /\ Len(ops["h2d"]) = 0
  <2>1. Submit(Enqueue(NoOps, "compute", w)) /\ UNCHANGED <<size, done, memory>>
    BY DEF Forward, w
  <2> QED
    BY <1>3, <1>4, <2>1, OneGiven, StreamNames
<1>6. /\ Layers' = Layers /\ NumLayers' = NumLayers /\ NumOffload' = NumOffload
      /\ \A i : Window(i)' = Window(i)
  BY <1>5, GivenTyped DEF Window
<1>7. /\ phase' = "commit" /\ UNCHANGED <<size, micro, layer, current, count, mapping>>
      /\ freed' = [freed EXCEPT !["saved"] = @ \ {current}]
      /\ state' = With(state, current, "saved") /\ current \notin DOMAIN state
  BY DEF Forward
<1>8. /\ DOMAIN state' = 0 .. layer /\ state'[current] = "saved"
      /\ \A g \in DOMAIN state : state'[g] = state[g] /\ g # current /\ g \in DOMAIN state'
      /\ \A g \in DOMAIN state' : g \in DOMAIN state \/ g = current
  BY <1>1, <1>7 DEF With
<1>9. /\ freed \in [{"saved", "copied"} -> SUBSET Layers] /\ freed' \in [{"saved", "copied"} -> SUBSET Layers]
      /\ freed'["saved"] = freed["saved"] \ {current} /\ freed'["copied"] = freed["copied"]
  BY <1>7 DEF Typed
<1>10. Typed'
  <2>1. DOMAIN state' \subseteq Layers /\ \A g \in DOMAIN state' : state'[g] \in {"saved", "key", "copied"}
    BY <1>1, <1>8 DEF Typed
  <2>2. count' \in 0 .. NumOffload' /\ current' \in 0 .. NumLayers' /\ layer' \in Layers' /\ micro' \in Nat
        /\ phase' \in {"forward", "commit", "uncommit", "backward", "end"}
    BY <1>6, <1>7 DEF Typed
  <2> QED
    BY <1>5, <1>6, <1>9, <2>1, <2>2, GivenTyped DEF Typed, AllOps
<1>11. \A mem \in Memories, g \in Layers : Writes(w, mem, g) <=> mem = "device" /\ (g = current \/ g \in freed["saved"])
  BY <1>2 DEF Memories, Writes, Fills, Filler, Spoils
<1>12. ASSUME NEW x PROVE Leaving(x)' <=> Leaving(x)
  <2>1. CASE x = current
    BY <1>7, <1>8, <2>1 DEF Leaving, Has
  <2>2. CASE x # current
    BY <1>8, <1>9, <2>2 DEF Leaving, Has
  <2> QED
    BY <2>1, <2>2
<1>13. OpsSupplied'
  <2>1. ASSUME NEW t \in Streams, NEW r \in Pending(t), NEW mem \in Memories, NEW g \in Layers, NEW m \in Nat,
               Wants(Op(t, r), mem, g, m), NEW e, e = End(Writer[mem]),
               NEW j \in 1 .. Len(ops[Writer[mem]]), Writes(ops[Writer[mem]][j], mem, g)
        PROVE  Chain(t, r, Writer[mem], e + j)'
    <3>1. Writer[mem] = "compute" /\ j = 1
      BY <1>5, <2>1 DEF Memories, Writer
    <3>2. mem = "device" /\ (g = current \/ g \in freed["saved"])
      BY <1>5, <1>11, <2>1, <3>1
    <3>3. ~Leaving(g)
      BY <1>7, <3>2 DEF Leaving, Has
    <3>4. r \in Nat /\ e \in Nat /\ e + 1 \in Nat /\ (Op(t, r).op \in Kinds[t] \cup {"wait"})
          /\ r <= End(t)
      BY <2>1, <3>1, PlaceTypes, StreamNames DEF Pending
    <3>5. Before(t, r, "compute", e + 1)
      <4>1. CASE t = "compute"
        BY <2>1, <3>1, <3>4, <4>1 DEF Before
      <4>2. CASE t = "d2h"
        BY <2>1, <3>1, <3>3, <3>4, <4>2 DEF Handler, OutsWaited, Wants, Reads, Kinds
      <4>3. CASE t = "h2d"
        BY <2>1, <3>2, <3>4, <4>3 DEF Wants, Reads, Source, Kinds
      <4> QED
        BY <4>1, <4>2, <4>3 DEF Streams
    <3> QED
      BY <1>5, <3>1, <3>4, <3>5, GivenBefore, StreamNames DEF Chain
  <2>2. ASSUME NEW t \in Streams, NEW j \in 1 .. Len(ops[t]) PROVE ~Reads(ops[t][j])
    BY <1>2, <1>5, <2>2 DEF Streams, Reads
  <2> QED
    BY <1>5, <2>1, <2>2, GivenOps DEF Wants
<1>14. Progress'
  BY <1>1, <1>6, <1>7, <1>8 DEF Handler, Progress, Going
<1>15. Left' /\ InTime' /\ Called'
  BY <1>1, <1>6, <1>7, <1>8, <1>9 DEF Handler, Left, InTime, Called
<1>19. OutsWaited'
  <2> SUFFICES ASSUME NEW p \in Pending("d2h")', Op("d2h", p)'.op = "out", ~Leaving(Op("d2h", p).group)'
               PROVE  Before("d2h", p, "compute", End("compute") + 1)'
    BY DEF OutsWaited
  <2>1. p \in Pending("d2h") /\ p \in Nat /\ Op("d2h", p)' = Op("d2h", p)
    BY <1>5, GivenNone, StreamNames
  <2>2. PICK x : x = Op("d2h", p).group
    OBVIOUS
  <2>3. ~Leaving(x)'
    BY <2>1, <2>2 DEF Leaving, Has
  <2>4. Before("d2h", p, "compute", End("compute") + 1)
    BY <1>12, <2>1, <2>2, <2>3 DEF Handler, OutsWaited
  <2> QED
    BY <1>5, <2>1, <2>4, GivenAhead, StreamNames
<1>20. InsWaited'
  <2>1. \A x : Has(x, "copied")' => Has(x, "copied")
    BY <1>8 DEF Has
  <2>2. \A x : Coming(x)' <=> Coming(x)
    BY <1>6, <1>7 DEF Coming
  <2> QED
    BY <1>1, <1>5, <2>1, <2>2, NoIns DEF Handler
<1>21. Believed'
  <2> SUFFICES ASSUME NEW g \in DOMAIN state', NEW m \in {micro}
               PROVE  /\ state'[g] = "saved" => Ready("device", g, m)' /\ g \notin freed'["saved"]
                      /\ state'[g] = "key" => Ready("host", g, m)'
                      /\ state'[g] = "copied" => Ready("back", g, m)' /\ g \notin freed'["copied"]
    BY <1>7 DEF Believed
  <2>1. CASE g = current
    <3>1. Ready("device", g, m)'
      BY <1>2, <1>5, <2>1, GivenFilled DEF Memories, Writer, Fills, Filler
    <3> QED
      BY <1>8, <1>9, <2>1, <3>1
  <2>2. CASE g \in DOMAIN state
    <3>1. g \in Layers /\ g # current /\ state'[g] = state[g] /\ state[g] # "copied"
      BY <1>1, <1>8, <2>2 DEF Typed, Handler, Progress
    <3>2. ASSUME NEW mem \in Memories, Ready(mem, g, m), mem = "device" => g \notin freed["saved"]
          PROVE  Ready(mem, g, m)'
      <4>1. ~Writes(w, mem, g)
        BY <1>11, <3>1, <3>2
      <4>2. \A j \in 1 .. Len(ops[Writer[mem]]) : ~Writes(ops[Writer[mem]][j], mem, g)
        BY <1>5, <4>1 DEF Memories, Writer
      <4> QED
        BY <1>5, <3>2, <4>2, GivenReady
    <3> QED
      BY <1>9, <2>2, <3>1, <3>2 DEF Handler, Believed, Memories
  <2> QED
    BY <1>8, <2>1, <2>2
<1> QED
  BY <1>10, <1>13, <1>14, <1>15, <1>19, <1>20, <1>21 DEF Handler

\* The backward of a layer reads the block the handler believes to hold its tensors,
\* and comes after the copy back of it (InsWaited).
LEMMA BackwardPreserves ==
    ASSUME IInv, Backward
    PROVE  IInv'
<1> USE DEF IInv
<1> DEFINE w == Work("backward", layer, state[layer])
<1>1. /\ phase = "backward" /\ layer = current /\ layer \in Layers /\ layer \in Nat /\ micro \in Nat
      /\ DOMAIN state = 0 .. layer /\ layer \in DOMAIN state /\ state[layer] \in {"saved", "copied"}
  BY SizeFacts DEF Handler, Progress, Backward, Typed
<1>2. /\ w \in WorkOps({"backward"}) /\ w.op = "backward" /\ w.group = layer /\ w.block = state[layer]
      /\ w.micro = micro /\ w.reuses = freed["saved"] \ {layer}
  BY <1>1 DEF w, Work, WorkOps, Typed
<1>3. w \in AllOps /\ w.op \in Kinds["compute"] \cup {"wait"}
  BY <1>2 DEF AllOps, WorkOps, Kinds
<1> HIDE DEF w
<1>4. PICK ops : ops = Enqueue(NoOps, "compute", w)
  OBVIOUS
<1>5. /\ Given(ops) /\ Len(ops["compute"]) = 1 /\ ops["compute"][1] = w
      /\ Len(ops["d2h"]) = 0 /\ Len(ops["h2d"]) = 0
  <2>1. Submit(Enqueue(NoOps, "compute", w)) /\ UNCHANGED <<size, done, memory>>
    BY DEF Backward, w
  <2> QED
    BY <1>3, <1>4, <2>1, OneGiven, StreamNames
<1>6. /\ Layers' = Layers /\ NumLayers' = NumLayers /\ NumOffload' = NumOffload
      /\ \A i : Window(i)' = Window(i)
  BY <1>5, GivenTyped DEF Window
<1>7. /\ UNCHANGED <<size, current, count, mapping>>
      /\ freed' = [freed EXCEPT ![state[layer]] = @ \cup {layer}]
      /\ state' = Without(state, layer)
      /\ layer' = IF layer = 0 THEN 0 ELSE layer - 1
      /\ micro' = IF layer = 0 THEN micro + 1 ELSE micro
      /\ phase' = IF layer > 0 THEN "uncommit" ELSE IF micro < MicroBatches THEN "forward" ELSE "end"
  BY DEF Backward
<1>8. /\ DOMAIN state' = 0 .. layer - 1 /\ layer \notin DOMAIN state'
      /\ \A g \in DOMAIN state' : state'[g] = state[g] /\ g # layer /\ g \in DOMAIN state
      /\ \A g \in DOMAIN state : g \in DOMAIN state' \/ g = layer
  BY <1>1, <1>7 DEF Without
<1>9. /\ freed \in [{"saved", "copied"} -> SUBSET Layers] /\ freed' \in [{"saved", "copied"} -> SUBSET Layers]
      /\ \A x : x # layer => /\ x \in freed'["saved"] <=> x \in freed["saved"]
                             /\ x \in freed'["copied"] <=> x \in freed["copied"]
  BY <1>1, <1>7 DEF Typed
<1>10. Typed'
  <2>1. DOMAIN state' \subseteq Layers /\ \A g \in DOMAIN state' : state'[g] \in {"saved", "key", "copied"}
    BY <1>1, <1>8 DEF Typed
  <2>2. layer' \in Layers
    BY <1>1, <1>7, SizeFacts DEF Layers
  <2>3. count' \in 0 .. NumOffload' /\ current' \in 0 .. NumLayers' /\ layer' \in Layers' /\ micro' \in Nat
        /\ phase' \in {"forward", "commit", "uncommit", "backward", "end"}
    BY <1>1, <1>6, <1>7, <2>2 DEF Typed
  <2> QED
    BY <1>5, <1>6, <1>9, <2>1, <2>3, GivenTyped DEF Typed, AllOps
<1>11. \A mem \in Memories, g \in Layers :
            Writes(w, mem, g) <=> mem = "device" /\ g # layer /\ g \in freed["saved"]
  BY <1>2 DEF Memories, Writes, Fills, Filler, Spoils
<1>12. ASSUME NEW x PROVE Leaving(x)' <=> Leaving(x)
  <2>1. CASE x = layer
    BY <1>1, <1>8, <2>1 DEF Leaving, Has
  <2>2. CASE x # layer
    BY <1>8, <1>9, <2>2 DEF Leaving, Has
  <2> QED
    BY <2>1, <2>2
<1>13. OpsSupplied'
  <2>1. ASSUME NEW t \in Streams, NEW r \in Pending(t), NEW mem \in Memories, NEW g \in Layers, NEW m \in Nat,
               Wants(Op(t, r), mem, g, m), NEW e, e = End(Writer[mem]),
               NEW j \in 1 .. Len(ops[Writer[mem]]), Writes(ops[Writer[mem]][j], mem, g)
        PROVE  Chain(t, r, Writer[mem], e + j)'
    <3>1. Writer[mem] = "compute" /\ j = 1
      BY <1>5, <2>1 DEF Memories, Writer
    <3>2. mem = "device" /\ g \in freed["saved"]
      BY <1>5, <1>11, <2>1, <3>1
    <3>3. ~Leaving(g)
      BY <3>2 DEF Leaving, Has
    <3>4. r \in Nat /\ e \in Nat /\ e + 1 \in Nat /\ (Op(t, r).op \in Kinds[t] \cup {"wait"})
          /\ r <= End(t)
      BY <2>1, <3>1, PlaceTypes, StreamNames DEF Pending
    <3>5. Before(t, r, "compute", e + 1)
      <4>1. CASE t = "compute"
        BY <2>1, <3>1, <3>4, <4>1 DEF Before
      <4>2. CASE t = "d2h"
        BY <2>1, <3>1, <3>3, <3>4, <4>2 DEF Handler, OutsWaited, Wants, Reads, Kinds
      <4>3. CASE t = "h2d"
        BY <2>1, <3>2, <3>4, <4>3 DEF Wants, Reads, Source, Kinds
      <4> QED
        BY <4>1, <4>2, <4>3 DEF Streams
    <3> QED
      BY <1>5, <3>1, <3>4, <3>5, GivenBefore, StreamNames DEF Chain
  <2>2. ASSUME NEW t \in Streams, NEW e, e = End(t), NEW j \in 1 .. Len(ops[t]),
               NEW mem \in Memories, NEW g \in Layers, NEW m \in Nat, Wants(ops[t][j], mem, g, m)
        PROVE  Supplied(t, e + j, mem, g, m)'
    <3>1. t = "compute" /\ j = 1
      BY <1>5, <2>2 DEF Streams
    <3>2. g = layer /\ m = micro /\ mem = IF state[layer] = "copied" THEN "back" ELSE "device"
      BY <1>2, <1>5, <2>2, <3>1 DEF Wants, Source
    <3>3. Ready(mem, g, m)
      BY <1>1, <3>2 DEF Handler, Believed
    <3>4. \A i \in 1 .. Len(ops[Writer[mem]]) : ~Writes(ops[Writer[mem]][i], mem, g)
      BY <1>5, <1>11, <3>2 DEF Writer
    <3>5. e + 1 \in Pending("compute")' /\ e + 1 \in Nat /\ e \in Nat
      BY <1>5, <2>2, <3>1, GivenPlaces, StreamNames
    <3>6. ASSUME NEW p \in Pending(Writer[mem]), Fills(Op(Writer[mem], p), mem, g)
          PROVE  Chain(Writer[mem], p, "compute", e + 1)'
      <4>1. Writer[mem] \in Streams /\ p \in Nat /\ p <= End(Writer[mem])
        BY <3>6, PlaceTypes, StreamNames DEF Memories, Writer, Pending
      <4>2. CASE mem = "device"
        BY <2>2, <3>1, <3>5, <4>1, <4>2 DEF Writer, Chain, Before
      <4>3. CASE mem = "back"
        <5>1. Has(layer, "copied") /\ ~Coming(layer)
          <6>1. layer > 0 => Window(layer - 1) \in Nat
            BY <1>1, WindowFacts
          <6> QED
            BY <1>1, <3>2, <4>3, <6>1 DEF Handler, InTime, Has, Coming
        <5>2. Before("h2d", p, "compute", e + 1)
          BY <2>2, <3>1, <3>2, <3>6, <4>3, <5>1 DEF Handler, InsWaited, Writer, Fills, Filler
        <5> QED
          BY <1>5, <3>5, <4>1, <4>3, <5>2, GivenBefore, StreamNames DEF Chain, Writer
      <4> QED
        BY <3>2, <4>2, <4>3
    <3>7. Supplied("compute", e + 1, mem, g, m)'
      BY <1>5, <3>3, <3>4, <3>5, <3>6, GivenReader, StreamNames
    <3> QED
      BY <3>1, <3>7
  <2> QED
    BY <1>5, <2>1, <2>2, GivenOps
<1>14. Progress'
  <2>1. CASE layer = 0
    BY <1>1, <1>6, <1>7, <1>8, <2>1 DEF Handler, Progress, Going
  <2>2. CASE layer # 0
    BY <1>1, <1>6, <1>7, <1>8, <2>2 DEF Handler, Progress, Going
  <2> QED
    BY <2>1, <2>2
<1>15. Left' /\ InTime' /\ Called'
  BY <1>1, <1>6, <1>7, <1>8, <1>9 DEF Handler, Left, InTime, Called
<1>19. OutsWaited'
  <2> SUFFICES ASSUME NEW p \in Pending("d2h")', Op("d2h", p)'.op = "out", ~Leaving(Op("d2h", p).group)'
               PROVE  Before("d2h", p, "compute", End("compute") + 1)'
    BY DEF OutsWaited
  <2>1. p \in Pending("d2h") /\ p \in Nat /\ Op("d2h", p)' = Op("d2h", p)
    BY <1>5, GivenNone, StreamNames
  <2>2. PICK x : x = Op("d2h", p).group
    OBVIOUS
  <2>3. ~Leaving(x)'
    BY <2>1, <2>2 DEF Leaving, Has
  <2>4. Before("d2h", p, "compute", End("compute") + 1)
    BY <1>12, <2>1, <2>2, <2>3 DEF Handler, OutsWaited
  <2> QED
    BY <1>5, <2>1, <2>4, GivenAhead, StreamNames
<1>20. InsWaited'
  <2>1. \A x : Has(x, "copied")' => Has(x, "copied")
    BY <1>8 DEF Has
  <2>2. \A x : Coming(x)' <=> Coming(x)
    BY <1>6, <1>7 DEF Coming
  <2>3. (Going \/ current = 0)' => current = 0
    BY <1>1, <1>7 DEF Going
  <2> QED
    BY <1>5, <2>1, <2>2, <2>3, NoIns DEF Handler
<1>21. Believed'
  <2> SUFFICES ASSUME NEW g \in DOMAIN state', NEW m \in {micro'}
               PROVE  /\ state'[g] = "saved" => Ready("device", g, m)' /\ g \notin freed'["saved"]
                      /\ state'[g] = "key" => Ready("host", g, m)'
                      /\ state'[g] = "copied" => Ready("back", g, m)' /\ g \notin freed'["copied"]
    BY DEF Believed
  <2>1. g \in Layers /\ g # layer /\ state'[g] = state[g] /\ g \in DOMAIN state /\ m = micro
    BY <1>1, <1>7, <1>8 DEF Typed
  <2>2. ASSUME NEW mem \in Memories, Ready(mem, g, m), mem = "device" => g \notin freed["saved"]
        PROVE  Ready(mem, g, m)'
    <3>1. ~Writes(w, mem, g)
      BY <1>11, <2>1, <2>2
    <3>2. \A j \in 1 .. Len(ops[Writer[mem]]) : ~Writes(ops[Writer[mem]][j], mem, g)
      BY <1>5, <3>1 DEF Memories, Writer
    <3> QED
      BY <1>5, <2>2, <3>2, GivenReady
  <2> QED
    BY <1>9, <2>1, <2>2 DEF Handler, Believed, Memories
<1> QED
  BY <1>10, <1>13, <1>14, <1>15, <1>19, <1>20, <1>21 DEF Handler

-----------------------------------------------------------------------------
(***************************************************************************)
(* What a commit gives the streams.                                        *)
(***************************************************************************)
OpsGiven == [Streams -> Seq(AllOps)]
WaitOp(s, u) == [op |-> "wait", on |-> s, upto |-> u]
OutOp(g) == Work("out", g, "saved")
InOp(g) == Work("in", g, "copied")

\* One operation more for one stream.
LEMMA Enqueued ==
    ASSUME NEW ops \in OpsGiven, NEW s \in Streams, NEW op \in AllOps
    PROVE  /\ Enqueue(ops, s, op) \in OpsGiven /\ Enqueue(ops, s, op)[s] = Append(ops[s], op)
           /\ \A t \in Streams \ {s} : Enqueue(ops, s, op)[t] = ops[t]
<1>1. Append(ops[s], op) \in Seq(AllOps)
  BY AppendProperties DEF OpsGiven
<1> QED
  BY <1>1 DEF OpsGiven, Enqueue

\* wait_stream.
LEMMA Waiting ==
    ASSUME Typed, NEW ops \in OpsGiven, NEW s \in Streams, NEW other \in Streams, s # other,
           NEW w, w = WaitOp(other, End(other) + Len(ops[other]))
    PROVE  /\ WaitStream(ops, s, other) \in OpsGiven /\ w \in AllOps
           /\ WaitStream(ops, s, other)[s] = Append(ops[s], w)
           /\ \A t \in Streams \ {s} : WaitStream(ops, s, other)[t] = ops[t]
<1>1. End(other) \in Nat /\ Len(ops[other]) \in Nat
  BY PlaceTypes, LenProperties DEF OpsGiven
<1>2. w \in AllOps
  BY <1>1 DEF AllOps, WaitOps, WaitOp
<1>3. WaitStream(ops, s, other) = Enqueue(ops, s, w)
  BY DEF WaitStream, WaitOp, End
<1> QED
  BY <1>2, <1>3, Enqueued

\* The two copies.
LEMMA OutIn ==
    ASSUME Typed, NEW g \in Layers
    PROVE  /\ OutOp(g) \in AllOps /\ OutOp(g).op = "out" /\ OutOp(g).group = g
           /\ OutOp(g).block = "saved" /\ OutOp(g).micro = micro
           /\ InOp(g) \in AllOps /\ InOp(g).op = "in" /\ InOp(g).group = g
           /\ InOp(g).block = "copied" /\ InOp(g).micro = micro
           /\ InOp(g).reuses = freed["copied"] \ {g}
BY DEF Typed, Work, WorkOps, AllOps, OutOp, InOp

\* Sequences of up to three operations.
LEMMA Appended ==
    ASSUME NEW a, NEW b, NEW c
    PROVE  Append(<<>>, a) = <<a>> /\ Append(<<a>>, b) = <<a, b>> /\ Append(<<a, b>>, c) = <<a, b, c>>
<1>1. Append(<<>>, a) = <<a>>
  OBVIOUS
<1> DEFINE S == {a, b, c}
<1>2. Append(<<a>>, b) = <<a, b>>
  <2>1. <<a>> \in Seq(S) /\ <<a, b>> \in Seq(S) /\ Len(<<a>>) = 1 /\ Len(<<a, b>>) = 2
    OBVIOUS
  <2>2. /\ Append(<<a>>, b) \in Seq(S) /\ Len(Append(<<a>>, b)) = 2
        /\ \A i \in 1 .. 1 : Append(<<a>>, b)[i] = <<a>>[i]
        /\ Append(<<a>>, b)[2] = b
    BY <2>1, AppendProperties
  <2>3. \A i \in 1 .. 2 : Append(<<a>>, b)[i] = <<a, b>>[i]
    BY <2>2
  <2> HIDE DEF S
  <2> QED
    BY <2>1, <2>2, <2>3, SeqEqual
<1>3. Append(<<a, b>>, c) = <<a, b, c>>
  <2>1. <<a, b>> \in Seq(S) /\ <<a, b, c>> \in Seq(S) /\ Len(<<a, b>>) = 2 /\ Len(<<a, b, c>>) = 3
    OBVIOUS
  <2>2. /\ Append(<<a, b>>, c) \in Seq(S) /\ Len(Append(<<a, b>>, c)) = 3
        /\ \A i \in 1 .. 2 : Append(<<a, b>>, c)[i] = <<a, b>>[i]
        /\ Append(<<a, b>>, c)[3] = c
    BY <2>1, AppendProperties
  <2>3. \A i \in 1 .. 3 : Append(<<a, b>>, c)[i] = <<a, b, c>>[i]
    BY <2>2
  <2> HIDE DEF S
  <2> QED
    BY <2>1, <2>2, <2>3, SeqEqual
<1> QED
  BY <1>1, <1>2, <1>3

\* No operation.
LEMMA Nothing == NoOps \in OpsGiven /\ \A s \in Streams : NoOps[s] = <<>>
BY DEF NoOps, OpsGiven

Due == Window(count) = current
Kick == IF current = 0 THEN Offload(WaitStream(NoOps, "d2h", "compute"), 0) ELSE NoOps
Met == IF Due THEN Meet(Kick, "d2h") ELSE Kick
Follows == Due /\ count < NumOffload - 1 /\ count + 1 \in DOMAIN state
ForwardOps == IF Follows THEN Enqueue(Met, "d2h", OutOp(count + 1)) ELSE Met

\* The copy of group 0, that on_group_commit_forward starts at the first commit.
LEMMA KickOps ==
    ASSUME IInv, CommitForward, NEW c, c = End("compute")
    PROVE  /\ Kick \in OpsGiven /\ Kick["compute"] = <<>> /\ Kick["h2d"] = <<>>
           /\ current = 0 => Kick["d2h"] = <<WaitOp("compute", c), OutOp(0)>>
           /\ current # 0 => Kick["d2h"] = <<>>
<1> USE DEF IInv
<1>1. CASE current = 0
  <2>1. 0 \in DOMAIN state /\ 0 \in Layers
    BY <1>1 DEF Handler, Progress, CommitForward, Typed
  <2> DEFINE first == WaitStream(NoOps, "d2h", "compute")
  <2>2. WaitOp("compute", End("compute") + Len(NoOps["compute"])) = WaitOp("compute", c)
    <3>1. c \in Nat /\ Len(NoOps["compute"]) = 0
      BY PlaceTypes, Nothing, StreamNames
    <3> QED
      BY <3>1
  <2>3. /\ first \in OpsGiven /\ first["d2h"] = Append(NoOps["d2h"], WaitOp("compute", c))
        /\ first["compute"] = <<>> /\ first["h2d"] = <<>>
    <3>1. "d2h" # "compute" /\ "d2h" # "h2d" /\ NoOps \in OpsGiven
      BY Nothing
    <3>2. PICK w : w = WaitOp("compute", End("compute") + Len(NoOps["compute"]))
      OBVIOUS
    <3>3. first \in OpsGiven /\ first["d2h"] = Append(NoOps["d2h"], w)
          /\ \A t \in Streams \ {"d2h"} : first[t] = NoOps[t]
      BY <3>1, <3>2, Waiting, StreamNames
    <3> HIDE DEF first
    <3> QED
      BY <2>2, <3>1, <3>2, <3>3, Nothing, StreamNames
  <2>4. first["d2h"] = <<WaitOp("compute", c)>>
    BY <2>3, Nothing, Appended, StreamNames
  <2>5. Kick = Enqueue(first, "d2h", OutOp(0))
    BY <1>1, <2>1 DEF Kick, Offload, OutOp
  <2> HIDE DEF first
  <2>6. /\ Kick \in OpsGiven /\ Kick["d2h"] = Append(first["d2h"], OutOp(0))
        /\ Kick["compute"] = <<>> /\ Kick["h2d"] = <<>>
    <3>1. OutOp(0) \in AllOps
      BY <2>1, OutIn
    <3>2. Enqueue(first, "d2h", OutOp(0)) \in OpsGiven
          /\ Enqueue(first, "d2h", OutOp(0))["d2h"] = Append(first["d2h"], OutOp(0))
          /\ \A t \in Streams \ {"d2h"} : Enqueue(first, "d2h", OutOp(0))[t] = first[t]
      BY <2>3, <3>1, Enqueued, StreamNames
    <3> QED
      BY <2>3, <2>5, <3>2, StreamNames
  <2>7. Kick["d2h"] = <<WaitOp("compute", c), OutOp(0)>>
    BY <2>4, <2>6, Appended
  <2> QED
    BY <1>1, <2>6, <2>7
<1>2. CASE current # 0
  BY <1>2, Nothing, StreamNames DEF Kick
<1> QED
  BY <1>1, <1>2

\* The two streams wait for one another.
LEMMA MeetOps ==
    ASSUME Typed, NEW ops \in OpsGiven, NEW side \in {"d2h", "h2d"}, ops["compute"] = <<>>,
           NEW c, c = End("compute"), NEW e, e = End(side) + (Len(ops[side]) + 1)
    PROVE  /\ Meet(ops, side) \in OpsGiven /\ Meet(ops, side)[side] = Append(ops[side], WaitOp("compute", c))
           /\ Meet(ops, side)["compute"] = <<WaitOp(side, e)>> /\ e \in Nat /\ c \in Nat
           /\ \A t \in Streams \ {"compute", side} : Meet(ops, side)[t] = ops[t]
<1>1. /\ side \in Streams /\ "compute" \in Streams /\ side # "compute"
      /\ c \in Nat /\ End(side) \in Nat /\ Len(ops[side]) \in Nat
  BY PlaceTypes, LenProperties DEF Streams, OpsGiven
<1>2. PICK first : first = WaitStream(ops, side, "compute")
  OBVIOUS
<1>3. WaitOp("compute", End("compute") + Len(ops["compute"])) = WaitOp("compute", c)
  BY <1>1
<1>4. /\ first \in OpsGiven /\ first[side] = Append(ops[side], WaitOp("compute", c))
      /\ (\A t \in Streams \ {side} : first[t] = ops[t]) /\ WaitOp("compute", c) \in AllOps
  BY <1>1, <1>2, <1>3, Waiting
<1>5. Len(first[side]) = Len(ops[side]) + 1
  <2>1. ops[side] \in Seq(AllOps)
    BY <1>1 DEF OpsGiven
  <2> QED
    BY <1>4, <2>1, AppendProperties
<1>6. WaitOp(side, End(side) + Len(first[side])) = WaitOp(side, e)
  BY <1>5
<1>7. PICK met : met = Meet(ops, side)
  OBVIOUS
<1>8. met = WaitStream(first, "compute", side)
  BY <1>2, <1>7 DEF Meet
<1>9. /\ met \in OpsGiven /\ met["compute"] = Append(first["compute"], WaitOp(side, e))
      /\ \A t \in Streams \ {"compute"} : met[t] = first[t]
  <2>1. PICK w : w = WaitOp(side, End(side) + Len(first[side]))
    OBVIOUS
  <2>2. /\ WaitStream(first, "compute", side) \in OpsGiven
        /\ WaitStream(first, "compute", side)["compute"] = Append(first["compute"], w)
        /\ \A t \in Streams \ {"compute"} : WaitStream(first, "compute", side)[t] = first[t]
    <3>1. side \in Streams /\ "compute" \in Streams /\ "compute" # side /\ first \in OpsGiven
      BY <1>1, <1>4
    <3> HIDE <1>1, <1>4
    <3> QED
      BY <2>1, <3>1, Waiting
  <2> QED
    BY <1>6, <1>8, <2>1, <2>2
<1>10. met["compute"] = <<WaitOp(side, e)>>
  BY <1>1, <1>4, <1>9, Appended
<1>11. side # "compute" /\ e \in Nat
  BY <1>1
<1> QED
  BY <1>1, <1>4, <1>7, <1>9, <1>10, <1>11

\* By what it needs to know: which copies are made, that each follows a wait for
\* the computation, and that it waits for them when a window is due.
Outs == (IF current = 0 THEN {0} ELSE {}) \cup (IF Due /\ count < NumOffload - 1 THEN {count + 1} ELSE {})
IsOut(op, g) == op.op = "out" /\ op.group = g
LEMMA ForwardGives ==
    ASSUME IInv, CommitForward, NEW c, c = End("compute"), NEW d, d = End("d2h"),
           NEW ops, ops = ForwardOps
    PROVE  /\ c \in Nat /\ d \in Nat /\ Given(ops) /\ Len(ops["h2d"]) = 0
           /\ \A j \in 1 .. Len(ops["compute"]) : ops["compute"][j].op = "wait"
           /\ \A j \in 1 .. Len(ops["d2h"]) : ops["d2h"][j].op # "wait" =>
                \E g \in Outs \cap DOMAIN state :
                    /\ ops["d2h"][j] = OutOp(g)
                    /\ \E i \in 1 .. j - 1 : Waits(ops["d2h"][i], "compute", c)
           /\ \A g \in Outs \cap DOMAIN state :
                \E j \in 1 .. Len(ops["d2h"]) :
                    /\ ops["d2h"][j] = OutOp(g)
                    /\ \A i \in j + 1 .. Len(ops["d2h"]) : ~IsOut(ops["d2h"][i], g)
           /\ Due => \E j \in 1 .. Len(ops["compute"]) :
                /\ Waits(ops["compute"][j], "d2h", d)
                /\ \A i \in 1 .. Len(ops["d2h"]) :
                    current = 0 /\ IsOut(ops["d2h"][i], 0) => Waits(ops["compute"][j], "d2h", d + i)
<1> USE DEF IInv
<1>1. Kick \in OpsGiven /\ Kick["compute"] = <<>> /\ Kick["h2d"] = <<>> /\ c \in Nat /\ d \in Nat
      /\ (current = 0 => Kick["d2h"] = <<WaitOp("compute", c), OutOp(0)>>)
      /\ (current # 0 => Kick["d2h"] = <<>>)
  BY KickOps, PlaceTypes, StreamNames
<1>2. PICK w, v : w = WaitOp("compute", c) /\ v = WaitOp("d2h", d + (Len(Kick["d2h"]) + 1))
  OBVIOUS
<1>3. w.op = "wait" /\ w.on = "compute" /\ w.upto = c
      /\ v.op = "wait" /\ v.on = "d2h" /\ v.upto = d + (Len(Kick["d2h"]) + 1)
  BY <1>2 DEF WaitOp
<1>4. current \in Nat /\ count \in Nat /\ DOMAIN state = 0 .. current /\ DOMAIN state \subseteq Layers
      /\ count < NumOffload /\ NumOffload \in Nat
  BY SizeFacts DEF Handler, Progress, CommitForward, Typed, Layers
<1>5. \A g \in DOMAIN state : OutOp(g) \in AllOps /\ OutOp(g).op = "out" /\ OutOp(g).group = g
  BY <1>4, OutIn
<1>6. PICK met : met = Met
  OBVIOUS
<1>7. 0 \in Outs <=> current = 0
  BY <1>4 DEF Outs
<1>8. \A g : g \in Outs /\ g # 0 <=> Due /\ count < NumOffload - 1 /\ g = count + 1
  BY <1>4 DEF Outs
<1>9. Follows <=> count + 1 \in Outs \cap DOMAIN state
  BY <1>4, <1>8 DEF Follows
<1>10. Submit(ops)
  BY DEF CommitForward, ForwardOps, Met, Kick, Follows, Due, Offload, OutOp
<1>11. /\ Due => met \in OpsGiven /\ met["d2h"] = Append(Kick["d2h"], w)
                 /\ met["compute"] = <<v>> /\ met["h2d"] = <<>>
       /\ ~Due => met = Kick
  <2>1. ~Due => met = Kick
    BY <1>6 DEF Met
  <2>2. ASSUME Due
        PROVE  /\ met \in OpsGiven /\ met["d2h"] = Append(Kick["d2h"], w)
               /\ met["compute"] = <<v>> /\ met["h2d"] = <<>>
    <3>1. met = Meet(Kick, "d2h")
      BY <1>6, <2>2 DEF Met
    <3>2. "h2d" \in Streams \ {"compute", "d2h"} /\ "d2h" \in {"d2h", "h2d"}
      BY StreamNames
    <3>3. PICK e : e = End("d2h") + (Len(Kick["d2h"]) + 1)
      OBVIOUS
    <3>4. /\ Meet(Kick, "d2h") \in OpsGiven /\ Meet(Kick, "d2h")["d2h"] = Append(Kick["d2h"], WaitOp("compute", c))
          /\ Meet(Kick, "d2h")["compute"] = <<WaitOp("d2h", e)>>
          /\ \A t \in Streams \ {"compute", "d2h"} : Meet(Kick, "d2h")[t] = Kick[t]
      BY <1>1, <3>2, <3>3, MeetOps
    <3> QED
      BY <1>1, <1>2, <3>1, <3>2, <3>3, <3>4
  <2> QED
    BY <2>1, <2>2
<1>12. ASSUME NEW q, q = ops["d2h"]
       PROVE  /\ ops \in OpsGiven /\ ops["h2d"] = <<>>
              /\ ops["compute"] = IF Due THEN <<v>> ELSE <<>>
              /\ \/ current = 0 /\ ~Due /\ q = <<w, OutOp(0)>>
                 \/ current = 0 /\ Due /\ q = <<w, OutOp(0), w>>
                 \/ current # 0 /\ ~Due /\ q = <<>>
                 \/ current # 0 /\ Due /\ ~Follows /\ q = <<w>>
                 \/ current # 0 /\ Due /\ Follows /\ q = <<w, OutOp(count + 1)>>
  <2>1. CASE ~Due
    <3>1. ops = Kick
      BY <1>6, <1>11, <2>1 DEF ForwardOps, Follows
    <3> QED
      BY <1>1, <1>2, <1>12, <2>1, <3>1
  <2>2. CASE Due /\ current = 0
    <3>1. ~Follows
      BY <1>4, <2>2 DEF Follows
    <3>2. ops = met
      BY <1>6, <3>1 DEF ForwardOps
    <3>3. met["d2h"] = <<w, OutOp(0), w>>
      <4>1. met["d2h"] = Append(<<w, OutOp(0)>>, w)
        BY <1>1, <1>2, <1>11, <2>2
      <4> HIDE <1>11
      <4> QED
        BY <4>1, Appended
    <3> QED
      BY <1>11, <1>12, <2>2, <3>2, <3>3
  <2>3. CASE Due /\ current # 0
    <3>1. met["d2h"] = <<w>>
      BY <1>1, <1>11, <2>3, Appended
    <3>2. CASE ~Follows
      <4>1. ops = met
        BY <1>6, <3>2 DEF ForwardOps
      <4> QED
        BY <1>11, <1>12, <2>3, <3>1, <3>2, <4>1
    <3>3. CASE Follows
      <4>1. ops = Enqueue(met, "d2h", OutOp(count + 1))
        BY <1>6, <3>3 DEF ForwardOps
      <4>2. OutOp(count + 1) \in AllOps
        BY <1>5, <3>3 DEF Follows
      <4>3. ops \in OpsGiven /\ ops["d2h"] = Append(met["d2h"], OutOp(count + 1))
            /\ \A t \in Streams \ {"d2h"} : ops[t] = met[t]
        BY <1>11, <2>3, <4>1, <4>2, Enqueued, StreamNames
      <4>4. q = <<w, OutOp(count + 1)>>
        BY <1>12, <3>1, <4>3, Appended
      <4> QED
        BY <1>11, <2>3, <3>3, <4>3, <4>4, StreamNames
    <3> QED
      BY <3>2, <3>3
  <2> QED
    BY <2>1, <2>2, <2>3
<1>13. PICK q : q = ops["d2h"]
  OBVIOUS
<1>14. ASSUME NEW g \in Outs \cap DOMAIN state
       PROVE  /\ current = 0 => g = 0
              /\ current # 0 => Follows /\ g = count + 1
  BY <1>4, <1>7, <1>8, <1>9, <1>14 DEF Follows
<1>15. 0 \in DOMAIN state /\ (current = 0 => ~Follows)
  BY <1>4 DEF Follows
<1>16. ASSUME NEW j \in 1 .. Len(q)
       PROVE  \/ q[j] = w
              \/ j = 2 /\ q[1] = w /\ \E g \in Outs \cap DOMAIN state : q[j] = OutOp(g)
  <2>1. CASE current = 0 /\ ~Due /\ q = <<w, OutOp(0)>>
    BY <1>7, <1>15, <1>16, <2>1
  <2>2. CASE current = 0 /\ Due /\ q = <<w, OutOp(0), w>>
    BY <1>7, <1>15, <1>16, <2>2
  <2>3. CASE q = <<>>
    BY <1>16, <2>3
  <2>4. CASE q = <<w>>
    BY <1>16, <2>4
  <2>5. CASE current # 0 /\ Due /\ Follows /\ q = <<w, OutOp(count + 1)>>
    BY <1>9, <1>16, <2>5
  <2> QED
    BY <1>12, <1>13, <2>1, <2>2, <2>3, <2>4, <2>5
<1>17. ASSUME NEW g \in Outs \cap DOMAIN state
       PROVE  Len(q) >= 2 /\ Len(q) \in Nat /\ q[2] = OutOp(g) /\ \A i \in 3 .. Len(q) : q[i] = w
  <2>1. CASE current = 0 /\ ~Due /\ q = <<w, OutOp(0)>>
    BY <1>14, <2>1
  <2>2. CASE current = 0 /\ Due /\ q = <<w, OutOp(0), w>>
    BY <1>14, <2>2
  <2>3. CASE current # 0 /\ Due /\ Follows /\ q = <<w, OutOp(count + 1)>>
    BY <1>14, <2>3
  <2>4. current = 0 \/ (Follows /\ Due)
    BY <1>14 DEF Follows
  <2> QED
    BY <1>12, <1>13, <2>1, <2>2, <2>3, <2>4
<1>18. ops["compute"] = (IF Due THEN <<v>> ELSE <<>>) /\ ops["h2d"] = <<>> /\ ops \in OpsGiven
  BY <1>12, <1>13
<1>19. Given(ops)
  <2>1. \A j \in 1 .. Len(ops["d2h"]) : ops["d2h"][j].op \in Kinds["d2h"] \cup {"wait"}
    BY <1>3, <1>5, <1>13, <1>16 DEF Kinds
  <2>2. \A j \in 1 .. Len(ops["compute"]) : ops["compute"][j].op \in Kinds["compute"] \cup {"wait"}
    BY <1>3, <1>18
  <2>3. \A j \in 1 .. Len(ops["h2d"]) : ops["h2d"][j].op \in Kinds["h2d"] \cup {"wait"}
    BY <1>18
  <2>4. UNCHANGED <<size, done, memory>>
    BY DEF CommitForward
  <2> QED
    BY <1>10, <1>18, <2>1, <2>2, <2>3, <2>4 DEF Given, OpsGiven, Streams
<1>20. Len(ops["h2d"]) = 0 /\ \A j \in 1 .. Len(ops["compute"]) : ops["compute"][j].op = "wait"
  BY <1>3, <1>18
<1>21. ASSUME NEW j \in 1 .. Len(q), q[j].op # "wait"
       PROVE  \E g \in Outs \cap DOMAIN state :
                q[j] = OutOp(g) /\ \E i \in 1 .. j - 1 : Waits(q[i], "compute", c)
  <2>1. j = 2 /\ q[1] = w /\ \E g \in Outs \cap DOMAIN state : q[j] = OutOp(g)
    BY <1>3, <1>16, <1>21
  <2>2. 1 \in 1 .. j - 1 /\ Waits(q[1], "compute", c)
    BY <1>1, <1>3, <2>1 DEF Waits
  <2> QED
    BY <2>1, <2>2
<1>22. ASSUME NEW g \in Outs \cap DOMAIN state
       PROVE  \E j \in 1 .. Len(q) : q[j] = OutOp(g) /\ \A i \in j + 1 .. Len(q) : ~IsOut(q[i], g)
  <2>1. 2 \in 1 .. Len(q) /\ q[2] = OutOp(g) /\ \A i \in 2 + 1 .. Len(q) : ~IsOut(q[i], g)
    BY <1>3, <1>17 DEF IsOut
  <2> QED
    BY <2>1
<1>23. ASSUME Due
       PROVE  \E j \in 1 .. Len(ops["compute"]) :
                /\ Waits(ops["compute"][j], "d2h", d)
                /\ \A i \in 1 .. Len(q) :
                    current = 0 /\ IsOut(q[i], 0) => Waits(ops["compute"][j], "d2h", d + i)
  <2>1. 1 \in 1 .. Len(ops["compute"]) /\ ops["compute"][1] = v
    BY <1>18, <1>23
  <2>2. Len(Kick["d2h"]) \in Nat /\ (current = 0 => Len(Kick["d2h"]) = 2)
    BY <1>1
  <2>3. Waits(v, "d2h", d)
    BY <1>1, <1>3, <2>2 DEF Waits
  <2>4. ASSUME NEW i \in 1 .. Len(q), current = 0, IsOut(q[i], 0) PROVE Waits(v, "d2h", d + i)
    <3>1. i = 2
      BY <1>3, <1>16, <2>4 DEF IsOut
    <3>2. v.upto = d + 3
      <4>1. Len(Kick["d2h"]) = 2
        BY <2>2, <2>4
      <4> QED
        BY <1>3, <4>1, d + (2 + 1) = d + 3
    <3> QED
      BY <1>1, <1>3, <3>1, <3>2 DEF Waits
  <2> QED
    BY <2>1, <2>3, <2>4
<1> QED
  BY <1>1, <1>13, <1>19, <1>20, <1>21, <1>22, <1>23

\* The only new operations that write are copies out, of groups that are on the
\* device: they wait for the computation, that waits for the copies back before.
LEMMA CommitForwardPreserves ==
    ASSUME IInv, CommitForward
    PROVE  IInv'
<1> USE DEF IInv
<1>1. PICK c, d, ops : c = End("compute") /\ d = End("d2h") /\ ops = ForwardOps
  OBVIOUS
<1>2. /\ c \in Nat /\ d \in Nat /\ Given(ops) /\ Len(ops["h2d"]) = 0
      /\ \A j \in 1 .. Len(ops["compute"]) : ops["compute"][j].op = "wait"
      /\ \A j \in 1 .. Len(ops["d2h"]) : ops["d2h"][j].op # "wait" =>
           \E g \in Outs \cap DOMAIN state :
               /\ ops["d2h"][j] = OutOp(g)
               /\ \E i \in 1 .. j - 1 : Waits(ops["d2h"][i], "compute", c)
      /\ \A g \in Outs \cap DOMAIN state :
           \E j \in 1 .. Len(ops["d2h"]) :
               /\ ops["d2h"][j] = OutOp(g)
               /\ \A i \in j + 1 .. Len(ops["d2h"]) : ~IsOut(ops["d2h"][i], g)
      /\ Due => \E j \in 1 .. Len(ops["compute"]) :
           /\ Waits(ops["compute"][j], "d2h", d)
           /\ \A i \in 1 .. Len(ops["d2h"]) :
               current = 0 /\ IsOut(ops["d2h"][i], 0) => Waits(ops["compute"][j], "d2h", d + i)
  BY <1>1, ForwardGives
<1>3. /\ phase = "commit" /\ layer = current /\ current \in Nat /\ current < NumLayers /\ Going
      /\ NumOffload \in Nat /\ NumLayers \in Nat /\ DOMAIN state = 0 .. current /\ micro \in Nat
      /\ count \in Nat /\ count < NumOffload /\ DOMAIN state \subseteq Layers
      /\ \A g \in DOMAIN state : g \in Nat /\ state[g] \in {"saved", "key"}
  BY SizeFacts DEF Handler, Progress, CommitForward, Typed, Layers, Going
<1>4. /\ Layers' = Layers /\ NumLayers' = NumLayers /\ NumOffload' = NumOffload
      /\ \A i : Window(i)' = Window(i)
  BY <1>2, GivenTyped DEF Window
<1>5. /\ DOMAIN state' = DOMAIN state
      /\ \A g \in DOMAIN state : state'[g] = IF g \in Outs THEN "key" ELSE state[g]
      /\ \A g \in Outs \cap DOMAIN state : state[g] = "saved"
  BY <1>3 DEF CommitForward, Outs, Due
<1>6. /\ count' = (IF Due THEN count + 1 ELSE count) /\ current' = current + 1
      /\ freed' = (IF Due /\ state'[count] = "key" THEN [freed EXCEPT !["saved"] = @ \cup {count}] ELSE freed)
      /\ phase' = (IF layer = NumLayers - 1 THEN "uncommit" ELSE "forward")
      /\ layer' = (IF layer = NumLayers - 1 THEN layer ELSE layer + 1)
      /\ UNCHANGED <<size, micro>>
  BY DEF CommitForward, Due
<1>7. /\ \A i \in Nat : Window(i) \in Nat /\ i <= Window(i)
      /\ \A i \in Nat, j \in Nat : i < j => Window(i) < Window(j)
  BY WindowFacts
<1>8. /\ current = 0 => count = 0
      /\ \A i \in 0 .. NumOffload - 1 : Window(i) < current => i < count
      /\ \A i \in 0 .. count - 1 : Window(i) < current
  BY <1>3 DEF Handler, Progress
<1>9. Due => count \in DOMAIN state
  BY <1>3, <1>7 DEF Due
<1>10. /\ 0 \in Outs <=> current = 0
       /\ \A g : g \in Outs /\ g # 0 => Due /\ g = count + 1 /\ g < NumOffload
  BY <1>3 DEF Outs
<1>11. /\ freed \in [{"saved", "copied"} -> SUBSET Layers] /\ freed' \in [{"saved", "copied"} -> SUBSET Layers]
       /\ freed'["copied"] = freed["copied"]
       /\ \A x : x \in freed'["saved"] <=> x \in freed["saved"] \/ (Due /\ x = count /\ state'[count] = "key")
  <2>1. freed \in [{"saved", "copied"} -> SUBSET Layers]
    BY DEF Typed
  <2>2. Due => count \in Layers
    BY <1>3, <1>9
  <2> QED
    BY <1>6, <2>1, <2>2
<1>12. Typed'
  <2>1. DOMAIN state' \subseteq Layers' /\ \A g \in DOMAIN state' : state'[g] \in {"saved", "key", "copied"}
    BY <1>3, <1>4, <1>5
  <2>2. count' \in 0 .. NumOffload' /\ current' \in 0 .. NumLayers' /\ layer' \in Layers' /\ micro' \in Nat
        /\ phase' \in {"forward", "commit", "uncommit", "backward", "end"}
    BY <1>3, <1>4, <1>6 DEF Layers
  <2> QED
    BY <1>2, <1>4, <1>11, <2>1, <2>2, GivenTyped DEF Typed, AllOps
<1>13. \A g \in Outs \cap DOMAIN state : OutOp(g).op = "out" /\ OutOp(g).group = g /\ OutOp(g).block = "saved"
            /\ OutOp(g).micro = micro
  BY <1>3, OutIn
\* The only memory that is written to is the host's.
<1>14. ASSUME NEW mem \in Memories, NEW g, NEW j \in 1 .. Len(ops[Writer[mem]]), Writes(ops[Writer[mem]][j], mem, g)
       PROVE  /\ mem = "host" /\ Writer[mem] = "d2h" /\ g \in Outs \cap DOMAIN state /\ ops["d2h"][j] = OutOp(g)
              /\ \E i \in 1 .. j - 1 : Waits(ops["d2h"][i], "compute", c)
  <2>1. CASE mem = "device"
    BY <1>2, <1>14, <2>1 DEF Writer, Writes, Fills, Filler, Spoils
  <2>2. CASE mem = "back"
    BY <1>2, <1>14, <2>2 DEF Writer
  <2>3. CASE mem = "host"
    <3>1. Writer[mem] = "d2h" /\ ops["d2h"][j].op = "out" /\ ops["d2h"][j].group = g
      BY <1>14, <2>3 DEF Writer, Writes, Fills, Filler, Spoils
    <3> QED
      BY <1>2, <1>13, <1>14, <2>3, <3>1
  <2> QED
    BY <2>1, <2>2, <2>3 DEF Memories
\* What follows such a wait follows all that the computation was given before.
<1>15. ASSUME NEW s \in Streams, NEW p \in Int, Before(s, p, "compute", c + 1),
              NEW j \in 1 .. Len(ops["d2h"]), NEW i \in 1 .. j - 1, Waits(ops["d2h"][i], "compute", c)
       PROVE  Chain(s, p, "d2h", d + j)'
  <2>1. /\ d + i \in Pending("d2h")' /\ Op("d2h", d + i)' = ops["d2h"][i] /\ d + i < d + j
        /\ Len(ops["d2h"]) \in Nat
    <3>1. Len(ops["d2h"]) \in Nat
      BY <1>1, <1>2, GivenPlaces, StreamNames
    <3>2. i \in 1 .. Len(ops["d2h"])
      BY <1>15, <3>1
    <3> QED
      BY <1>1, <1>2, <1>15, <3>1, <3>2, GivenPlaces, StreamNames
  <2>2. Before("compute", c, "d2h", d + j)'
    BY <1>15, <2>1 DEF Before, Waits
  <2>3. Before(s, p, "compute", c + 1)'
    BY <1>2, <1>15, GivenBefore, StreamNames
  <2>4. c \in 0 .. End("compute")'
    BY <1>1, <1>2, GivenPlaces, StreamNames
  <2> QED
    BY <2>2, <2>3, <2>4, StreamNames DEF Chain
<1>16. OpsSupplied'
  <2>1. ASSUME NEW t \in Streams, NEW r \in Pending(t), NEW mem \in Memories, NEW g \in Layers, NEW m \in Nat,
               Wants(Op(t, r), mem, g, m), NEW e, e = End(Writer[mem]),
               NEW j \in 1 .. Len(ops[Writer[mem]]), Writes(ops[Writer[mem]][j], mem, g)
        PROVE  Chain(t, r, Writer[mem], e + j)'
    <3>1. mem = "host" /\ Writer[mem] = "d2h" /\ \E i \in 1 .. j - 1 : Waits(ops["d2h"][i], "compute", c)
      BY <1>14, <2>1
    <3>2. t = "h2d" /\ r \in Nat /\ r <= End("h2d") /\ End("h2d") \in Nat
      <4>1. Op(t, r).op = "in"
        BY <2>1, <3>1 DEF Wants, Source
      <4>2. Op(t, r).op \in Kinds[t] \cup {"wait"}
        BY <2>1, PlaceTypes
      <4>3. t = "h2d"
        BY <4>1, <4>2 DEF Kinds, Streams
      <4>4. End(t) \in Nat /\ done[t] \in Nat /\ r \in Nat
        BY <2>1, PlaceTypes
      <4> QED
        BY <2>1, <4>3, <4>4 DEF Pending
    <3>3. Before("h2d", End("h2d"), "compute", c + 1)
      BY <1>1, <1>3 DEF Handler, InsWaited
    <3>4. Before("h2d", r, "compute", c + 1)
      BY <1>2, <3>2, <3>3, BeforeEarlier, StreamNames
    <3> QED
      BY <1>1, <1>15, <2>1, <3>1, <3>2, <3>4, StreamNames
  <2>2. ASSUME NEW t \in Streams, NEW e, e = End(t), NEW j \in 1 .. Len(ops[t]),
               NEW mem \in Memories, NEW g \in Layers, NEW m \in Nat, Wants(ops[t][j], mem, g, m)
        PROVE  Supplied(t, e + j, mem, g, m)'
    <3>1. t = "d2h" /\ ops[t][j].op # "wait"
      BY <1>2, <2>2 DEF Wants, Reads, Streams
    <3>2. PICK x \in Outs \cap DOMAIN state :
             ops["d2h"][j] = OutOp(x) /\ \E i \in 1 .. j - 1 : Waits(ops["d2h"][i], "compute", c)
      BY <1>2, <2>2, <3>1
    <3>3. g = x /\ m = micro /\ mem = "device"
      BY <1>13, <2>2, <3>1, <3>2 DEF Wants, Source
    <3>4. Ready("device", g, m)
      BY <1>5, <3>2, <3>3 DEF Handler, Believed
    <3>5. \A i \in 1 .. Len(ops[Writer["device"]]) : ~Writes(ops[Writer["device"]][i], "device", g)
      BY <1>14 DEF Memories
    <3>6. d + j \in Pending("d2h")'
      BY <1>1, <1>2, <2>2, <3>1, GivenPlaces, StreamNames
    <3>7. ASSUME NEW p \in Pending("compute") PROVE Chain("compute", p, "d2h", d + j)'
      <4>1. p \in Nat /\ p < c + 1
        BY <1>1, <1>2, PlaceTypes, StreamNames DEF Pending
      <4>2. Before("compute", p, "compute", c + 1)
        BY <4>1 DEF Before
      <4> QED
        BY <1>15, <2>2, <3>1, <3>2, <4>1, <4>2, StreamNames
    <3>8. Supplied("d2h", d + j, "device", g, m)'
      BY <1>2, <3>4, <3>5, <3>6, <3>7, GivenReader, StreamNames DEF Memories, Writer
    <3> QED
      BY <1>1, <2>2, <3>1, <3>3, <3>8
  <2> QED
    BY <1>2, <2>1, <2>2, GivenOps
<1>17. Progress'
  <2>1. /\ phase' \in {"forward", "commit", "backward"} => layer' = current'
        /\ phase' = "uncommit" => current' = layer' + 1
        /\ phase' = "end" => current' = 0
        /\ DOMAIN state' = CASE phase' = "forward" -> 0 .. layer' - 1
                             [] phase' = "end" -> {}
                             [] OTHER -> 0 .. layer'
    BY <1>3, <1>5, <1>6
  <2>2. current' = 0 => count' = 0
    BY <1>3, <1>6
  <2>3. ASSUME NEW i \in 0 .. NumOffload - 1, Window(i) < current + 1 PROVE i < count'
    <3>1. CASE Window(i) < current
      BY <1>3, <1>6, <1>8, <3>1
    <3>2. CASE Window(i) = current
      <4>1. i < count \/ i = count \/ (count < i /\ Window(count) < current)
        BY <1>3, <1>7, <3>2
      <4>2. ~(Window(count) < current)
        BY <1>3, <1>8
      <4> QED
        BY <1>3, <1>6, <3>2, <4>1, <4>2 DEF Due
    <3> QED
      BY <1>3, <1>7, <2>3, <3>1, <3>2
  <2>4. ASSUME NEW i \in 0 .. count' - 1 PROVE Window(i) < current + 1
    <3>1. CASE i \in 0 .. count - 1
      BY <1>3, <1>7, <1>8, <3>1
    <3>2. CASE i \notin 0 .. count - 1
      BY <1>3, <1>6, <2>4, <3>2 DEF Due
    <3> QED
      BY <3>1, <3>2
  <2>5. \A g \in DOMAIN state' : state'[g] # "copied"
    BY <1>3, <1>5
  <2> QED
    BY <1>3, <1>4, <1>6, <2>1, <2>2, <2>3, <2>4, <2>5 DEF Progress
<1>18. Left'
  <2> SUFFICES ASSUME NEW g \in DOMAIN state, state'[g] = "key", g < count' PROVE g \in freed'["saved"]
    BY <1>5 DEF Left
  <2>1. CASE Due /\ g = count
    BY <1>11, <2>1
  <2>2. CASE ~(Due /\ g = count)
    <3>1. g \in Nat /\ g < count
      BY <1>3, <1>6, <2>2
    <3>2. g \notin Outs
      BY <1>3, <1>8, <1>10, <3>1
    <3> QED
      BY <1>5, <1>11, <3>1, <3>2 DEF Handler, Left
  <2> QED
    BY <2>1, <2>2
<1>19. InTime' /\ Called'
  <2>1. InTime'
    <3> SUFFICES ASSUME NEW g \in DOMAIN state, state'[g] # "saved", g > 0
                 PROVE  g < NumOffload /\ g <= Window(g - 1)
      BY <1>4, <1>5 DEF InTime
    <3>1. CASE g \in Outs
      BY <1>3, <1>10, <3>1 DEF Due
    <3>2. CASE g \notin Outs
      BY <1>5, <3>2 DEF Handler, InTime
    <3> QED
      BY <3>1, <3>2
  <2> QED
    BY <1>3, <1>5, <2>1 DEF Called
<1>20. InsWaited'
  <2>1. \A x : ~Has(x, "copied")'
    BY <1>3, <1>5 DEF Has
  <2> QED
    BY <1>2, <1>3, <2>1, NoIns DEF Handler
<1>21. Believed'
  <2> SUFFICES ASSUME NEW g \in DOMAIN state, NEW m \in {micro}
               PROVE  /\ state'[g] = "saved" => Ready("device", g, m)' /\ g \notin freed'["saved"]
                      /\ state'[g] = "key" => Ready("host", g, m)'
                      /\ state'[g] = "copied" => Ready("back", g, m)' /\ g \notin freed'["copied"]
    BY <1>5, <1>6 DEF Believed
  <2>1. CASE g \in Outs
    <3>1. state'[g] = "key" /\ g \in Outs \cap DOMAIN state
      BY <1>5, <2>1
    <3>2. PICK j \in 1 .. Len(ops["d2h"]) :
            ops["d2h"][j] = OutOp(g) /\ \A i \in j + 1 .. Len(ops["d2h"]) : ~IsOut(ops["d2h"][i], g)
      BY <1>2, <3>1
    <3>3. Fills(ops["d2h"][j], "host", g) /\ ops["d2h"][j].micro = m
      BY <1>13, <3>1, <3>2 DEF Fills, Filler
    <3>4. \A i \in j + 1 .. Len(ops["d2h"]) : ~Writes(ops["d2h"][i], "host", g)
      BY <3>2 DEF IsOut, Writes, Fills, Spoils, Filler
    <3>5. Writer["host"] = "d2h" /\ "host" \in Memories
      BY DEF Writer, Memories
    <3>6. Ready("host", g, m)'
      BY <1>2, <3>2, <3>3, <3>4, <3>5, GivenFilled
    <3> QED
      BY <3>1, <3>6
  <2>2. CASE g \notin Outs
    <3>1. state'[g] = state[g] /\ state[g] # "copied"
      BY <1>3, <1>5, <2>2
    <3>2. ASSUME NEW mem \in Memories, Ready(mem, g, m) PROVE Ready(mem, g, m)'
      <4>1. \A j \in 1 .. Len(ops[Writer[mem]]) : ~Writes(ops[Writer[mem]][j], mem, g)
        BY <1>14, <2>2
      <4> QED
        BY <1>2, <3>2, <4>1, GivenReady
    <3>3. state[g] = "saved" => g \notin freed'["saved"]
      BY <1>11, <3>1 DEF Handler, Believed
    <3> QED
      BY <3>1, <3>2, <3>3 DEF Handler, Believed, Memories
  <2> QED
    BY <2>1, <2>2
<1>22. OutsWaited'
  <2> SUFFICES ASSUME NEW p \in Pending("d2h")', Op("d2h", p)'.op = "out", ~Leaving(Op("d2h", p).group)'
               PROVE  Before("d2h", p, "compute", End("compute") + 1)'
    BY DEF OutsWaited
  <2>0. PICK x, e : x = Op("d2h", p)'.group /\ e = End("compute")'
    OBVIOUS
  <2>1. ~Leaving(x)'
    BY <2>0 DEF Leaving, Has
  <2>2. ASSUME NEW j \in 1 .. Len(ops["compute"]), Waits(ops["compute"][j], "d2h", p)
        PROVE  Before("d2h", p, "compute", End("compute") + 1)'
    <3>1. /\ c + j \in Pending("compute")' /\ Op("compute", c + j)' = ops["compute"][j]
          /\ e = c + Len(ops["compute"]) /\ Len(ops["compute"]) \in Nat
      BY <1>1, <1>2, <2>0, <2>2, GivenPlaces, StreamNames
    <3>2. c + j < e + 1
      BY <1>2, <2>2, <3>1
    <3>3. Before("d2h", p, "compute", e + 1)'
      BY <2>2, <3>1, <3>2 DEF Before, Waits
    <3> QED
      BY <2>0, <3>3 DEF Before
  <2>3. CASE p \in Pending("d2h")
    <3>1. Op("d2h", p)' = Op("d2h", p) /\ p \in Nat /\ p <= d
      BY <1>1, <1>2, <2>3, GivenPlaces, StreamNames
    <3>2. CASE ~Leaving(x)
      <4>1. Before("d2h", p, "compute", End("compute") + 1)
        BY <2>0, <2>3, <3>1, <3>2 DEF Handler, OutsWaited
      <4> QED
        BY <1>2, <3>1, <4>1, GivenAhead, StreamNames
    <3>3. CASE Leaving(x)
      <4>1. Due
        BY <1>5, <1>11, <2>1, <3>3 DEF Leaving, Has
      <4>2. PICK j \in 1 .. Len(ops["compute"]) : Waits(ops["compute"][j], "d2h", d)
        BY <1>2, <4>1
      <4>3. ops["compute"][j].upto \in Nat
        <5>1. /\ c + j \in Pending("compute")' /\ Op("compute", c + j)' = ops["compute"][j]
          BY <1>1, <1>2, GivenPlaces, StreamNames
        <5>2. ops["compute"] \in Seq(AllOps)
          BY <1>2, StreamNames DEF Given
        <5>3. ops["compute"][j] \in AllOps /\ ops["compute"][j].op = "wait"
          BY <4>2, <5>2, ElementOfSeq DEF Waits
        <5> QED
          BY <5>3 DEF AllOps, WaitOps, WorkOps
      <4>4. Waits(ops["compute"][j], "d2h", p)
        BY <1>2, <3>1, <4>2, <4>3 DEF Waits
      <4> QED
        BY <2>2, <4>4
    <3> QED
      BY <3>2, <3>3
  <2>4. CASE p \notin Pending("d2h")
    <3>1. PICK j \in 1 .. Len(ops["d2h"]) : p = d + j /\ Op("d2h", p)' = ops["d2h"][j]
      BY <1>1, <1>2, <2>4, GivenPlaces, StreamNames
    <3>2. PICK g \in Outs \cap DOMAIN state : ops["d2h"][j] = OutOp(g)
      BY <1>2, <3>1
    <3>3. x = g /\ IsOut(ops["d2h"][j], g) /\ state'[g] = "key" /\ state[g] = "saved"
      BY <1>5, <1>13, <2>0, <3>1, <3>2 DEF IsOut
    <3>4. g \notin freed["saved"]
      BY <3>3 DEF Handler, Believed
    <3>5. g \in freed'["saved"]
      BY <1>5, <2>1, <3>3 DEF Leaving, Has
    <3>6. Due /\ g = count
      BY <1>11, <3>4, <3>5
    <3>7. current = 0 /\ g = 0
      BY <1>3, <1>10, <3>6
    <3> QED
      BY <1>2, <2>2, <3>1, <3>3, <3>6, <3>7
  <2> QED
    BY <2>3, <2>4
<1> QED
  BY <1>12, <1>16, <1>17, <1>18, <1>19, <1>20, <1>21, <1>22 DEF Handler

Last == count - 1
DueBack == Window(Last) = current - 1
Copied == DueBack /\ Has(Last, "key")
MetBack == IF DueBack THEN Meet(NoOps, "h2d") ELSE NoOps
InOps == IF Copied THEN Enqueue(MetBack, "h2d", InOp(Last)) ELSE MetBack
BackwardOps == IF current = 1 THEN WaitStream(InOps, "compute", "h2d") ELSE InOps

\* What on_group_commit_backward gives: at most one copy back, of the last group
\* that left, after a wait for the computation; and the computation waits for the
\* copies back of before when a window is due, for all of them at the last layer.
LEMMA BackwardGives ==
    ASSUME IInv, CommitBackward, NEW c, c = End("compute"), NEW h, h = End("h2d"),
           NEW ops, ops = BackwardOps
    PROVE  /\ c \in Nat /\ h \in Nat /\ Given(ops) /\ Len(ops["d2h"]) = 0
           /\ \A j \in 1 .. Len(ops["compute"]) : ops["compute"][j].op = "wait"
           /\ \A j \in 1 .. Len(ops["h2d"]) : ops["h2d"][j].op # "wait" =>
                /\ Copied /\ ops["h2d"][j] = InOp(Last)
                /\ \E i \in 1 .. j - 1 : Waits(ops["h2d"][i], "compute", c)
           /\ Copied => \E j \in 1 .. Len(ops["h2d"]) : ops["h2d"][j] = InOp(Last) /\ j = Len(ops["h2d"])
           /\ DueBack => \E j \in 1 .. Len(ops["compute"]) : Waits(ops["compute"][j], "h2d", h)
           /\ current = 1 => \E j \in 1 .. Len(ops["compute"]) :
                                Waits(ops["compute"][j], "h2d", h + Len(ops["h2d"]))
<1> USE DEF IInv
<1>1. NoOps \in OpsGiven /\ NoOps["compute"] = <<>> /\ NoOps["h2d"] = <<>> /\ NoOps["d2h"] = <<>>
      /\ c \in Nat /\ h \in Nat
  BY Nothing, PlaceTypes, StreamNames
<1>2. PICK w, v : w = WaitOp("compute", c) /\ v = WaitOp("h2d", h + 1)
  OBVIOUS
<1>3. /\ w.op = "wait" /\ w.on = "compute" /\ w.upto = c
      /\ v.op = "wait" /\ v.on = "h2d" /\ v.upto = h + 1
  BY <1>2 DEF WaitOp
<1>4. current \in Nat /\ count \in Nat /\ DOMAIN state \subseteq Layers /\ current > 0
  BY SizeFacts DEF CommitBackward, Typed
<1>5. Copied => /\ InOp(Last) \in AllOps /\ InOp(Last).op = "in"
  BY <1>4, OutIn DEF Copied, Has
<1>6. PICK met, ins : met = MetBack /\ ins = InOps
  OBVIOUS
<1>7. Submit(ops)
  BY <1>4 DEF CommitBackward, BackwardOps, InOps, MetBack, Copied, DueBack, Last, Has, InOp
<1>8. /\ met \in OpsGiven /\ met["d2h"] = <<>>
      /\ met["h2d"] = IF DueBack THEN <<w>> ELSE <<>>
      /\ met["compute"] = IF DueBack THEN <<v>> ELSE <<>>
  <2>1. CASE ~DueBack
    BY <1>1, <1>6, <2>1 DEF MetBack
  <2>2. CASE DueBack
    <3>1. met = Meet(NoOps, "h2d")
      BY <1>6, <2>2 DEF MetBack
    <3>2. "d2h" \in Streams \ {"compute", "h2d"} /\ "h2d" \in {"d2h", "h2d"}
      BY StreamNames
    <3>3. PICK e : e = End("h2d") + (Len(NoOps["h2d"]) + 1)
      OBVIOUS
    <3>4. /\ Meet(NoOps, "h2d") \in OpsGiven /\ Meet(NoOps, "h2d")["h2d"] = Append(NoOps["h2d"], WaitOp("compute", c))
          /\ Meet(NoOps, "h2d")["compute"] = <<WaitOp("h2d", e)>>
          /\ \A t \in Streams \ {"compute", "h2d"} : Meet(NoOps, "h2d")[t] = NoOps[t]
      BY <1>1, <3>2, <3>3, MeetOps
    <3>5. Len(NoOps["h2d"]) = 0
      BY <1>1
    <3>6. e = h + 1
      BY <1>1, <3>3, <3>5
    <3> QED
      BY <1>1, <1>2, <2>2, <3>1, <3>2, <3>4, <3>6, Appended
  <2> QED
    BY <2>1, <2>2
<1>9. /\ ins \in OpsGiven /\ ins["d2h"] = <<>>
      /\ ins["compute"] = IF DueBack THEN <<v>> ELSE <<>>
      /\ ins["h2d"] = IF Copied THEN <<w, InOp(Last)>> ELSE IF DueBack THEN <<w>> ELSE <<>>
  <2>1. CASE ~Copied
    BY <1>6, <1>8, <2>1 DEF InOps
  <2>2. CASE Copied
    <3>1. ins = Enqueue(met, "h2d", InOp(Last)) /\ DueBack
      BY <1>6, <2>2 DEF InOps, Copied
    <3>2. /\ ins \in OpsGiven /\ ins["h2d"] = Append(met["h2d"], InOp(Last))
          /\ \A t \in Streams \ {"h2d"} : ins[t] = met[t]
      BY <1>5, <1>8, <2>2, <3>1, Enqueued, StreamNames
    <3>3. ins["h2d"] = <<w, InOp(Last)>>
      BY <1>8, <3>1, <3>2, Appended
    <3> QED
      BY <1>8, <2>2, <3>1, <3>2, <3>3, StreamNames
  <2> QED
    BY <2>1, <2>2
<1>10. PICK q, n : q = ins["h2d"] /\ n = Len(q)
  OBVIOUS
<1>11. n \in Nat
  BY <1>9, <1>10
<1>12. PICK z : z = WaitOp("h2d", h + n)
  OBVIOUS
<1>13. z.op = "wait" /\ z.on = "h2d" /\ z.upto = h + n
  BY <1>12 DEF WaitOp
<1>14. /\ ops \in OpsGiven /\ ops["d2h"] = <<>> /\ ops["h2d"] = q
       /\ ops["compute"] = IF current = 1 THEN Append(ins["compute"], z) ELSE ins["compute"]
  <2>1. CASE current # 1
    BY <1>6, <1>9, <1>10, <2>1 DEF BackwardOps
  <2>2. CASE current = 1
    <3>1. ops = WaitStream(ins, "compute", "h2d")
      BY <1>6, <2>2 DEF BackwardOps
    <3>2. "compute" # "h2d" /\ "d2h" # "compute" /\ ins \in OpsGiven
      BY <1>9
    <3>3. z = WaitOp("h2d", End("h2d") + Len(ins["h2d"]))
      BY <1>10, <1>12
    <3>4. /\ ops \in OpsGiven /\ ops["compute"] = Append(ins["compute"], z)
          /\ \A t \in Streams \ {"compute"} : ops[t] = ins[t]
      BY <3>1, <3>2, <3>3, Waiting, StreamNames
    <3> QED
      BY <1>9, <1>10, <2>2, <3>2, <3>4, StreamNames
  <2> QED
    BY <2>1, <2>2
<1>15. ops["compute"] = IF DueBack THEN IF current = 1 THEN <<v, z>> ELSE <<v>>
                        ELSE IF current = 1 THEN <<z>> ELSE <<>>
  BY <1>9, <1>14, Appended
<1>16. ASSUME NEW j \in 1 .. n
       PROVE  q[j] = w \/ (j = 2 /\ q[1] = w /\ Copied /\ q[j] = InOp(Last))
  BY <1>9, <1>10, <1>16
<1>17. Copied => n = 2 /\ q[2] = InOp(Last)
  BY <1>9, <1>10
<1>18. Given(ops)
  <2>1. \A j \in 1 .. Len(ops["h2d"]) : ops["h2d"][j].op \in Kinds["h2d"] \cup {"wait"}
    BY <1>3, <1>5, <1>10, <1>14, <1>16 DEF Kinds
  <2>2. \A j \in 1 .. Len(ops["compute"]) : ops["compute"][j].op \in Kinds["compute"] \cup {"wait"}
    BY <1>3, <1>13, <1>15
  <2>3. \A j \in 1 .. Len(ops["d2h"]) : ops["d2h"][j].op \in Kinds["d2h"] \cup {"wait"}
    BY <1>14
  <2>4. UNCHANGED <<size, done, memory>>
    BY DEF CommitBackward
  <2> QED
    BY <1>7, <1>14, <2>1, <2>2, <2>3, <2>4 DEF Given, OpsGiven, Streams
<1>19. Len(ops["d2h"]) = 0 /\ \A j \in 1 .. Len(ops["compute"]) : ops["compute"][j].op = "wait"
  <2>1. Len(ops["d2h"]) = 0
    BY <1>14
  <2>2. PICK m : m = ops["compute"]
    OBVIOUS
  <2>3. m = <<v, z>> \/ m = <<v>> \/ m = <<z>> \/ m = <<>>
    BY <1>15, <2>2
  <2>4. ASSUME NEW j \in 1 .. Len(m) PROVE m[j] = v \/ m[j] = z
    BY <2>3, <2>4
  <2> QED
    BY <1>3, <1>13, <2>1, <2>2, <2>4
<1>20. ASSUME NEW j \in 1 .. n, q[j].op # "wait"
       PROVE  Copied /\ q[j] = InOp(Last) /\ \E i \in 1 .. j - 1 : Waits(q[i], "compute", c)
  <2>1. j = 2 /\ q[1] = w /\ Copied /\ q[j] = InOp(Last)
    BY <1>3, <1>16, <1>20
  <2>2. 1 \in 1 .. j - 1 /\ Waits(q[1], "compute", c)
    BY <1>1, <1>3, <2>1 DEF Waits
  <2> QED
    BY <2>1, <2>2
<1>21. DueBack => 1 \in 1 .. Len(ops["compute"]) /\ Waits(ops["compute"][1], "h2d", h)
  BY <1>1, <1>3, <1>15 DEF Waits
<1>22. ASSUME current = 1
       PROVE  \E j \in 1 .. Len(ops["compute"]) : Waits(ops["compute"][j], "h2d", h + n)
  <2>1. Waits(z, "h2d", h + n)
    BY <1>1, <1>11, <1>13 DEF Waits
  <2>2. CASE DueBack
    <3>1. 2 \in 1 .. Len(ops["compute"]) /\ ops["compute"][2] = z
      BY <1>15, <1>22, <2>2
    <3> QED
      BY <2>1, <3>1
  <2>3. CASE ~DueBack
    <3>1. 1 \in 1 .. Len(ops["compute"]) /\ ops["compute"][1] = z
      BY <1>15, <1>22, <2>3
    <3> QED
      BY <2>1, <3>1
  <2> QED
    BY <2>2, <2>3
<1>23. Copied => \E j \in 1 .. n : q[j] = InOp(Last) /\ j = n
  BY <1>17
<1> QED
  BY <1>1, <1>10, <1>14, <1>18, <1>19, <1>20, <1>21, <1>22, <1>23

\* A copy back reads what the copy out wrote, for the computation it waits for waits
\* for that copy (OutsWaited), and reuses blocks whose backward was given before.
LEMMA CommitBackwardPreserves ==
    ASSUME IInv, CommitBackward
    PROVE  IInv'
<1> USE DEF IInv
<1>1. PICK c, h, ops : c = End("compute") /\ h = End("h2d") /\ ops = BackwardOps
  OBVIOUS
<1>2. /\ c \in Nat /\ h \in Nat /\ Given(ops) /\ Len(ops["d2h"]) = 0
      /\ \A j \in 1 .. Len(ops["compute"]) : ops["compute"][j].op = "wait"
      /\ \A j \in 1 .. Len(ops["h2d"]) : ops["h2d"][j].op # "wait" =>
           /\ Copied /\ ops["h2d"][j] = InOp(Last)
           /\ \E i \in 1 .. j - 1 : Waits(ops["h2d"][i], "compute", c)
      /\ Copied => \E j \in 1 .. Len(ops["h2d"]) : ops["h2d"][j] = InOp(Last) /\ j = Len(ops["h2d"])
      /\ DueBack => \E j \in 1 .. Len(ops["compute"]) : Waits(ops["compute"][j], "h2d", h)
      /\ current = 1 => \E j \in 1 .. Len(ops["compute"]) :
                           Waits(ops["compute"][j], "h2d", h + Len(ops["h2d"]))
  BY <1>1, BackwardGives
<1>3. /\ phase = "uncommit" /\ current = layer + 1 /\ layer \in Nat /\ current \in Nat /\ ~Going
      /\ NumOffload \in Nat /\ NumLayers \in Nat /\ DOMAIN state = 0 .. layer /\ micro \in Nat
      /\ count \in Nat /\ count >= 1 /\ count <= NumOffload /\ DOMAIN state \subseteq Layers
      /\ Last \in Nat /\ Last < count /\ Last = count - 1 /\ Last \in 0 .. NumOffload - 1
      /\ \A g \in DOMAIN state : g \in Nat /\ state[g] \in {"saved", "key", "copied"}
  BY SizeFacts DEF Handler, Progress, CommitBackward, Typed, Layers, Going, Last
<1>4. /\ Layers' = Layers /\ NumLayers' = NumLayers /\ NumOffload' = NumOffload
      /\ \A i : Window(i)' = Window(i)
  BY <1>2, GivenTyped DEF Window
<1>5. /\ current' = current - 1 /\ current' = layer /\ phase' = "backward" /\ UNCHANGED <<size, micro, layer>>
      /\ state' = (IF Copied THEN [state EXCEPT ![Last] = "copied"] ELSE state)
      /\ freed' = (IF Copied THEN [freed EXCEPT !["copied"] = @ \ {Last}] ELSE freed)
      /\ count' = IF current' = 0 THEN 0 ELSE IF DueBack /\ count > 1 THEN count - 1 ELSE count
  <2>1. current' = current - 1 /\ phase' = "backward" /\ UNCHANGED <<size, micro, layer>>
    BY DEF CommitBackward
  <2>2. PICK g, due, copied : g = count - 1 /\ due = (Window(g) = current')
                              /\ copied = (due /\ g \in DOMAIN state /\ state[g] = "key")
    OBVIOUS
  <2>3. g = Last /\ (due <=> DueBack) /\ (copied <=> Copied)
    BY <2>1, <2>2 DEF Last, DueBack, Copied, Has
  <2>4. /\ state' = (IF copied THEN [state EXCEPT ![g] = "copied"] ELSE state)
        /\ freed' = (IF copied THEN [freed EXCEPT !["copied"] = @ \ {g}] ELSE freed)
        /\ count' = (IF current' = 0 THEN 0 ELSE IF due /\ count > 1 THEN count - 1 ELSE count)
    BY <2>2 DEF CommitBackward
  <2> QED
    BY <1>3, <2>1, <2>3, <2>4
<1>6. /\ DOMAIN state' = DOMAIN state
      /\ \A g \in DOMAIN state : state'[g] = IF Copied /\ g = Last THEN "copied" ELSE state[g]
      /\ Copied => Last \in DOMAIN state /\ state[Last] = "key"
  BY <1>5 DEF Copied, Has
<1>7. /\ \A i \in Nat : Window(i) \in Nat /\ i <= Window(i)
      /\ \A i \in Nat, j \in Nat : i < j => Window(i) < Window(j)
  BY WindowFacts
<1>8. \A i \in 0 .. NumOffload - 1 : Window(i) < current => i < count
  BY DEF Handler, Progress
<1>9. /\ freed \in [{"saved", "copied"} -> SUBSET Layers] /\ freed' \in [{"saved", "copied"} -> SUBSET Layers]
      /\ freed'["saved"] = freed["saved"]
      /\ \A x : x \in freed'["copied"] <=> x \in freed["copied"] /\ ~(Copied /\ x = Last)
  <2>1. freed \in [{"saved", "copied"} -> SUBSET Layers]
    BY DEF Typed
  <2> QED
    BY <1>5, <2>1
<1>10. Copied => /\ InOp(Last).op = "in" /\ InOp(Last).group = Last /\ InOp(Last).micro = micro
                 /\ InOp(Last).reuses = freed["copied"] \ {Last} /\ Last \in Layers
  BY <1>3, <1>6, OutIn
<1>11. Typed'
  <2>1. DOMAIN state' \subseteq Layers' /\ \A g \in DOMAIN state' : state'[g] \in {"saved", "key", "copied"}
    BY <1>3, <1>4, <1>6
  <2>2. layer \in Layers /\ current \in 0 .. NumLayers
    BY DEF Typed
  <2>3. count' \in 0 .. NumOffload' /\ current' \in 0 .. NumLayers' /\ layer' \in Layers' /\ micro' \in Nat
        /\ phase' \in {"forward", "commit", "uncommit", "backward", "end"}
    BY <1>3, <1>4, <1>5, <2>2
  <2> QED
    BY <1>2, <1>4, <1>9, <2>1, <2>3, GivenTyped DEF Typed, AllOps
\* The only memory that is written to is that of the copies back.
<1>12. ASSUME NEW mem \in Memories, NEW g, NEW j \in 1 .. Len(ops[Writer[mem]]), Writes(ops[Writer[mem]][j], mem, g)
       PROVE  /\ mem = "back" /\ Writer[mem] = "h2d" /\ Copied /\ ops["h2d"][j] = InOp(Last)
              /\ (g = Last \/ g \in freed["copied"])
              /\ \E i \in 1 .. j - 1 : Waits(ops["h2d"][i], "compute", c)
  <2>1. CASE mem = "device"
    BY <1>2, <1>12, <2>1 DEF Writer, Writes, Fills, Filler, Spoils
  <2>2. CASE mem = "host"
    BY <1>2, <1>12, <2>2 DEF Writer
  <2>3. CASE mem = "back"
    <3>1. Writer[mem] = "h2d" /\ ops["h2d"][j].op = "in"
          /\ (ops["h2d"][j].group = g \/ g \in ops["h2d"][j].reuses)
      BY <1>12, <2>3 DEF Writer, Writes, Fills, Filler, Spoils
    <3> QED
      BY <1>2, <1>10, <1>12, <2>3, <3>1
  <2> QED
    BY <2>1, <2>2, <2>3 DEF Memories
\* What follows such a wait follows all that the computation was given before.
<1>13. ASSUME NEW s \in Streams, NEW p \in Int, Before(s, p, "compute", c + 1),
              NEW j \in 1 .. Len(ops["h2d"]), NEW i \in 1 .. j - 1, Waits(ops["h2d"][i], "compute", c)
       PROVE  Chain(s, p, "h2d", h + j)'
  <2>1. /\ h + i \in Pending("h2d")' /\ Op("h2d", h + i)' = ops["h2d"][i] /\ h + i < h + j
        /\ Len(ops["h2d"]) \in Nat
    <3>1. Len(ops["h2d"]) \in Nat
      BY <1>1, <1>2, GivenPlaces, StreamNames
    <3>2. i \in 1 .. Len(ops["h2d"])
      BY <1>13, <3>1
    <3> QED
      BY <1>1, <1>2, <1>13, <3>1, <3>2, GivenPlaces, StreamNames
  <2>2. Before("compute", c, "h2d", h + j)'
    BY <1>13, <2>1 DEF Before, Waits
  <2>3. Before(s, p, "compute", c + 1)'
    BY <1>2, <1>13, GivenBefore, StreamNames
  <2>4. c \in 0 .. End("compute")'
    BY <1>1, <1>2, GivenPlaces, StreamNames
  <2> QED
    BY <2>2, <2>3, <2>4, StreamNames DEF Chain
<1>14. OpsSupplied'
  <2>1. ASSUME NEW t \in Streams, NEW r \in Pending(t), NEW mem \in Memories, NEW g \in Layers, NEW m \in Nat,
               Wants(Op(t, r), mem, g, m), NEW e, e = End(Writer[mem]),
               NEW j \in 1 .. Len(ops[Writer[mem]]), Writes(ops[Writer[mem]][j], mem, g)
        PROVE  Chain(t, r, Writer[mem], e + j)'
    <3>1. mem = "back" /\ Writer[mem] = "h2d" /\ \E i \in 1 .. j - 1 : Waits(ops["h2d"][i], "compute", c)
      BY <1>12, <2>1
    <3>2. t = "compute" /\ r \in Nat /\ r < c + 1
      <4>1. Op(t, r).op = "backward"
        BY <2>1, <3>1 DEF Wants, Source, Reads
      <4>2. Op(t, r).op \in Kinds[t] \cup {"wait"}
        BY <2>1, PlaceTypes
      <4>3. t = "compute"
        BY <4>1, <4>2 DEF Kinds, Streams
      <4>4. End(t) \in Nat /\ done[t] \in Nat /\ r \in Nat
        BY <2>1, PlaceTypes
      <4> QED
        BY <1>1, <2>1, <4>3, <4>4 DEF Pending
    <3>3. Before("compute", r, "compute", c + 1)
      BY <3>2 DEF Before
    <3> QED
      BY <1>1, <1>13, <2>1, <3>1, <3>2, <3>3, StreamNames
  <2>2. ASSUME NEW t \in Streams, NEW e, e = End(t), NEW j \in 1 .. Len(ops[t]),
               NEW mem \in Memories, NEW g \in Layers, NEW m \in Nat, Wants(ops[t][j], mem, g, m)
        PROVE  Supplied(t, e + j, mem, g, m)'
    <3>1. t = "h2d" /\ ops[t][j].op # "wait"
      BY <1>2, <2>2 DEF Wants, Reads, Streams
    <3>2. Copied /\ ops["h2d"][j] = InOp(Last) /\ \E i \in 1 .. j - 1 : Waits(ops["h2d"][i], "compute", c)
      BY <1>2, <2>2, <3>1
    <3>3. g = Last /\ m = micro /\ mem = "host"
      BY <1>10, <2>2, <3>1, <3>2 DEF Wants, Source
    <3>4. Ready("host", g, m)
      BY <1>6, <3>2, <3>3 DEF Handler, Believed
    <3>5. \A i \in 1 .. Len(ops[Writer["host"]]) : ~Writes(ops[Writer["host"]][i], "host", g)
      BY <1>12 DEF Memories
    <3>6. h + j \in Pending("h2d")'
      BY <1>1, <1>2, <2>2, <3>1, GivenPlaces, StreamNames
    <3>7. ASSUME NEW p \in Pending("d2h"), Fills(Op("d2h", p), "host", g) PROVE Chain("d2h", p, "h2d", h + j)'
      <4>1. p \in Nat
        BY <3>7, PlaceTypes, StreamNames
      <4>2. ~Leaving(Op("d2h", p).group) /\ Op("d2h", p).op = "out"
        BY <1>3, <1>6, <3>2, <3>3, <3>7 DEF Handler, Left, Leaving, Has, Fills, Filler
      <4>3. Before("d2h", p, "compute", c + 1)
        BY <1>1, <3>7, <4>2 DEF Handler, OutsWaited
      <4> QED
        BY <1>13, <2>2, <3>1, <3>2, <4>1, <4>3, StreamNames
    <3>8. Supplied("h2d", h + j, "host", g, m)'
      BY <1>2, <3>4, <3>5, <3>6, <3>7, GivenReader, StreamNames DEF Memories, Writer
    <3> QED
      BY <1>1, <2>2, <3>1, <3>3, <3>8
  <2> QED
    BY <1>2, <2>1, <2>2, GivenOps
<1>15. Progress'
  <2>1. ASSUME NEW i \in 0 .. NumOffload - 1, Window(i) < current - 1 PROVE i < count'
    <3>1. i < count /\ Window(i) \in Nat /\ i \in Nat
      BY <1>3, <1>7, <1>8, <2>1
    <3>2. current' # 0
      BY <1>3, <1>5, <2>1, <3>1
    <3>3. DueBack => i # Last
      BY <1>3, <1>7, <2>1, <3>1 DEF DueBack
    <3> QED
      BY <1>3, <1>5, <3>1, <3>2, <3>3
  <2>2. ~Going'
    BY <1>5 DEF Going
  <2> QED
    BY <1>3, <1>4, <1>5, <1>6, <2>1, <2>2 DEF Progress
<1>16. \A x : Leaving(x)' => Leaving(x)
  BY <1>6, <1>9 DEF Leaving, Has
<1>17. ASSUME NEW x, Leaving(x) PROVE Leaving(x)'
  <2>1. x # Last
    BY <1>3, <1>17 DEF Handler, Left, Leaving, Has
  <2> QED
    BY <1>6, <1>9, <1>17, <2>1 DEF Leaving, Has
<1>18. Left' /\ InTime' /\ Called'
  <2>1. Left'
    <3> SUFFICES ASSUME NEW g \in DOMAIN state, state'[g] = "key", g < count' PROVE g \in freed'["saved"]
      BY <1>6 DEF Left
    <3>1. state[g] = "key" /\ g < count
      BY <1>3, <1>5, <1>6
    <3> QED
      BY <1>9, <3>1 DEF Handler, Left
  <2>2. InTime'
    BY <1>4, <1>6 DEF Handler, InTime
  <2>3. Called'
    <3> SUFFICES ASSUME NEW g \in DOMAIN state, state'[g] = "copied", g > 0 PROVE count' <= g
      BY <1>6 DEF Called
    <3>1. CASE Copied /\ g = Last
      BY <1>3, <1>5, <3>1 DEF Copied
    <3>2. CASE ~(Copied /\ g = Last)
      BY <1>3, <1>5, <1>6, <3>2 DEF Handler, Called
    <3> QED
      BY <3>1, <3>2
  <2> QED
    BY <2>1, <2>2, <2>3
<1>19. OutsWaited'
  <2> SUFFICES ASSUME NEW p \in Pending("d2h")', Op("d2h", p)'.op = "out", ~Leaving(Op("d2h", p).group)'
               PROVE  Before("d2h", p, "compute", End("compute") + 1)'
    BY DEF OutsWaited
  <2>1. p \in Pending("d2h") /\ p \in Nat /\ Op("d2h", p)' = Op("d2h", p)
    BY <1>2, GivenNone, StreamNames
  <2>2. PICK x : x = Op("d2h", p).group
    OBVIOUS
  <2>3. ~Leaving(x)'
    BY <2>1, <2>2 DEF Leaving, Has
  <2>4. Before("d2h", p, "compute", End("compute") + 1)
    BY <1>17, <2>1, <2>2, <2>3 DEF Handler, OutsWaited
  <2> QED
    BY <1>2, <2>1, <2>4, GivenAhead, StreamNames
<1>20. Believed'
  <2> SUFFICES ASSUME NEW g \in DOMAIN state, NEW m \in {micro}
               PROVE  /\ state'[g] = "saved" => Ready("device", g, m)' /\ g \notin freed'["saved"]
                      /\ state'[g] = "key" => Ready("host", g, m)'
                      /\ state'[g] = "copied" => Ready("back", g, m)' /\ g \notin freed'["copied"]
    BY <1>5, <1>6 DEF Believed
  <2>1. CASE Copied /\ g = Last
    <3>1. PICK j \in 1 .. Len(ops["h2d"]) : ops["h2d"][j] = InOp(Last) /\ j = Len(ops["h2d"])
      BY <1>2, <2>1
    <3>2. Fills(ops["h2d"][j], "back", g) /\ ops["h2d"][j].micro = m
      BY <1>10, <2>1, <3>1 DEF Fills, Filler
    <3>3. Len(ops["h2d"]) \in Nat
      BY <1>1, <1>2, GivenPlaces, StreamNames
    <3>4. \A i \in j + 1 .. Len(ops["h2d"]) : ~Writes(ops["h2d"][i], "back", g)
      BY <3>1, <3>3
    <3>5. Writer["back"] = "h2d" /\ "back" \in Memories
      BY DEF Writer, Memories
    <3>6. Ready("back", g, m)'
      BY <1>2, <3>1, <3>2, <3>4, <3>5, GivenFilled
    <3> QED
      BY <1>6, <1>9, <2>1, <3>6
  <2>2. CASE ~(Copied /\ g = Last)
    <3>1. state'[g] = state[g]
      BY <1>6, <2>2
    <3>2. ASSUME NEW mem \in Memories, Ready(mem, g, m), mem = "back" => g \notin freed["copied"]
          PROVE  Ready(mem, g, m)'
      <4>1. \A j \in 1 .. Len(ops[Writer[mem]]) : ~Writes(ops[Writer[mem]][j], mem, g)
        BY <1>12, <2>2, <3>2
      <4> QED
        BY <1>2, <3>2, <4>1, GivenReady
    <3> QED
      BY <1>9, <2>2, <3>1, <3>2 DEF Handler, Believed, Memories
  <2> QED
    BY <2>1, <2>2
\* The computation waits for all copies back before the last backward, and for
\* the one a layer needs when the window of the layer before it comes.
<1>21. InsWaited'
  <2>1. PICK e : e = End("compute")'
    OBVIOUS
  <2>2. ASSUME NEW p \in Nat, NEW j \in 1 .. Len(ops["compute"]), Waits(ops["compute"][j], "h2d", p)
        PROVE  Before("h2d", p, "compute", End("compute") + 1)'
    <3>1. /\ c + j \in Pending("compute")' /\ Op("compute", c + j)' = ops["compute"][j]
          /\ e = c + Len(ops["compute"]) /\ Len(ops["compute"]) \in Nat
      BY <1>1, <1>2, <2>1, <2>2, GivenPlaces, StreamNames
    <3>2. c + j < e + 1
      BY <1>2, <2>2, <3>1
    <3>3. Before("h2d", p, "compute", e + 1)'
      BY <2>2, <3>1, <3>2 DEF Before, Waits
    <3> QED
      BY <2>1, <3>3 DEF Before
  <2>3. PICK n : n = Len(ops["h2d"])
    OBVIOUS
  <2>4. n \in Nat /\ End("h2d")' = h + n
    BY <1>1, <1>2, <2>3, GivenPlaces, StreamNames
  <2>a. \A j \in 1 .. Len(ops["compute"]) : ops["compute"][j].op = "wait" => ops["compute"][j].upto \in Nat
    <3>1. ops["compute"] \in Seq(AllOps)
      BY <1>2, StreamNames DEF Given
    <3>2. \A j \in 1 .. Len(ops["compute"]) : ops["compute"][j] \in AllOps
      BY <3>1, ElementOfSeq
    <3> QED
      BY <3>2 DEF AllOps, WaitOps, WorkOps
  <2>5. ASSUME NEW p \in Nat, (current = 1 /\ p <= h + n) \/ (DueBack /\ p <= h)
        PROVE  Before("h2d", p, "compute", End("compute") + 1)'
    <3>1. PICK u \in Nat, j \in 1 .. Len(ops["compute"]) : Waits(ops["compute"][j], "h2d", u) /\ p <= u
      BY <1>2, <2>3, <2>4, <2>5
    <3>2. Waits(ops["compute"][j], "h2d", p)
      BY <2>a, <2>5, <3>1 DEF Waits
    <3> QED
      BY <2>2, <2>5, <3>2
  <2>8. ASSUME (Going \/ current = 0)'
        PROVE  Before("h2d", End("h2d"), "compute", End("compute") + 1)'
    <3>1. current = 1
      BY <1>3, <1>5, <2>8 DEF Going
    <3>2. PICK u \in Nat : u = h + n
      BY <1>2, <2>4
    <3>3. Before("h2d", u, "compute", End("compute") + 1)'
      BY <2>4, <2>5, <3>1, <3>2
    <3> QED
      BY <2>4, <3>2, <3>3 DEF Before
  <2>9. ASSUME NEW p \in Pending("h2d")', NEW x, x = Op("h2d", p)'.group, Op("h2d", p)'.op = "in",
               Has(x, "copied")', ~Coming(x)'
        PROVE  Before("h2d", p, "compute", End("compute") + 1)'
    <3>1. p \in Nat /\ p <= h + n
      <4>1. Typed'
        BY <1>11
      <4>2. done'["h2d"] \in Nat
        BY <4>1, StreamNames DEF Typed
      <4> QED
        BY <2>4, <2>9, <4>2, <1>2 DEF Pending
    <3>2. CASE current = 1
      BY <2>5, <3>1, <3>2
    <3>3. CASE current # 1
      <4>1. x \in DOMAIN state /\ x \in Nat /\ x # 0 /\ ~(current - 1 > Window(x - 1))
        BY <1>3, <1>4, <1>5, <1>6, <2>9, <3>3 DEF Has, Coming
      <4>2. x - 1 \in Nat /\ x - 1 < x /\ Window(x - 1) \in Nat /\ Window(x - 1) < Window(x)
        BY <1>7, <4>1
      <4>3. ~(Copied /\ x = Last)
        BY <4>1, <4>2 DEF Copied, DueBack
      <4>4. Has(x, "copied") /\ state[x] = "copied"
        BY <1>6, <2>9, <4>1, <4>3 DEF Has
      <4>5. p \in Pending("h2d") /\ Op("h2d", p)' = Op("h2d", p) /\ p <= h
        <5>1. CASE p \in Pending("h2d")
          BY <1>1, <1>2, <5>1, GivenPlaces, StreamNames
        <5>2. CASE p \notin Pending("h2d")
          <6>0. PICK j \in 1 .. Len(ops["h2d"]) : p = h + j
            BY <1>1, <1>2, <2>9, <5>2, GivenPlaces, StreamNames
          <6>1. Op("h2d", h + j)' = ops["h2d"][j] /\ Op("h2d", p)' = Op("h2d", h + j)'
            BY <1>1, <1>2, <6>0, GivenPlaces, StreamNames
          <6>2. Copied /\ ops["h2d"][j] = InOp(Last)
            BY <1>2, <2>9, <6>0, <6>1
          <6> QED
            BY <1>10, <2>9, <4>3, <6>0, <6>1, <6>2
        <5> QED
          BY <5>1, <5>2
      <4>6. CASE ~Coming(x)
        <5>1. Before("h2d", p, "compute", End("compute") + 1)
          BY <2>9, <4>4, <4>5, <4>6 DEF Handler, InsWaited
        <5> QED
          BY <1>2, <3>1, <5>1, GivenAhead, StreamNames
      <4>7. CASE Coming(x)
        <5>1. Window(x - 1) = current - 1
          BY <1>3, <4>1, <4>2, <4>7 DEF Coming
        <5>2. count <= x
          BY <4>1, <4>4 DEF Handler, Called
        <5>3. x - 1 \in 0 .. NumOffload - 1
          BY <1>3, <4>1, <4>4 DEF Handler, InTime
        <5>4. x - 1 = Last
          BY <1>3, <1>8, <4>1, <4>2, <5>1, <5>2, <5>3
        <5>5. DueBack
          BY <5>1, <5>4 DEF DueBack
        <5> QED
          BY <2>5, <3>1, <4>5, <5>5
      <4> QED
        BY <4>6, <4>7
    <3> QED
      BY <3>2, <3>3
  <2> QED
    BY <2>8, <2>9 DEF InsWaited
<1> QED
  BY <1>11, <1>14, <1>15, <1>18, <1>19, <1>20, <1>21 DEF Handler

-----------------------------------------------------------------------------
(* The steps together. *)

\* At first no stream was given anything.
LEMMA InitIInv == Init => IInv
<1> SUFFICES ASSUME Init PROVE IInv
  OBVIOUS
<1>1. /\ \A s \in Streams : queue[s] = <<>> /\ done[s] = 0
      /\ current = 0 /\ count = 0 /\ phase = "forward" /\ layer = 0 /\ DOMAIN state = {}
  BY DEF Init, NoOps
<1>2. \A s \in Streams : Len(queue[s]) = 0
  BY <1>1
<1>3. Typed
  <2>1. size \in Sizes /\ NumLayers \in Nat \ {0} /\ NumOffload \in Nat \ {0}
    BY SizesAssumption DEF Init, NumLayers, NumOffload
  <2>2. queue \in [Streams -> Seq(WaitOps \cup WorkOps({"forward", "backward", "out", "in"}))]
    BY DEF Init, NoOps
  <2>3. freed \in [{"saved", "copied"} -> SUBSET Layers]
    <3>1. freed = [saved |-> {}, copied |-> {}]
      BY DEF Init
    <3> QED
      BY <3>1
  <2>4. \A s \in Streams : \A i \in 1 .. Len(queue[s]) : queue[s][i].op \in Kinds[s] \cup {"wait"}
    BY <1>2
  <2> QED
    BY <1>1, <2>1, <2>2, <2>3, <2>4 DEF Typed, Init, Junk, Layers
<1>4. \A s \in Streams : Pending(s) = {} /\ End(s) = 0
  BY <1>1, <1>2 DEF Pending, End
<1>5. OpsSupplied
  BY <1>4 DEF OpsSupplied
<1>6. Progress
  BY <1>1, <1>3, SizeFacts, WindowFacts DEF Progress
<1>7. Left /\ InTime /\ Called /\ Believed
  BY <1>1 DEF Left, InTime, Called, Believed
<1>8. OutsWaited
  BY <1>4, StreamNames DEF OutsWaited
<1>9. InsWaited
  BY <1>1, <1>4, StreamNames DEF InsWaited, Before
<1> QED
  BY <1>3, <1>5, <1>6, <1>7, <1>8, <1>9 DEF IInv, Handler

\* IInv is about the variables only.
LEMMA Idle == IInv /\ UNCHANGED vars => IInv'
<1> SUFFICES ASSUME IInv, UNCHANGED vars PROVE IInv'
  OBVIOUS
<1>1. UNCHANGED <<size, micro, phase, layer, current, count, state, freed, queue, done, device, back, host>>
  BY DEF vars, hostVars, handler, memory
<1>2. Typed'
  BY <1>1 DEF IInv, Typed, Layers, NumLayers, NumOffload, WorkOps, WaitOps
<1>3. OpsSupplied'
  <2>1. /\ Streams' = Streams /\ Layers' = Layers /\ \A s \in Streams : Pending(s)' = Pending(s) /\ End(s)' = End(s)
        /\ \A s, p : Op(s, p)' = Op(s, p)
    BY <1>1 DEF Pending, End, Op, Layers, NumLayers
  <2>2. \A s, p, t, r : Before(s, p, t, r)' <=> Before(s, p, t, r)
    BY <1>1 DEF Before, Pending, End, Op, Waits
  <2>3. \A s, p, t, r : Chain(s, p, t, r)' <=> Chain(s, p, t, r)
    BY <2>1, <2>2 DEF Chain
  <2>4. \A mem, g, m, p : Brought(mem, g, m, p)' <=> Brought(mem, g, m, p)
    BY <1>1, <2>1 DEF Brought, Value
  <2>5. ASSUME NEW t \in Streams, NEW r, NEW mem \in Memories, NEW g, NEW m, Supplied(t, r, mem, g, m)
        PROVE  Supplied(t, r, mem, g, m)'
    <3>1. PICK s \in Streams : s = Writer[mem]
      BY DEF Memories, Writer, Streams
    <3>2. PICK p \in done[s] .. End(s) :
            /\ Brought(mem, g, m, p) /\ Chain(s, p, t, r)
            /\ \A k \in p + 1 .. End(s) : Writes(Op(s, k), mem, g) => Chain(t, r, s, k)
      BY <2>5, <3>1 DEF Supplied
    <3>3. p \in done'[s] .. End(s)' /\ Brought(mem, g, m, p)' /\ Chain(s, p, t, r)'
          /\ \A k \in p + 1 .. End(s)' : Writes(Op(s, k), mem, g)' => Chain(t, r, s, k)'
      BY <1>1, <2>1, <2>3, <2>4, <3>1, <3>2 DEF Writes, Fills, Spoils
    <3> QED
      BY <3>1, <3>3 DEF Supplied
  <2> QED
    BY <2>1, <2>5 DEF IInv, OpsSupplied, Wants, Reads, Source
<1>4. Progress' /\ Left' /\ InTime' /\ Called'
  BY <1>1 DEF IInv, Handler, Progress, Left, InTime, Called, Window, Going, NumLayers, NumOffload
<1>5. OutsWaited' /\ InsWaited'
  BY <1>1 DEF IInv, Handler, OutsWaited, InsWaited, Before, Waits, Op, Pending, End, Leaving, Has, Coming,
     Window, Going, NumLayers, NumOffload
<1>6. Believed'
  BY <1>1 DEF IInv, Handler, Believed, Ready, Brought, Value, Writes, Fills, Spoils, End, Op
<1> QED
  BY <1>2, <1>3, <1>4, <1>5, <1>6 DEF IInv, Handler

\* Every step of the host and of a stream.
LEMMA NextIInv == IInv /\ [Next]_vars => IInv'
<1> SUFFICES ASSUME IInv, [Next]_vars PROVE IInv'
  OBVIOUS
<1>1. CASE Forward
  BY <1>1, ForwardPreserves
<1>2. CASE CommitForward
  BY <1>2, CommitForwardPreserves
<1>3. CASE CommitBackward
  BY <1>3, CommitBackwardPreserves
<1>4. CASE Backward
  BY <1>4, BackwardPreserves
<1>5. ASSUME NEW s \in Streams, Run(s) PROVE IInv'
  BY <1>5, RunTyped, RunOpsSupplied, RunHandler DEF IInv
<1>6. CASE UNCHANGED vars
  BY <1>6, Idle
<1> QED
  BY <1>1, <1>2, <1>3, <1>4, <1>5, <1>6 DEF Next, Host

\* What the backward pass of a layer reads, on the device, is what the layer
\* saved in this micro-batch, for models of any number of layers, any number of
\* them offloaded, and whatever the order in which the three streams advance.
THEOREM ReadsOwnAlways == Spec => []BackwardReadsOwn
<1>1. Spec => []IInv
  BY InitIInv, NextIInv, PTL DEF Spec
<1>2. IInv => BackwardReadsOwn
  BY ReadsOwn DEF IInv
<1> QED
  BY <1>1, <1>2, PTL

-----------------------------------------------------------------------------
(* How many groups keep their tensors on the device. *)

\* When all layers but one are offloaded, group i leaves at the commit of layer i + 1.
LEMMA WindowOfNext ==
    ASSUME Typed, NumOffload = NumLayers - 1, NEW i \in 0 .. NumOffload - 1
    PROVE  Window(i) = i + 1
<1>1. PICK n \in Nat \ {0} : n = NumOffload /\ NumLayers = n + 1
  BY SizeFacts
<1>2. PICK q, rest : q = NumLayers \div NumOffload /\ rest = NumLayers % NumOffload
  OBVIOUS
<1>3. Window(i) = q * (i + 1) - 1 + (IF i < rest THEN i + 1 ELSE rest)
  BY <1>2 DEF Window
<1>4. CASE n = 1
  <2>1. q = 2 /\ rest = 0 /\ i = 0
    BY <1>1, <1>2, <1>4
  <2> QED
    BY <1>3, <2>1
<1>5. CASE n > 1
  <2>1. q = 1 /\ rest = 1
    BY <1>1, <1>2, <1>5
  <2> QED
    BY <1>3, <2>1
<1> QED
  BY <1>1, <1>4, <1>5

\* With one layer less than the model offloaded: the layer that is being
\* computed, and its neighbour that is on its way out or back.
Kept == {g \in DOMAIN state : state[g] # "key"}
Neighbours ==
    /\ buf \subseteq Layers
    /\ NumOffload = NumLayers - 1 =>
        /\ phase = "forward" => Kept = {} /\ buf \subseteq {current - 1}
        /\ phase = "commit" => Kept \subseteq {current} /\ buf \subseteq {current - 1, current}
        /\ phase = "uncommit" => Resident \subseteq {layer}
        /\ phase = "backward" => Resident \subseteq {layer - 1, layer}
        /\ phase = "end" => Resident = {}

\* Two neighbours are two.
LEMMA TwoAtMost == IInv /\ Neighbours => TwoGroupsResident
<1> SUFFICES ASSUME IInv, Neighbours, NumOffload = NumLayers - 1 PROVE Cardinality(Resident) <= 2
  BY DEF TwoGroupsResident
<1>1. \E a, b : Resident \subseteq {a, b}
  <2>1. phase \in {"forward", "commit", "uncommit", "backward", "end"} /\ Resident = buf \cup Kept
    BY DEF IInv, Typed, Resident, Kept
  <2>2. CASE phase \in {"forward", "commit"}
    <3>1. Resident \subseteq {current - 1, current}
      BY <2>1, <2>2 DEF Neighbours
    <3> QED
      BY <3>1
  <2>3. CASE phase \in {"uncommit", "backward", "end"}
    <3>1. Resident \subseteq {layer - 1, layer}
      BY <2>3 DEF Neighbours
    <3> QED
      BY <3>1
  <2> QED
    BY <2>1, <2>2, <2>3
<1>2. PICK a, b : Resident \subseteq {a, b}
  BY <1>1
<1>3. IsFiniteSet({a}) /\ Cardinality({a}) = 1
  BY FS_Singleton
<1>4. /\ IsFiniteSet({a} \cup {b})
      /\ Cardinality({a} \cup {b}) = IF b \in {a} THEN Cardinality({a}) ELSE Cardinality({a}) + 1
  BY <1>3, FS_AddElement
<1>5. {a, b} = {a} \cup {b}
  OBVIOUS
<1>6. Cardinality(Resident) <= Cardinality({a, b}) /\ Cardinality(Resident) \in Nat
  BY <1>2, <1>4, <1>5, FS_Subset, FS_CardinalityType
<1> QED
  BY <1>3, <1>4, <1>5, <1>6

\* The commit of a layer sends away the one before it.
LEMMA CommitForwardNeighbours ==
    ASSUME IInv, Neighbours, CommitForward
    PROVE  Neighbours'
<1>1. /\ phase = "commit" /\ layer = current /\ current \in Nat /\ current < NumLayers /\ Going
      /\ NumOffload \in Nat /\ NumOffload >= 1 /\ NumLayers \in Nat /\ DOMAIN state = 0 .. current
      /\ count \in Nat /\ count < NumOffload
  BY SizeFacts DEF IInv, Handler, Progress, CommitForward, Typed, Layers, Going
<1>2. /\ buf' = (IF Due THEN buf \ {count} ELSE buf)
      /\ state' = [g \in DOMAIN state |-> IF g \in Outs THEN "key" ELSE state[g]]
      /\ current' = current + 1 /\ size' = size
      /\ phase' = (IF layer = NumLayers - 1 THEN "uncommit" ELSE "forward")
      /\ layer' = (IF layer = NumLayers - 1 THEN layer ELSE layer + 1)
  BY DEF CommitForward, Due, Outs
<1>3. buf' \subseteq Layers' /\ Layers' = Layers /\ NumOffload' = NumOffload /\ NumLayers' = NumLayers
  BY <1>2 DEF Neighbours, Layers, NumLayers, NumOffload
<1> SUFFICES ASSUME NumOffload = NumLayers - 1
             PROVE  /\ phase' = "forward" => Kept' = {} /\ buf' \subseteq {current' - 1}
                    /\ phase' = "uncommit" => Resident' \subseteq {layer'}
  BY <1>1, <1>2, <1>3 DEF Neighbours
<1>4. \A i \in 0 .. NumOffload - 1 : Window(i) = i + 1
  BY WindowOfNext DEF IInv
<1>5. count = IF current = 0 THEN 0 ELSE current - 1
  <2>1. \A i \in 0 .. NumOffload - 1 : i + 1 < current => i < count
    BY <1>4 DEF IInv, Handler, Progress
  <2>2. \A i \in 0 .. count - 1 : i + 1 < current
    BY <1>1, <1>4 DEF IInv, Handler, Progress
  <2>3. count > 0 => count < current
    <3>1. PICK i : i = count - 1
      OBVIOUS
    <3>2. count > 0 => i \in 0 .. count - 1 /\ i + 1 = count
      BY <1>1, <3>1
    <3> QED
      BY <2>2, <3>2
  <2>4. current > 1 => current - 2 < count
    BY <1>1, <2>1
  <2> QED
    BY <1>1, <2>3, <2>4
<1>6. Due <=> current # 0
  BY <1>1, <1>4, <1>5 DEF Due
<1>7. current < NumOffload => current \in Outs
  BY <1>1, <1>5, <1>6 DEF Outs
<1>8. /\ Kept \subseteq {current} /\ buf \subseteq {current - 1, current} /\ buf \subseteq Nat
  BY <1>1, SizeFacts DEF Neighbours, IInv
<1>9. Kept' \subseteq Kept /\ (current < NumOffload => current \notin Kept')
  BY <1>2, <1>7 DEF Kept
<1>10. buf' \subseteq {current}
  BY <1>1, <1>2, <1>5, <1>6, <1>8
<1>11. Resident' = buf' \cup Kept'
  BY DEF Resident, Kept
<1> QED
  BY <1>1, <1>2, <1>8, <1>9, <1>10, <1>11

\* The commit before a backward calls back the layer before.
LEMMA CommitBackwardNeighbours ==
    ASSUME IInv, Neighbours, CommitBackward
    PROVE  Neighbours'
<1>1. /\ phase = "uncommit" /\ layer = current - 1 /\ current \in Nat /\ layer \in Nat
      /\ count \in Nat /\ count >= 1 /\ count <= NumOffload /\ NumOffload \in Nat
  BY SizeFacts DEF IInv, Handler, Progress, CommitBackward, Typed, Layers
<1>2. PICK g, copied : /\ g = count - 1
                       /\ copied = (Window(g) = current' /\ g \in DOMAIN state /\ state[g] = "key")
  OBVIOUS
<1>3. /\ state' = (IF copied THEN [state EXCEPT ![g] = "copied"] ELSE state)
      /\ current' = layer /\ UNCHANGED <<size, layer, buf>> /\ phase' = "backward"
  BY <1>1, <1>2 DEF CommitBackward
<1>4. buf' \subseteq Layers' /\ Layers' = Layers /\ NumOffload' = NumOffload /\ NumLayers' = NumLayers
  BY <1>3 DEF Neighbours, Layers, NumLayers, NumOffload
<1> SUFFICES ASSUME NumOffload = NumLayers - 1 PROVE Resident' \subseteq {layer - 1, layer}
  BY <1>3, <1>4 DEF Neighbours
<1>5. Resident \subseteq {layer}
  BY <1>1 DEF Neighbours
<1>6. Resident' \subseteq Resident \cup (IF copied THEN {g} ELSE {})
  BY <1>3 DEF Resident
<1>7. copied => g = layer - 1
  <2>1. Window(g) = g + 1
    BY <1>1, <1>2, WindowOfNext DEF IInv
  <2>2. copied => Window(g) = layer
    BY <1>2, <1>3
  <2>3. g \in Nat
    BY <1>1, <1>2
  <2> QED
    BY <1>1, <2>1, <2>2, <2>3
<1> QED
  BY <1>5, <1>6, <1>7

\* The forward of a layer adds that layer.
LEMMA ForwardNeighbours ==
    ASSUME IInv, Neighbours, Forward
    PROVE  Neighbours'
<1>1. /\ phase = "forward" /\ current \in Layers
  BY DEF IInv, Handler, Progress, Forward, Typed
<1>2. /\ phase' = "commit" /\ UNCHANGED <<size, layer, current>>
      /\ state' = With(state, current, "saved")
      /\ buf' \subseteq buf \cup {current}
  BY DEF Forward
<1>3. Layers' = Layers /\ NumOffload' = NumOffload /\ NumLayers' = NumLayers /\ Kept' \subseteq Kept \cup {current}
  BY <1>2 DEF Layers, NumLayers, NumOffload, Kept, With
<1> QED
  BY <1>1, <1>2, <1>3 DEF Neighbours

\* Its backward lets it go.
LEMMA BackwardNeighbours ==
    ASSUME IInv, Neighbours, Backward
    PROVE  Neighbours'
<1>1. /\ phase = "backward" /\ layer \in Nat /\ DOMAIN state = 0 .. layer
  BY SizeFacts DEF IInv, Handler, Progress, Backward, Typed
<1>2. /\ buf' = buf \ {layer} /\ state' = Without(state, layer) /\ UNCHANGED <<size, current>>
      /\ layer' = (IF layer = 0 THEN 0 ELSE layer - 1)
      /\ phase' \in {"uncommit", "forward", "end"} /\ (phase' = "uncommit" <=> layer > 0)
  BY <1>1 DEF Backward
<1>3. Layers' = Layers /\ NumOffload' = NumOffload /\ NumLayers' = NumLayers
      /\ Resident' \subseteq Resident \ {layer} /\ Resident' = Kept' \cup buf'
  BY <1>2 DEF Layers, NumLayers, NumOffload, Resident, Kept, Without
<1>4. Resident' \subseteq Nat
  <2>1. Kept' \subseteq Nat /\ buf' \subseteq Nat
    BY <1>1, <1>2, SizeFacts DEF Neighbours, Kept, Without, IInv
  <2> QED
    BY <1>3, <2>1
<1> QED
  BY <1>1, <1>2, <1>3, <1>4 DEF Neighbours

\* "There are at most two activation groups in GPU memory"
\* (activation_offload.py), at every point of both passes, for every number of
\* layers when all but the last are offloaded.
THEOREM TwoGroupsAtMost == Spec => []TwoGroupsResident
<1>1. Init => IInv /\ Neighbours
  BY InitIInv DEF Init, Neighbours, Kept
<1>2. ASSUME IInv, Neighbours, [Next]_vars PROVE IInv' /\ Neighbours'
  <2>1. IInv'
    BY <1>2, NextIInv
  <2>2. ASSUME NEW s \in Streams, Run(s) PROVE Neighbours'
    BY <1>2, <2>2 DEF Run, hostVars, handler, Neighbours, Layers, NumLayers, NumOffload, Resident, Kept
  <2>3. CASE UNCHANGED vars
    BY <1>2, <2>1, <2>3 DEF vars, hostVars, handler, Neighbours, Layers, NumLayers, NumOffload, Resident, Kept
  <2>4. CASE Host
    BY <1>2, <2>1, <2>4, ForwardNeighbours, CommitForwardNeighbours, CommitBackwardNeighbours,
       BackwardNeighbours DEF Host
  <2> QED
    BY <1>2, <2>1, <2>2, <2>3, <2>4 DEF Next
<1>3. IInv /\ Neighbours => TwoGroupsResident
  BY TwoAtMost
<1> QED
  BY <1>1, <1>2, <1>3, PTL DEF Spec
=============================================================================
