---------------------------- MODULE PackedForward ----------------------------
(***************************************************************************)
(* The forward passes of actor, critic and reward model, token by token:   *)
(* the padding of a micro-batch is removed and its rows are packed into one *)
(* sequence, which the ranks of a sequence-parallel group share; what the  *)
(* model says of a token is brought back to the token's place, and the     *)
(* part that is of the response is cut out.                                *)
(*   verl/utils/ulysses.py                                                 *)
(*   _forward_micro_batch of workers/actor/dp_actor.py,                    *)
(*     workers/critic/dp_critic.py, workers/fsdp_workers.py                *)
(*   forward_step of workers/actor/megatron_actor.py                       *)
(*                                                                         *)
(* A row is padded on the left of its prompt and on the right of its       *)
(* response; a token is the row's number and its own.  A model's output    *)
(* at a token is the first and the last token it is computed from, and a   *)
(* log-prob has the token it is of besides.                                *)
(***************************************************************************)
EXTENDS Integers, Sequences, SequencesExt, FiniteSetsExt

CONSTANTS
    PromptLength,   \* max_prompt_length
    ResponseLength  \* max_response_length

ASSUME WidthAssumption == {PromptLength, ResponseLength} \subseteq Nat \ {0}

Width == PromptLength + ResponseLength
Places == 1 .. Width

PadToken == <<0, 0>>
Zero == <<>>            \* of what is computed

\* A row of so many tokens has as long a response as there is room for.
PromptOf(length) == Max({1, length - ResponseLength})

\* The number of the token at a place, 0 of padding: attention_mask and
\* position_ids + 1 of what it leaves.
TokenAt(length, place) ==
    LET k == place - (PromptLength - PromptOf(length)) IN
    IF k \in 1 .. length THEN k ELSE 0

Token(row, place) ==
    LET k == TokenAt(row.length, place) IN IF k = 0 THEN PadToken ELSE <<row.row, k>>

\* The flattened mask has the places of a micro-batch's rows in one count.
RowAt(n) == ((n - 1) \div Width) + 1
PlaceAt(n) == ((n - 1) % Width) + 1
Flat(b, place) == (b - 1) * Width + place

\* torch.nonzero: the numbers up to n in S, in order.
Nonzero(S, n) ==
    LET upto[i \in 0 .. n] == IF i = 0 THEN <<>>
                              ELSE IF i \in S THEN Append(upto[i - 1], i) ELSE upto[i - 1]
    IN upto[n]

\* unpad_input: where the tokens of a micro-batch are, row by row, and they.
Indices(batch) ==
    LET count == Len(batch) * Width IN
    Nonzero({n \in 1 .. count : TokenAt(batch[RowAt(n)].length, PlaceAt(n)) # 0}, count)
Unpadded(batch) ==
    LET at == Indices(batch) IN
    [j \in DOMAIN at |-> Token(batch[RowAt(at[j])], PlaceAt(at[j]))]

\* torch.roll(shifts=-1)
Rolled(ids) == [j \in DOMAIN ids |-> ids[1 + (j % Len(ids))]]

\* ulysses_pad, of input_ids and of position_ids, which start again.
PadSize(total_seq_len, sp_size) == (sp_size - (total_seq_len % sp_size)) % sp_size
PadIds(ids, pad_size) == ids \o [j \in 1 .. pad_size |-> PadToken]
PadPositions(positions, pad_size) == positions \o [j \in 1 .. pad_size |-> j - 1]

\* slice_input_tensor, on each rank of the group, and the gather of the slices.
Slices(x, sp_size) ==
    LET parts == Len(x) \div sp_size IN
    [rank \in 1 .. sp_size |-> SubSeq(x, (rank - 1) * parts + 1, rank * parts)]
GatherAndUnpad(x, pad_size) ==
    LET all == FlattenSeq(x) IN SubSeq(all, 1, Len(all) - pad_size)

\* The model on the slices of a group, which its attention brings together: a
\* token attends from the last position 0 on.
ModelOutput(ids, positions) ==
    LET all == FlattenSeq(ids)
        position == FlattenSeq(positions)
        start(j) == Max({i \in 1 .. j : position[i] = 0})
        Out(j) == <<all[start(j)], all[j]>>
    IN [rank \in DOMAIN ids |-> [j \in DOMAIN ids[rank] |->
            Out((rank - 1) * Len(ids[rank]) + j)]]

\* The model with attention_mask on rows that are padded.
PaddedOutput(batch) ==
    [b \in DOMAIN batch |-> [q \in Places |->
        IF TokenAt(batch[b].length, q) = 0 THEN Zero
        ELSE <<<<batch[b].row, 1>>, Token(batch[b], q)>>]]

\* pad_input
PadInput(values, batch) ==
    LET indices == Indices(batch) IN
    [b \in DOMAIN batch |-> [q \in Places |->
        IF Flat(b, q) \in ToSet(indices)
        THEN values[CHOOSE j \in DOMAIN indices : indices[j] = Flat(b, q)] ELSE Zero]]

\* [:, -response_length - 1 : -1]
ResponsePart(full) ==
    [b \in DOMAIN full |-> SubSeq(full[b], Width - ResponseLength, Width - 1)]

\* [:, -response_length:] of the attention mask, times what is of the response.
Masked(length, response) ==
    [t \in 1 .. ResponseLength |->
        IF TokenAt(length, PromptLength + t) = 0 THEN Zero ELSE response[t]]

-----------------------------------------------------------------------------

\* What an actor, critic or reward model computes of packed rows, and the label
\* of each place: the token after it.
PackedOutput(batch, sp_size) ==
    LET ids == Unpadded(batch)
        positions == [j \in DOMAIN ids |-> ids[j][2] - 1]
        pad_size == PadSize(Len(ids), sp_size)
    IN ModelOutput(Slices(PadIds(ids, pad_size), sp_size),
                   Slices(PadPositions(positions, pad_size), sp_size))

PackedLabels(batch, sp_size) ==
    LET ids == Unpadded(batch) IN
    Slices(PadIds(Rolled(ids), PadSize(Len(ids), sp_size)), sp_size)

\* Back from the ranks and to the rows.
Unpacked(values, batch, sp_size) ==
    PadInput(GatherAndUnpad(values, PadSize(Len(Indices(batch)), sp_size)), batch)

\* logprobs_from_logits
Labelled(logits, labels) == [j \in DOMAIN logits |-> Append(logits[j], labels[j])]

\* DataParallelPPOActor
PackedLogProbs(batch, sp_size) ==
    LET logits == PackedOutput(batch, sp_size)
        labels == PackedLabels(batch, sp_size)
    IN ResponsePart(Unpacked([rank \in DOMAIN logits |-> Labelled(logits[rank], labels[rank])],
                             batch, sp_size))
PaddedLogProbs(batch) ==
    LET logits == ResponsePart(PaddedOutput(batch))
        responses(b) == [t \in 1 .. ResponseLength |-> Token(batch[b], PromptLength + t)]
    IN [b \in DOMAIN batch |-> Labelled(logits[b], responses(b))]

\* DataParallelPPOCritic
PackedValues(batch, sp_size) ==
    ResponsePart(Unpacked(PackedOutput(batch, sp_size), batch, sp_size))
PaddedValues(batch) == ResponsePart(PaddedOutput(batch))

\* RewardModelWorker: the score of the last valid token, torch.argmax of the
\* positions under the mask, and a score at that token's place alone.
LastValid(length) ==
    LET position(q) == Max({0, TokenAt(length, q) - 1}) IN
    Min({q \in Places : \A other \in Places : position(other) <= position(q)})
ScoreOf(row, full) == full[LastValid(row.length)]
PackedScores(batch, sp_size) ==
    LET rm_score == Unpacked(PackedOutput(batch, sp_size), batch, sp_size) IN
    [b \in DOMAIN batch |-> ScoreOf(batch[b], rm_score[b])]
PaddedScores(batch) == [b \in DOMAIN batch |-> ScoreOf(batch[b], PaddedOutput(batch)[b])]

TokenLevel(length, score) ==
    [t \in 1 .. ResponseLength |-> IF PromptLength + t = LastValid(length) THEN score ELSE Zero]

\* MegatronPPOActor, whose model packs by itself: each place is given its label,
\* and only places whose label may be of the response are computed.
MegatronLabelled(batch) ==
    LET label(b, q) == Token(batch[b], q + 1)
        label_mask(b, q) == /\ TokenAt(batch[b].length, q) # 0
                            /\ q \in Width - ResponseLength .. Width - 1
    IN [b \in DOMAIN batch |-> [q \in Places |->
            IF label_mask(b, q) THEN Append(PaddedOutput(batch)[b][q], label(b, q)) ELSE Zero]]
=============================================================================
