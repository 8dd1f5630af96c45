------------------------------ MODULE Qwen35Kv ------------------------------
(***************************************************************************)
(* The single-sequence KV cache, the delta-net recurrent state, the prefix *)
(* snapshots and the KVFlash live-pool continuation of Qwen35Backend       *)
(* (qwen35_backend.cpp), as one request at a time is served by the worker. *)
(*                                                                         *)
(* Positions are 1..MaxCtx (position p here is p-1 in the code; counts are *)
(* the code's counts).  A K/V row is abstracted to the position and token  *)
(* it was computed for, the recurrent state to the tokens it absorbed, and *)
(* logits to the cells the forward pass that computed them attended to.    *)
(* A KVFlash chunk is one token.                                           *)
(***************************************************************************)
EXTENDS Naturals, Sequences

CONSTANTS
    Token,       \* vocabulary
    NoTok,       \* what a zeroed row holds
    MinPrompt,   \* bounds on the length of a client prompt
    MaxPrompt,
    MaxCtx,      \* bound: longest prompt plus generated tokens
    MaxRec,      \* bound: tokens the recurrent state and the history may hold
    Ubatch,      \* tokens per prefill chunk
    KvFlash,     \* --kvflash: resident pool smaller than the context
    PoolTokens,  \* rows of that pool
    Slots,       \* prefix snapshot slots
    NoSlot,
    Restores,    \* prefix caching on: the server may restore snapshots
    Failures     \* graph build, compute or allocation may fail

ASSUME ConstantsAssumption ==
    /\ NoTok \notin Token
    /\ MinPrompt \in Nat \ {0} /\ MaxPrompt \in Nat /\ MaxCtx \in Nat
    /\ MinPrompt <= MaxPrompt /\ MaxPrompt < MaxCtx
    /\ MaxRec \in Nat /\ MaxCtx <= MaxRec
    /\ Ubatch \in Nat \ {0}
    /\ KvFlash \in BOOLEAN /\ Restores \in BOOLEAN /\ Failures \in BOOLEAN
    /\ PoolTokens \in Nat \ {0} /\ PoolTokens <= MaxCtx
    /\ NoSlot \notin Slots

VARIABLES
    phase,       \* "idle", "prefill" or "decode": where the worker is
    text,        \* prompt, then the tokens emitted for it
    plen,        \* prompt length
    job,         \* how this request started and where it must snapshot
    committed,   \* local of do_prefill / do_ar_decode: rows written so far
    pool,        \* K/V rows with the pager's mapping and host copies
    rec,         \* recurrent (SSM + conv) state
    curPos,      \* cache_.cur_pos
    last,        \* context behind cache_.last_tok
    logits,      \* context behind the sg_.logits tensor
    logitsValid, \* prefill_last_logits_valid_
    history,     \* kvflash_history_
    boundary,    \* kvflash_prompt_boundary_pos_
    snaps        \* prefix_snapshots_

serving == <<phase, text, plen, job, committed>>
cache   == <<pool, rec, curPos, last>>
vars    == <<serving, cache, logits, logitsValid, history, boundary, snaps>>

-----------------------------------------------------------------------------
(* Data *)

MinOf(a, b) == IF a <= b THEN a ELSE b

Pos     == 1 .. MaxCtx
Row     == 1 .. (IF KvFlash THEN PoolTokens ELSE MaxCtx)
Prompts == UNION {[1 .. n -> Token] : n \in MinPrompt .. MaxPrompt}

CellOf(p, t) == [pos |-> p, tok |-> t]
Blank        == CellOf(0, NoTok)
Cell         == [pos : 0 .. MaxCtx, tok : Token \cup {NoTok}]

NotResident == 0     \* block of a position that has no row in the pool

Pool == [rows  : [Row -> Cell],
         block : [Pos -> Row \cup {NotResident}],
         host  : [Pos -> Cell]]

NoSnap   == [pos |-> 0, rows |-> <<>>, rec |-> <<>>, last |-> <<>>, key |-> <<>>]
Snapshot == [pos : 0 .. MaxCtx, rows : Seq(Cell), rec : Seq(Token),
             last : Seq(Cell), key : Seq(Token)]

\* How do_prefill was entered: offset is kv_offset, cont is kv_pool_continue,
\* paged is kvf_paged; the request asks for a snapshot of the first snapPos
\* tokens in slot dest, and pending says it has not been taken or skipped.
Job   == [offset : 0 .. MaxCtx, cont : BOOLEAN, paged : BOOLEAN,
          dest : Slots \cup {NoSlot}, snapPos : 0 .. MaxCtx, pending : BOOLEAN]
NoJob == [offset |-> 0, cont |-> FALSE, paged |-> FALSE,
          dest |-> NoSlot, snapPos |-> 0, pending |-> FALSE]

IsPrefix(s, t) == Len(s) <= Len(t) /\ \A i \in 1 .. Len(s) : s[i] = t[i]

-----------------------------------------------------------------------------
(* KvFlashPager, from how the backend uses it: chunks of one token, mapped to *)
(* pool rows on demand, paged out to host memory when the pool is full.       *)

EmptyMap == [p \in Pos |-> NotResident]
NoHost   == [p \in Pos |-> Blank]

Resident(P) == {p \in Pos : P.block[p] # NotResident}
FreeRows(P) == Row \ {P.block[p] : p \in Resident(P)}

PagerReset(P) == [P EXCEPT !.block = EmptyMap, !.host = NoHost]

PageOut(P, v) == [P EXCEPT !.host[v] = P.rows[P.block[v]],
                           !.block[v] = NotResident]

\* Wrong on purpose: a chunk comes back without its rows.
PageInEmpty(P, p, r) == [P EXCEPT !.block[p] = r]

PageIn(P, p, r) == [P EXCEPT !.block[p] = r,
                             !.rows[r] = IF P.host[p] # Blank THEN P.host[p] ELSE @]

\* slot_for(p): the pools that may result.  Free rows are handed out in
\* order; when there is none, some resident chunk is evicted.
SlotFor(P, p) ==
    IF p \in Resident(P) THEN {P}
    ELSE IF FreeRows(P) # {}
         THEN {PageIn(P, p, r) : r \in {f \in FreeRows(P) : \A g \in FreeRows(P) : f <= g}}
         ELSE {PageIn(PageOut(P, v), p, P.block[v]) : v \in Resident(P)}

\* reselect(): a rescoring may swap a resident chunk for a paged-out one.
Reselect(P) ==
    {P} \cup {PageIn(PageOut(P, v), w, P.block[v]) :
                v \in Resident(P), w \in {q \in Pos \ Resident(P) : P.host[q] # Blank}}

IsIdentity(P) == \A p \in Resident(P) : P.block[p] = p

ZeroFree(P) == [P EXCEPT !.rows = [r \in Row |-> IF r \in FreeRows(P) THEN Blank ELSE @[r]]]

WriteRow(P, r, c) == [P EXCEPT !.rows[r] = c]

-----------------------------------------------------------------------------
(* What attention sees of the first n positions. *)

IdentityView(P, n) == [p \in 1 .. n |-> IF p \in Row THEN P.rows[p] ELSE Blank]
PagedView(P, n) ==
    [p \in 1 .. n |-> IF P.block[p] = NotResident THEN Blank ELSE P.rows[P.block[p]]]

\* The context every forward pass over s[1..n] should have seen.
Context(s, n) == [p \in 1 .. n |-> CellOf(p, s[p])]

-----------------------------------------------------------------------------
Init ==
    /\ phase = "idle" /\ text = <<>> /\ plen = 0 /\ job = NoJob /\ committed = 0
    /\ pool = [rows |-> [r \in Row |-> Blank], block |-> EmptyMap, host |-> NoHost]
    /\ rec = <<>> /\ curPos = 0 /\ last = <<>>
    /\ logits = <<>> /\ logitsValid = FALSE
    /\ history = <<>> /\ boundary = 0
    /\ snaps = [s \in Slots |-> NoSnap]

-----------------------------------------------------------------------------
(* Snapshots *)

\* snapshot_save(): refused when KVFlash has relocated rows or the logical
\* position is beyond the pool.
CanSave(P, pos) == ~KvFlash \/ (pos <= PoolTokens /\ IsIdentity(P))

\* The snapshot of the cache at position pos, put in a slot under the tokens
\* the server will find it by (finalize_generation_cache).
Saved(slot, key, P, pos) ==
    IF CanSave(P, pos)
    THEN [snaps EXCEPT ![slot] = [pos |-> pos, rows |-> IdentityView(P, pos),
                                  rec |-> rec, last |-> last, key |-> key]]
    ELSE snaps

\* The prompt cut of this request.
SnapKey == SubSeq(text, 1, job.snapPos)

\* A request that fails, or whose client left, does not keep its snapshot
\* (the server frees the slot), nor does it keep an old one: the server frees
\* the destination before the request starts.
Freed(S, d) == IF d = NoSlot THEN S ELSE [S EXCEPT ![d] = NoSnap]

\* The request returns to the worker and its locals are gone.  Whatever comes
\* next builds a graph of its own before it looks at the logits again.
Leave == /\ phase' = "idle" /\ text' = <<>> /\ plen' = 0
         /\ job' = NoJob /\ committed' = 0
         /\ logits' = <<>>

-----------------------------------------------------------------------------
(* Starting a request *)

\* kvf_paged in do_prefill.
Paged(total) == KvFlash /\ total > PoolTokens - 1

\* The head of do_prefill: a pooled prefill that is not a continuation drops
\* the pager's mapping; then the chunk loop starts at kv_offset.
BeginPrefill(P, prompt, offset, cont, dest, snapPos) ==
    LET paged == Paged(Len(prompt))
    IN  /\ phase' = "prefill"
        /\ text' = prompt /\ plen' = Len(prompt) /\ committed' = offset
        /\ job' = [offset |-> offset, cont |-> cont, paged |-> paged,
                   dest |-> dest, snapPos |-> snapPos, pending |-> dest # NoSlot]
        /\ pool' = IF paged /\ ~cont THEN PagerReset(P) ELSE P
        /\ logits' = <<>> /\ logitsValid' = FALSE

\* An exact hit runs no prefill: it only builds a one-token step graph, whose
\* logits tensor no forward pass has written.
BeginExact(prompt, dest) ==
    /\ phase' = "decode"
    /\ text' = prompt /\ plen' = Len(prompt) /\ committed' = Len(prompt)
    /\ job' = [NoJob EXCEPT !.dest = dest]
    /\ logits' = <<>>
    /\ UNCHANGED logitsValid

\* The snapshot the server asks for: a destination slot and the prompt cut.
SnapRequest(prompt, dest, snapPos) ==
    IF dest = NoSlot THEN snapPos = 0
    ELSE Restores /\ snapPos \in 1 .. Len(prompt)

\* Wrong on purpose: trust the boundary without comparing tokens.
IsLcpUnchecked(prompt, lcp) == lcp = MinOf(boundary, Len(prompt))

\* lcp is the longest common prefix of the prompt and the recorded history,
\* up to the last prompt boundary.
IsLcp(prompt, lcp) ==
    LET limit == MinOf(boundary, Len(prompt))
    IN  /\ lcp <= limit
        /\ \A i \in 1 .. lcp : history[i] = prompt[i]
        /\ lcp < limit => history[lcp + 1] # prompt[lcp + 1]

CanContinue == KvFlash /\ boundary > 0 /\ Len(history) >= boundary

\* Wrong on purpose: the recurrent state of the previous request is kept.
GenerateFreshNoReset(prompt, dest, snapPos) ==
    /\ phase = "idle"
    /\ SnapRequest(prompt, dest, snapPos)
    /\ CanContinue => IsLcp(prompt, 0)
    /\ snaps' = Freed(snaps, dest)
    /\ BeginPrefill(pool, prompt, 0, FALSE, dest, snapPos)
    /\ UNCHANGED <<rec, curPos, last, history, boundary>>

\* generate_impl() when nothing can be continued.
GenerateFresh(prompt, dest, snapPos) ==
    /\ phase = "idle"
    /\ SnapRequest(prompt, dest, snapPos)
    /\ CanContinue => IsLcp(prompt, 0)
    /\ rec' = <<>>
    /\ snaps' = Freed(snaps, dest)
    /\ BeginPrefill(pool, prompt, 0, FALSE, dest, snapPos)
    /\ UNCHANGED <<curPos, last, history, boundary>>

\* generate_impl() onto the live pool: the recurrent state is not reset.
GenerateContinue(prompt, lcp, dest, snapPos) ==
    /\ phase = "idle"
    /\ SnapRequest(prompt, dest, snapPos)
    /\ CanContinue /\ lcp > 0 /\ IsLcp(prompt, lcp)
    /\ lcp < Len(prompt)
    /\ Len(rec) + Len(prompt) - lcp <= MaxRec
    /\ snaps' = Freed(snaps, dest)
    /\ BeginPrefill(pool, prompt, lcp, TRUE, dest, snapPos)
    /\ UNCHANGED <<rec, curPos, last, history, boundary>>

\* generate_impl() when the whole prompt is already in the live pool.
GenerateExact(prompt, dest, snapPos) ==
    /\ phase = "idle"
    /\ SnapRequest(prompt, dest, snapPos)
    /\ CanContinue /\ IsLcp(prompt, Len(prompt))
    /\ snaps' = Freed(snaps, dest)
    /\ BeginExact(prompt, dest)
    /\ UNCHANGED <<cache, history, boundary>>

\* Wrong on purpose: the last position of the snapshot is not copied back.
RestoredShort(S) == [pool EXCEPT !.rows = [r \in Row |-> IF r < S.pos THEN S.rows[r] ELSE Blank]]

\* restore_target_cache() after the cache buffer was cleared.
Restored(S) == [pool EXCEPT !.rows = [r \in Row |-> IF r <= S.pos THEN S.rows[r] ELSE Blank]]

\* Wrong on purpose: last_tok is not part of the snapshot.
LoadSnapshotStaleToken(S) ==
    /\ rec' = S.rec /\ curPos' = S.pos
    /\ UNCHANGED <<last, history, boundary>>

LoadSnapshot(S) ==
    /\ rec' = S.rec /\ curPos' = S.pos /\ last' = S.last
    /\ UNCHANGED <<history, boundary>>

\* The server restores a slot it found under a prefix of the prompt, and
\* never uses that slot as the destination of this request's snapshot.
CanRestore(slot, prompt, dest, snapPos) ==
    /\ phase = "idle" /\ Restores
    /\ snaps[slot].pos > 0
    /\ IsPrefix(snaps[slot].key, prompt)
    /\ dest # slot
    /\ SnapRequest(prompt, dest, snapPos)

\* restore_and_generate_impl(): prefill what follows the snapshot.
RestoreDelta(slot, prompt, dest, snapPos) ==
    LET S == snaps[slot]
    IN  /\ CanRestore(slot, prompt, dest, snapPos)
        /\ Len(prompt) > S.pos
        /\ ~Paged(Len(prompt))
        /\ snaps' = Freed(snaps, dest)
        /\ LoadSnapshot(S)
        /\ BeginPrefill(Restored(S), prompt, S.pos, FALSE, dest, snapPos)

\* ... which do_prefill refuses once the prompt needs the pooled path.
RestoreRefused(slot, prompt, dest, snapPos) ==
    LET S == snaps[slot]
    IN  /\ CanRestore(slot, prompt, dest, snapPos)
        /\ Len(prompt) > S.pos
        /\ Paged(Len(prompt))
        /\ snaps' = Freed(snaps, dest)
        /\ LoadSnapshot(S)
        /\ pool' = Restored(S)
        /\ logitsValid' = FALSE
        /\ Leave

\* ... or nothing, when the snapshot holds the whole prompt.
RestoreExact(slot, prompt, dest, snapPos) ==
    LET S == snaps[slot]
    IN  /\ CanRestore(slot, prompt, dest, snapPos)
        /\ Len(prompt) = S.pos
        /\ snaps' = Freed(snaps, dest)
        /\ LoadSnapshot(S)
        /\ pool' = Restored(S)
        /\ BeginExact(prompt, dest)

\* ... or everything, when an edited history is shorter than the snapshot.
\* (Requests that name the slot themselves: the HTTP server treats this as a
\* miss before it gets here.)
RestoreShorter(slot, prompt, dest, snapPos) ==
    LET S == snaps[slot]
    IN  /\ phase = "idle" /\ Restores
        /\ S.pos > 0 /\ dest # slot
        /\ SnapRequest(prompt, dest, snapPos)
        /\ Len(prompt) < S.pos
        /\ snaps' = Freed(snaps, dest)
        /\ rec' = <<>> /\ curPos' = 0 /\ last' = S.last
        /\ BeginPrefill(Restored(S), prompt, 0, FALSE, dest, snapPos)
        /\ UNCHANGED <<history, boundary>>

-----------------------------------------------------------------------------
(* do_prefill: the chunk loop *)

ChunkLen == MinOf(IF job.paged THEN 1 ELSE Ubatch, plen - committed)

\* Wrong on purpose: the snapshot is rounded up to the next chunk boundary.
SnapDueRoundedUp == job.pending /\ committed >= job.snapPos

\* snap_pos falls in the chunk that starts at committed.
SnapDue == job.pending /\ committed <= job.snapPos /\ job.snapPos < committed + ChunkLen

\* Boundary snapshot at the start of the chunk; skipped, for good, when the
\* chunk is the first one or rows are relocated.
BoundarySnapshot ==
    /\ job' = [job EXCEPT !.pending = @ /\ ~SnapDue]
    /\ snaps' = IF SnapDue /\ committed > job.offset /\ ~job.paged
                THEN Saved(job.dest, SnapKey, pool, committed)
                ELSE snaps

\* Cells of the chunk that ends at upto.
Written(P, upto) ==
    [P EXCEPT !.rows = [r \in Row |-> IF r \in committed + 1 .. upto
                                      THEN CellOf(r, text[r]) ELSE @[r]]]

Absorb(P, view, n) ==
    /\ pool' = P
    /\ rec' = rec \o SubSeq(text, committed + 1, committed + n)
    /\ committed' = committed + n
    /\ curPos' = committed + n
    /\ last' = view
    /\ IF committed + n = plen
       THEN logits' = view /\ logitsValid' = TRUE
       ELSE logits' = <<>> /\ UNCHANGED logitsValid
    /\ UNCHANGED <<phase, text, plen, history, boundary>>

PrefillChunk ==
    /\ phase = "prefill" /\ committed < plen /\ ~job.paged
    /\ BoundarySnapshot
    /\ LET P == Written(pool, committed + ChunkLen)
       IN  Absorb(P, IdentityView(P, committed + ChunkLen), ChunkLen)

PrefillPagedChunk ==
    /\ phase = "prefill" /\ committed < plen /\ job.paged
    /\ BoundarySnapshot
    /\ \E Q \in SlotFor(pool, committed + 1) :
         LET P == WriteRow(Q, Q.block[committed + 1],
                           CellOf(committed + 1, text[committed + 1]))
         IN  Absorb(P, PagedView(P, committed + 1), 1)

-----------------------------------------------------------------------------
(* do_prefill: after the loop *)

Prompt == SubSeq(text, 1, plen)
Delta  == SubSeq(text, job.offset + 1, plen)

\* kvflash_history_.resize(n): cut, or pad with token ids that are not known.
Resize(s, n) == [i \in 1 .. n |-> IF i <= Len(s) THEN s[i] ELSE NoTok]

\* Wrong on purpose: the mapping is dropped and not rebuilt.
SyncedPoolUnmapped ==
    IF job.paged THEN ZeroFree(pool) ELSE ZeroFree(PagerReset(pool))

\* kvflash_sync_prefill() and its pooled counterpart.  All tokens of the call
\* are recorded even if the loop was cut short by a cancellation.
SyncedPool ==
    IF job.paged THEN ZeroFree(pool)
    ELSE ZeroFree([PagerReset(pool) EXCEPT
                     !.block = [p \in Pos |-> IF p <= committed THEN p ELSE NotResident]])

\* Wrong on purpose: the stale tail is not cut off before the delta.
SyncedHistoryUncut == IF job.offset = 0 THEN Prompt ELSE history \o Delta

\* Wrong on purpose: only the tokens of this call are recorded.
SyncedHistoryDelta == IF job.offset = 0 THEN Prompt ELSE Delta

SyncedHistory ==
    IF job.offset = 0 THEN Prompt ELSE Resize(history, job.offset) \o Delta

\* The end of do_prefill: its caller goes on to decode unless the request was
\* cancelled, at the latest after the last chunk.
EndPrefill(cancelled) ==
    /\ phase = "prefill"
    /\ cancelled \/ committed = plen
    /\ IF cancelled THEN Leave
       ELSE /\ phase' = "decode"
            /\ job' = [job EXCEPT !.pending = FALSE]
            /\ UNCHANGED <<text, plen, committed, logits>>
    /\ IF KvFlash
       THEN /\ pool' = SyncedPool
            /\ history' = SyncedHistory
            /\ boundary' = committed
       ELSE UNCHANGED <<pool, history, boundary>>
    /\ snaps' = IF cancelled THEN Freed(snaps, job.dest)
                ELSE IF job.pending /\ job.snapPos = committed
                     THEN Saved(job.dest, SnapKey, pool', curPos)
                     ELSE snaps
    /\ UNCHANGED <<rec, curPos, last, logitsValid>>

-----------------------------------------------------------------------------
(* do_ar_decode *)

Record(t) == history' = IF KvFlash THEN Append(history, t) ELSE history

\* The first token comes from the prefill; its K/V row is not written yet.
DecodeFirst(t) ==
    /\ phase = "decode" /\ Len(text) = plen
    /\ KvFlash => Len(history) < MaxRec
    /\ text' = Append(text, t)
    /\ Record(t)
    /\ UNCHANGED <<phase, plen, job, committed, cache, logits, logitsValid, boundary, snaps>>

\* The pools in which the pending token, at position committed + 1, has its row.
Forwarded ==
    LET p == committed + 1
        c == CellOf(p, text[p])
    IN  IF KvFlash
        THEN UNION {Reselect(WriteRow(Q, Q.block[p], c)) : Q \in SlotFor(pool, p)}
        ELSE {WriteRow(pool, p, c)}

\* Wrong on purpose: the context may be filled by one token too many.
DecodeStepPastContext(t) ==
    /\ phase = "decode" /\ Len(text) = committed + 1 /\ Len(text) <= MaxCtx
    /\ Len(rec) < MaxRec
    /\ pool' \in Forwarded
    /\ rec' = Append(rec, text[committed + 1])
    /\ committed' = committed + 1
    /\ curPos' = committed + 1
    /\ text' = Append(text, t)
    /\ logits' = <<>>
    /\ Record(t)
    /\ UNCHANGED <<phase, plen, job, last, logitsValid, boundary, snaps>>

\* One iteration: forward the pending token, then emit the next one.
DecodeStep(t) ==
    /\ phase = "decode" /\ Len(text) = committed + 1 /\ Len(text) < MaxCtx
    /\ Len(rec) < MaxRec
    /\ pool' \in Forwarded
    /\ rec' = Append(rec, text[committed + 1])
    /\ committed' = committed + 1
    /\ curPos' = committed + 1
    /\ text' = Append(text, t)
    /\ logits' = <<>>
    /\ Record(t)
    /\ UNCHANGED <<phase, plen, job, last, logitsValid, boundary, snaps>>

\* End of sequence, token budget (none at all for a request with n_gen = 0),
\* repetition guard or a disconnected client; the snapshot of a request that
\* showed nothing, or whose client left, is discarded.
DecodeEnd(discarded) ==
    /\ phase = "decode"
    /\ Leave
    /\ snaps' = IF discarded THEN Freed(snaps, job.dest) ELSE snaps
    /\ UNCHANGED <<cache, logitsValid, history, boundary>>

\* Wrong on purpose: the checkpoint is keyed by the tokens that have a row.
CheckpointKeyOfRows == SubSeq(text, 1, committed)

\* A checkpoint is keyed by prompt and answer, although the last token of the
\* answer has no row yet.
CheckpointKey == text

\* The end of a long answer: the cache as decode leaves it is saved as well,
\* with the last_tok of the prefill.
DecodeCheckpoint(slot) ==
    /\ phase = "decode" /\ Len(text) > plen
    /\ Restores /\ slot # job.dest
    /\ snaps' = Saved(slot, CheckpointKey, pool, curPos)
    /\ Leave
    /\ UNCHANGED <<cache, logitsValid, history, boundary>>

\* A graph build, a compute or an allocation fails: the request ends where it
\* is, and nothing is rolled back.
Fail ==
    /\ Failures /\ phase # "idle"
    /\ Leave
    /\ snaps' = Freed(snaps, job.dest)
    /\ UNCHANGED <<cache, logitsValid, history, boundary>>

-----------------------------------------------------------------------------
Start ==
    \E prompt \in Prompts, dest \in Slots \cup {NoSlot}, snapPos \in 0 .. MaxPrompt :
      \/ GenerateFresh(prompt, dest, snapPos)
      \/ \E lcp \in 1 .. MaxPrompt : GenerateContinue(prompt, lcp, dest, snapPos)
      \/ GenerateExact(prompt, dest, snapPos)
      \/ \E slot \in Slots :
           \/ RestoreDelta(slot, prompt, dest, snapPos)
           \/ RestoreRefused(slot, prompt, dest, snapPos)
           \/ RestoreExact(slot, prompt, dest, snapPos)
           \/ RestoreShorter(slot, prompt, dest, snapPos)

Prefill ==
    \/ PrefillChunk
    \/ PrefillPagedChunk
    \/ \E cancelled \in BOOLEAN : EndPrefill(cancelled)

Decode ==
    \/ \E t \in Token : DecodeFirst(t) \/ DecodeStep(t)
    \/ \E discarded \in BOOLEAN : DecodeEnd(discarded)
    \/ \E slot \in Slots : DecodeCheckpoint(slot)

Next == Start \/ Prefill \/ Decode \/ Fail

Spec == Init /\ [][Next]_vars

-----------------------------------------------------------------------------
(* Properties *)

TypeOK ==
    /\ phase \in {"idle", "prefill", "decode"}
    /\ text \in Seq(Token) /\ plen \in 0 .. MaxPrompt /\ plen <= Len(text)
    /\ Len(text) <= MaxCtx
    /\ job \in Job
    /\ committed \in 0 .. MaxCtx /\ committed <= Len(text)
    /\ pool \in Pool
    /\ rec \in Seq(Token)
    /\ curPos \in 0 .. MaxCtx
    /\ last \in Seq(Cell) /\ logits \in Seq(Cell) /\ logitsValid \in BOOLEAN
    /\ history \in Seq(Token \cup {NoTok})
    /\ boundary \in 0 .. MaxPrompt
    /\ snaps \in [Slots -> Snapshot]

\* Row of position p while decoding, NotResident if it is paged out.
RowOf(p) == IF KvFlash THEN pool.block[p] ELSE p

\* Every row decode attends to holds the token the request has at that
\* position, whatever earlier requests, restores, failures and cancellations
\* left behind in the rows (do_prefill, restore_and_generate_impl).
ServedKv ==
    phase = "decode" =>
        \A p \in 1 .. committed :
            RowOf(p) # NotResident => pool.rows[RowOf(p)] = CellOf(p, text[p])

\* The recurrent state decode continues from has absorbed exactly the tokens
\* in front of the next position (reset_recurrent_state, restore_target_cache).
ServedRecurrent ==
    phase = "decode" => rec = SubSeq(text, 1, committed)

Covers(view, s) ==
    /\ Len(view) = Len(s)
    /\ \A p \in 1 .. Len(s) : view[p] \in {CellOf(p, s[p])} \cup (IF KvFlash THEN {Blank} ELSE {})

\* cache_.last_tok, the first token of a greedy answer, was predicted from
\* this prompt: all of it and nothing after it.
FirstTokenOfPrompt ==
    phase = "decode" /\ Len(text) = plen => Covers(last, text)

\* The logits a sampled answer draws its first token from were computed by a
\* forward pass over this prompt (do_ar_decode trusts them when
\* prefill_last_logits_valid_ is set).
FirstLogitsOfPrompt ==
    phase = "decode" /\ Len(text) = plen /\ logitsValid => Covers(logits, text)

IsFaithful(S) ==
    /\ S.pos <= Len(S.key)
    /\ S.rows = Context(S.key, S.pos)
    /\ S.rec = SubSeq(S.key, 1, S.pos)
    /\ S.pos = Len(S.key) => S.last = Context(S.key, S.pos)

\* A snapshot is what prefilling a prefix of its key would give: it holds no
\* more positions than the key the server finds it by, rows and recurrent
\* state belong to those positions, and so does the predicted token of every
\* snapshot a request may be answered from without any prefill.
SnapshotFaithful == \A s \in Slots : snaps[s].pos > 0 => IsFaithful(snaps[s])

\* The prefix comparison of generate_impl never reads past the recorded
\* history, and what a continuation starts from is inside it.
BoundaryWithinHistory ==
    /\ boundary <= Len(history)
    /\ phase = "prefill" /\ job.cont => job.offset <= boundary

\* A continuation that prefills by position (the prompt fits the pool) finds
\* the rows it keeps where it will look for them.
ContinuedRowsInPlace ==
    phase = "prefill" /\ job.cont /\ ~job.paged =>
        \A p \in 1 .. job.offset : pool.block[p] = p

\* Between requests every resident row below the boundary holds the token
\* that kvflash_history_ records for its position, so that a prefix matched
\* against the history is a prefix that is really in the pool.
HistoryIsRecord ==
    phase = "idle" =>
        \A p \in 1 .. boundary :
            pool.block[p] # NotResident =>
                pool.rows[pool.block[p]] = CellOf(p, history[p])

\* As long as requests, answers included, fit the pool, a continuation may trust
\* it: what decode attends to, where prefill looks for it and what the history
\* says of it agree.
PoolKept == ServedKv /\ ContinuedRowsInPlace /\ HistoryIsRecord

=============================================================================
