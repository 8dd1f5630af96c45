--------------------------- MODULE Qwen35Kv_proofs ---------------------------
(***************************************************************************)
(* Theorems about Qwen35Kv, for every value of its constants.              *)
(*                                                                         *)
(* Part 1 (any mode): type correctness and BoundaryWithinHistory.          *)
(* Part 2 (no KVFlash): a request is served from its own rows, recurrent   *)
(* state and first token, and snapshots are faithful.                      *)
(* Part 3 (KVFlash): where rows, mapping and history of the live pool      *)
(* agree, so that a continuation may trust them.                           *)
(***************************************************************************)
EXTENDS Qwen35Kv, SequenceTheorems, TLAPS

USE ConstantsAssumption

(***************************************************************************)
(* Part 1.  What the locals of a request, the snapshots and the history    *)
(* have to do with each other for every step to stay within its types.     *)
(***************************************************************************)

JobShape ==
    /\ phase = "prefill" =>
         /\ Len(text) = plen /\ committed <= plen
         /\ job.offset <= committed
         /\ KvFlash /\ ~job.paged => plen < PoolTokens
    /\ phase = "decode" =>
         /\ Len(text) = plen => committed = plen
         /\ Len(text) > plen => committed = Len(text) - 1
    /\ phase # "idle" => job.snapPos <= plen

SnapsTyped(S) == /\ S \in [Slots -> Snapshot]
                 /\ \A s \in Slots : Len(S[s].rows) = S[s].pos

SnapShape == SnapsTyped(snaps)

Shape == JobShape /\ SnapShape /\ BoundaryWithinHistory

IInv == TypeOK /\ Shape

-----------------------------------------------------------------------------
(* Lemmas about the operators *)

\* Rows are numbers, and positions.
LEMMA RowType == Row \subseteq Nat /\ Row \subseteq Pos
BY DEF Row, Pos

\* A prompt is a non-empty sequence of tokens within the bounds.
LEMMA PromptType ==
    ASSUME NEW prompt \in Prompts
    PROVE  /\ prompt \in Seq(Token)
           /\ Len(prompt) \in 1 .. MaxPrompt
<1>1. PICK n \in MinPrompt .. MaxPrompt : prompt \in [1 .. n -> Token]
  BY DEF Prompts
<1>2. n \in Nat
  OBVIOUS
<1>3. prompt \in Seq(Token) /\ Len(prompt) = n
  BY <1>1, <1>2
<1> QED BY <1>3

\* What is computed for a position is a cell.
LEMMA CellType ==
    ASSUME NEW p \in 0 .. MaxCtx, NEW t \in Token \cup {NoTok}
    PROVE  CellOf(p, t) \in Cell
BY DEF CellOf, Cell

\* So is what a row holds at first.
LEMMA BlankType == Blank \in Cell
BY DEF Blank, CellOf, Cell

\* What attention sees is a sequence of cells, one per position.
LEMMA ViewType ==
    ASSUME NEW P \in Pool, NEW n \in 0 .. MaxCtx
    PROVE  /\ IdentityView(P, n) \in Seq(Cell) /\ Len(IdentityView(P, n)) = n
           /\ PagedView(P, n) \in Seq(Cell) /\ Len(PagedView(P, n)) = n
<1>1. \A p \in 1 .. n : (IF p \in Row THEN P.rows[p] ELSE Blank) \in Cell
  BY BlankType DEF Pool
<1>2. \A p \in 1 .. n : (IF P.block[p] = NotResident THEN Blank ELSE P.rows[P.block[p]]) \in Cell
  BY BlankType DEF Pool, Pos
<1>3. IdentityView(P, n) \in [1 .. n -> Cell]
  BY <1>1 DEF IdentityView
<1>4. PagedView(P, n) \in [1 .. n -> Cell]
  BY <1>2 DEF PagedView
<1> QED BY <1>3, <1>4

\* Paging keeps the pool well formed.
LEMMA PageInType ==
    ASSUME NEW P \in Pool, NEW p \in Pos, NEW r \in Row
    PROVE  PageIn(P, p, r) \in Pool /\ PageIn(P, p, r).block[p] = r
BY DEF PageIn, Pool

\* A chunk that is paged out frees a row.
LEMMA PageOutType ==
    ASSUME NEW P \in Pool, NEW v \in Resident(P)
    PROVE  PageOut(P, v) \in Pool /\ P.block[v] \in Row
<1>1. v \in Pos /\ P.block[v] \in Row
  BY DEF Resident, Pool
<1>2. P.rows[P.block[v]] \in Cell
  BY <1>1 DEF Pool
<1> QED BY <1>1, <1>2 DEF PageOut, Pool

\* slot_for returns a row of the pool, and the position is mapped to it.
LEMMA SlotForType ==
    ASSUME NEW P \in Pool, NEW p \in Pos, NEW Q \in SlotFor(P, p)
    PROVE  Q \in Pool /\ Q.block[p] \in Row
<1>1. CASE p \in Resident(P)
  BY <1>1 DEF SlotFor, Resident, Pool
<1>2. CASE p \notin Resident(P) /\ FreeRows(P) # {}
  <2>1. PICK r \in FreeRows(P) : Q = PageIn(P, p, r)
    BY <1>2 DEF SlotFor
  <2> QED BY <2>1, PageInType DEF FreeRows
<1>3. CASE p \notin Resident(P) /\ FreeRows(P) = {}
  <2>1. PICK v \in Resident(P) : Q = PageIn(PageOut(P, v), p, P.block[v])
    BY <1>3 DEF SlotFor
  <2> QED BY <2>1, PageOutType, PageInType
<1> QED BY <1>1, <1>2, <1>3

\* Reselecting leaves a pool.
LEMMA ReselectType ==
    ASSUME NEW P \in Pool, NEW Q \in Reselect(P)
    PROVE  Q \in Pool
<1>1. CASE Q = P
  BY <1>1
<1>2. CASE \E v \in Resident(P), w \in Pos : Q = PageIn(PageOut(P, v), w, P.block[v])
  BY <1>2, PageOutType, PageInType
<1> QED BY <1>1, <1>2 DEF Reselect

\* Writing a row moves no chunk.
LEMMA WriteRowType ==
    ASSUME NEW P \in Pool, NEW r \in Row, NEW c \in Cell
    PROVE  WriteRow(P, r, c) \in Pool /\ WriteRow(P, r, c).block = P.block
BY DEF WriteRow, Pool

\* Zeroing the free rows leaves a pool.
LEMMA ZeroFreeType ==
    ASSUME NEW P \in Pool
    PROVE  ZeroFree(P) \in Pool
BY BlankType DEF ZeroFree, Pool

\* So does resetting the pager.
LEMMA PagerResetType ==
    ASSUME NEW P \in Pool
    PROVE  PagerReset(P) \in Pool
BY BlankType DEF PagerReset, Pool, EmptyMap, NoHost

-----------------------------------------------------------------------------
(* Lemmas about the parts several actions share *)

\* A request that ends leaves a well-formed idle worker behind.
LEMMA LeaveType ==
    ASSUME IInv, Leave, SnapsTyped(snaps'),
           pool' \in Pool, rec' \in Seq(Token), curPos' \in 0 .. MaxCtx,
           last' \in Seq(Cell), logitsValid' \in BOOLEAN,
           history' \in Seq(Token \cup {NoTok}), boundary' \in 0 .. MaxPrompt,
           boundary' <= Len(history')
    PROVE  IInv'
<1>1. NoJob \in Job
  BY DEF NoJob, Job
<1>2. <<>> \in Seq(Token) /\ <<>> \in Seq(Cell) /\ Len(<<>>) = 0
  OBVIOUS
<1>3. TypeOK'
  BY <1>1, <1>2 DEF Leave, TypeOK, SnapsTyped
<1>4. JobShape' /\ SnapShape' /\ BoundaryWithinHistory'
  BY DEF Leave, JobShape, SnapShape, BoundaryWithinHistory
<1> QED BY <1>3, <1>4 DEF IInv, Shape

\* Freeing a slot keeps the snapshots well formed.
LEMMA FreedType ==
    ASSUME IInv, NEW d \in Slots \cup {NoSlot}
    PROVE  SnapsTyped(Freed(snaps, d))
<1>1. NoSnap \in Snapshot /\ Len(NoSnap.rows) = NoSnap.pos
  BY DEF NoSnap, Snapshot
<1>2. snaps \in [Slots -> Snapshot] /\ SnapShape
  BY DEF IInv, TypeOK, Shape
<1> QED BY <1>1, <1>2 DEF Freed, SnapShape, SnapsTyped

\* So does saving one, for a key of tokens.
LEMMA SavedType ==
    ASSUME IInv, NEW slot, NEW key \in Seq(Token), NEW P \in Pool, NEW n \in 0 .. MaxCtx
    PROVE  SnapsTyped(Saved(slot, key, P, n))
<1> DEFINE S == [pos |-> n, rows |-> IdentityView(P, n), rec |-> rec, last |-> last, key |-> key]
<1>1. S \in Snapshot /\ Len(S.rows) = S.pos
  BY ViewType DEF IInv, TypeOK, Snapshot
<1>2. snaps \in [Slots -> Snapshot] /\ SnapShape
  BY DEF IInv, TypeOK, Shape
<1>3. Saved(slot, key, P, n) \in {snaps, [snaps EXCEPT ![slot] = S]}
  BY DEF Saved
<1> HIDE DEF S
<1> QED BY <1>1, <1>2, <1>3 DEF SnapShape, SnapsTyped

\* A snapshot is asked for within the prompt.
LEMMA SnapRequestType ==
    ASSUME NEW prompt \in Prompts, NEW dest \in Slots \cup {NoSlot},
           NEW snapPos \in 0 .. MaxPrompt, SnapRequest(prompt, dest, snapPos)
    PROVE  snapPos <= Len(prompt)
BY PromptType DEF SnapRequest

\* Entering do_prefill at an offset inside the prompt.
LEMMA BeginPrefillType ==
    ASSUME IInv, NEW P \in Pool, NEW prompt \in Prompts,
           NEW offset \in 0 .. MaxCtx, offset <= Len(prompt),
           NEW cont \in BOOLEAN, cont => offset <= boundary,
           NEW dest \in Slots \cup {NoSlot}, NEW snapPos \in 0 .. MaxPrompt,
           snapPos <= Len(prompt),
           BeginPrefill(P, prompt, offset, cont, dest, snapPos),
           SnapsTyped(snaps'),
           rec' \in Seq(Token), curPos' \in 0 .. MaxCtx, last' \in Seq(Cell),
           UNCHANGED <<history, boundary>>
    PROVE  IInv'
<1>1. prompt \in Seq(Token) /\ Len(prompt) \in 1 .. MaxPrompt
  BY PromptType
<1>2. job' \in Job
  BY DEF BeginPrefill, Job, Paged
<1>3. pool' \in Pool
  BY PagerResetType DEF BeginPrefill
<1>4. TypeOK'
  <2>1. /\ phase' = "prefill" /\ text' = prompt /\ plen' = Len(prompt)
        /\ committed' = offset /\ logits' = <<>> /\ logitsValid' \in BOOLEAN
    BY DEF BeginPrefill
  <2>2. history' \in Seq(Token \cup {NoTok}) /\ boundary' \in 0 .. MaxPrompt
    BY DEF IInv, TypeOK
  <2> QED BY <1>1, <1>2, <1>3, <2>1, <2>2 DEF TypeOK, SnapsTyped
<1>5. JobShape'
  BY <1>1 DEF BeginPrefill, JobShape, Paged
<1>6. BoundaryWithinHistory'
  BY DEF BeginPrefill, IInv, Shape, BoundaryWithinHistory
<1>7. SnapShape'
  BY DEF SnapShape
<1> QED BY <1>4, <1>5, <1>6, <1>7 DEF IInv, Shape

\* ... which is not a continuation.
LEMMA FreshType ==
    ASSUME IInv, NEW P \in Pool, NEW prompt \in Prompts,
           NEW offset \in 0 .. MaxCtx, offset <= Len(prompt),
           NEW dest \in Slots \cup {NoSlot}, NEW snapPos \in 0 .. MaxPrompt,
           snapPos <= Len(prompt),
           BeginPrefill(P, prompt, offset, FALSE, dest, snapPos),
           SnapsTyped(snaps'),
           rec' \in Seq(Token), curPos' \in 0 .. MaxCtx, last' \in Seq(Cell),
           UNCHANGED <<history, boundary>>
    PROVE  IInv'
<1> DEFINE cont == FALSE
<1>1. cont \in BOOLEAN /\ (cont => offset <= boundary)
  OBVIOUS
<1>2. BeginPrefill(P, prompt, offset, cont, dest, snapPos)
  OBVIOUS
<1> HIDE DEF cont
<1> QED BY <1>1, <1>2, BeginPrefillType

\* Going straight to decode on an exact hit.
LEMMA BeginExactType ==
    ASSUME IInv, NEW prompt \in Prompts, NEW dest \in Slots \cup {NoSlot},
           BeginExact(prompt, dest),
           SnapsTyped(snaps'),
           pool' \in Pool, rec' \in Seq(Token), curPos' \in 0 .. MaxCtx,
           last' \in Seq(Cell), UNCHANGED <<history, boundary>>
    PROVE  IInv'
<1>1. prompt \in Seq(Token) /\ Len(prompt) \in 1 .. MaxPrompt
  BY PromptType
<1>2. job' \in Job /\ job'.snapPos = 0
  <2>1. job' = [offset |-> 0, cont |-> FALSE, paged |-> FALSE,
                dest |-> dest, snapPos |-> 0, pending |-> FALSE]
    BY DEF BeginExact, NoJob
  <2> QED BY <2>1 DEF Job
<1>3. TypeOK'
  <2>1. /\ phase' = "decode" /\ text' = prompt /\ plen' = Len(prompt)
        /\ committed' = Len(prompt) /\ logits' = <<>> /\ logitsValid' = logitsValid
    BY DEF BeginExact
  <2>2. /\ history' \in Seq(Token \cup {NoTok}) /\ boundary' \in 0 .. MaxPrompt
        /\ logitsValid \in BOOLEAN
    BY DEF IInv, TypeOK
  <2> QED BY <1>1, <1>2, <2>1, <2>2 DEF TypeOK, SnapsTyped
<1>4. JobShape' /\ BoundaryWithinHistory' /\ SnapShape'
  BY <1>1, <1>2 DEF BeginExact, JobShape, IInv, Shape, BoundaryWithinHistory, SnapShape
<1> QED BY <1>3, <1>4 DEF IInv, Shape

\* The pool after a restore: the rows of the snapshot and nothing else.
LEMMA RestoredType ==
    ASSUME IInv, NEW slot \in Slots
    PROVE  Restored(snaps[slot]) \in Pool
<1>1. /\ snaps[slot] \in Snapshot /\ Len(snaps[slot].rows) = snaps[slot].pos
      /\ pool \in Pool
  BY DEF IInv, TypeOK, Shape, SnapShape, SnapsTyped
<1>2. \A r \in Row : (IF r <= snaps[slot].pos THEN snaps[slot].rows[r] ELSE Blank) \in Cell
  BY <1>1, BlankType DEF Snapshot, Row
<1> QED BY <1>1, <1>2 DEF Restored, Pool

-----------------------------------------------------------------------------
(* Every action preserves IInv *)

\* A backend that has served nothing has the invariant.
LEMMA IInvInit == Init => IInv
<1> SUFFICES ASSUME Init PROVE IInv
  OBVIOUS
<1>1. NoJob \in Job
  BY DEF NoJob, Job
<1>2. NoSnap \in Snapshot /\ Len(NoSnap.rows) = NoSnap.pos
  BY DEF NoSnap, Snapshot
<1>3. pool \in Pool
  BY BlankType DEF Init, Pool, EmptyMap, NoHost
<1>4. TypeOK
  <2>1. /\ phase = "idle" /\ text = <<>> /\ plen = 0 /\ job = NoJob /\ committed = 0
        /\ rec = <<>> /\ curPos = 0 /\ last = <<>> /\ logits = <<>>
        /\ logitsValid \in BOOLEAN /\ history = <<>> /\ boundary = 0
        /\ snaps \in [Slots -> Snapshot]
    BY <1>2 DEF Init
  <2> QED BY <1>1, <1>3, <2>1 DEF TypeOK
<1>5. Shape
  BY <1>2 DEF Init, Shape, JobShape, SnapShape, SnapsTyped, BoundaryWithinHistory
<1> QED BY <1>4, <1>5 DEF IInv

\* So has one that begins a request, on whichever of its paths.
LEMMA StartType ==
    ASSUME IInv, Start
    PROVE  IInv'
<1>1. PICK prompt \in Prompts, dest \in Slots \cup {NoSlot}, snapPos \in 0 .. MaxPrompt :
        \/ GenerateFresh(prompt, dest, snapPos)
        \/ \E lcp \in 1 .. MaxPrompt : GenerateContinue(prompt, lcp, dest, snapPos)
        \/ GenerateExact(prompt, dest, snapPos)
        \/ \E slot \in Slots :
             \/ RestoreDelta(slot, prompt, dest, snapPos)
             \/ RestoreRefused(slot, prompt, dest, snapPos)
             \/ RestoreExact(slot, prompt, dest, snapPos)
             \/ RestoreShorter(slot, prompt, dest, snapPos)
  BY DEF Start
<1>2. SnapRequest(prompt, dest, snapPos)
  BY <1>1 DEF GenerateFresh, GenerateContinue, GenerateExact, RestoreDelta,
              RestoreRefused, RestoreExact, RestoreShorter, CanRestore
<1>3. snapPos <= Len(prompt) /\ Len(prompt) \in 1 .. MaxPrompt
  BY <1>2, SnapRequestType, PromptType
<1>4. snaps' = Freed(snaps, dest)
  BY <1>1 DEF GenerateFresh, GenerateContinue, GenerateExact, RestoreDelta,
              RestoreRefused, RestoreExact, RestoreShorter
<1>5. SnapsTyped(snaps')
  BY <1>4, FreedType
<1>6. /\ pool \in Pool /\ rec \in Seq(Token) /\ curPos \in 0 .. MaxCtx
      /\ last \in Seq(Cell) /\ logitsValid \in BOOLEAN /\ boundary \in 0 .. MaxPrompt
      /\ history \in Seq(Token \cup {NoTok}) /\ boundary <= Len(history)
      /\ <<>> \in Seq(Token)
  BY DEF IInv, TypeOK, Shape, BoundaryWithinHistory
<1>7. \A slot \in Slots :
        /\ snaps[slot].pos \in 0 .. MaxCtx /\ snaps[slot].rec \in Seq(Token)
        /\ snaps[slot].last \in Seq(Cell)
  BY DEF IInv, TypeOK, Snapshot
<1>8. CASE GenerateFresh(prompt, dest, snapPos)
  <2>1. /\ BeginPrefill(pool, prompt, 0, FALSE, dest, snapPos) /\ rec' = <<>>
        /\ curPos' = curPos /\ last' = last /\ UNCHANGED <<history, boundary>>
    BY <1>8 DEF GenerateFresh
  <2>2. 0 \in 0 .. MaxCtx /\ 0 <= Len(prompt)
    BY <1>3
  <2>3. rec' \in Seq(Token) /\ curPos' \in 0 .. MaxCtx /\ last' \in Seq(Cell)
    BY <1>6, <2>1
  <2> QED BY <2>1, <2>2, <2>3, <1>3, <1>5, <1>6, FreshType
<1>9. CASE \E lcp \in 1 .. MaxPrompt : GenerateContinue(prompt, lcp, dest, snapPos)
  <2>1. PICK lcp \in 1 .. MaxPrompt : GenerateContinue(prompt, lcp, dest, snapPos)
    BY <1>9
  <2>2. lcp <= boundary /\ lcp <= Len(prompt) /\ lcp \in 0 .. MaxCtx
    BY <2>1, <1>3, <1>6 DEF GenerateContinue, IsLcp, MinOf
  <2> QED BY <2>1, <2>2, <1>3, <1>5, <1>6, BeginPrefillType DEF GenerateContinue
<1>10. CASE GenerateExact(prompt, dest, snapPos)
  BY <1>5, <1>6, <1>10, BeginExactType DEF GenerateExact, cache
<1>11. ASSUME NEW slot \in Slots, RestoreDelta(slot, prompt, dest, snapPos)
       PROVE  IInv'
  <2> DEFINE S == snaps[slot]
  <2>1. /\ BeginPrefill(Restored(S), prompt, S.pos, FALSE, dest, snapPos)
        /\ rec' = S.rec /\ curPos' = S.pos /\ last' = S.last
        /\ Len(prompt) > S.pos /\ UNCHANGED <<history, boundary>>
    BY <1>11 DEF RestoreDelta, LoadSnapshot
  <2>2. Restored(S) \in Pool /\ S.pos \in 0 .. MaxCtx /\ S.pos <= Len(prompt)
    BY <1>3, <1>7, <2>1, RestoredType
  <2>3. rec' \in Seq(Token) /\ curPos' \in 0 .. MaxCtx /\ last' \in Seq(Cell)
    BY <1>7, <2>1
  <2> HIDE DEF S
  <2> QED BY <2>1, <2>2, <2>3, <1>3, <1>5, FreshType
<1>12. ASSUME NEW slot \in Slots, RestoreRefused(slot, prompt, dest, snapPos)
       PROVE  IInv'
  <2>1. /\ Leave /\ pool' = Restored(snaps[slot]) /\ logitsValid' \in BOOLEAN
        /\ rec' = snaps[slot].rec /\ curPos' = snaps[slot].pos /\ last' = snaps[slot].last
        /\ history' = history /\ boundary' = boundary
    BY <1>12 DEF RestoreRefused, LoadSnapshot
  <2> QED BY <2>1, <1>5, <1>6, <1>7, RestoredType, LeaveType
<1>13. ASSUME NEW slot \in Slots, RestoreExact(slot, prompt, dest, snapPos)
       PROVE  IInv'
  BY <1>5, <1>6, <1>7, <1>13, RestoredType, BeginExactType
     DEF RestoreExact, LoadSnapshot
<1>14. ASSUME NEW slot \in Slots, RestoreShorter(slot, prompt, dest, snapPos)
       PROVE  IInv'
  <2>1. /\ BeginPrefill(Restored(snaps[slot]), prompt, 0, FALSE, dest, snapPos)
        /\ rec' = <<>> /\ curPos' = 0 /\ last' = snaps[slot].last
        /\ UNCHANGED <<history, boundary>>
    BY <1>14 DEF RestoreShorter
  <2>2. Restored(snaps[slot]) \in Pool /\ last' \in Seq(Cell)
    BY <1>7, <2>1, RestoredType
  <2>3. 0 \in 0 .. MaxCtx /\ 0 <= Len(prompt)
    BY <1>3
  <2>4. rec' \in Seq(Token) /\ curPos' \in 0 .. MaxCtx
    BY <1>6, <2>1, <2>3
  <2> QED BY <2>1, <2>2, <2>3, <2>4, <1>3, <1>5, FreshType
<1> QED BY <1>1, <1>8, <1>9, <1>10, <1>11, <1>12, <1>13, <1>14

\* The snapshots after the snapshot branch of the chunk loop.
LEMMA BoundarySnapshotType ==
    ASSUME IInv, phase = "prefill", BoundarySnapshot
    PROVE  /\ job' \in Job /\ job'.offset = job.offset /\ job'.paged = job.paged
           /\ job'.cont = job.cont /\ job'.snapPos = job.snapPos
           /\ SnapsTyped(snaps')
<1>1. /\ job \in Job /\ snaps \in [Slots -> Snapshot] /\ pool \in Pool
      /\ committed \in 0 .. MaxCtx /\ text \in Seq(Token)
      /\ job.snapPos <= Len(text) /\ SnapShape
  BY DEF IInv, TypeOK, Shape, JobShape
<1>2. job' = [job EXCEPT !.pending = @ /\ ~SnapDue] /\ (job.pending /\ ~SnapDue) \in BOOLEAN
  BY DEF BoundarySnapshot
<1>3. /\ job' \in Job /\ job'.offset = job.offset /\ job'.paged = job.paged
      /\ job'.cont = job.cont /\ job'.snapPos = job.snapPos
  BY <1>1, <1>2 DEF Job
<1>4. SnapKey \in Seq(Token)
  BY <1>1, SubSeqProperties DEF SnapKey, Job
<1>5. snaps' = snaps \/ snaps' = Saved(job.dest, SnapKey, pool, committed)
  BY DEF BoundarySnapshot
<1>6. SnapsTyped(snaps')
  <2>1. CASE snaps' = snaps
    BY <1>1, <2>1 DEF SnapShape
  <2>2. CASE snaps' = Saved(job.dest, SnapKey, pool, committed)
    <3> DEFINE T == Saved(job.dest, SnapKey, pool, committed)
    <3>1. SnapsTyped(T)
      BY <1>1, <1>4, SavedType
    <3>2. snaps' = T
      BY <2>2
    <3> HIDE DEF T
    <3> QED BY <3>1, <3>2
  <2> QED BY <1>5, <2>1, <2>2
<1> QED BY <1>3, <1>6

\* A chunk of n tokens is absorbed.
LEMMA AbsorbType ==
    ASSUME IInv, phase = "prefill", BoundarySnapshot,
           NEW n \in Nat, committed + n <= plen,
           NEW P \in Pool, NEW view \in Seq(Cell),
           Absorb(P, view, n)
    PROVE  IInv'
<1>1. /\ text \in Seq(Token) /\ plen \in 0 .. MaxPrompt /\ Len(text) = plen
      /\ committed \in 0 .. MaxCtx /\ rec \in Seq(Token) /\ logitsValid \in BOOLEAN
      /\ history \in Seq(Token \cup {NoTok}) /\ boundary \in 0 .. MaxPrompt
      /\ phase \in {"idle", "prefill", "decode"} /\ job.offset \in 0 .. MaxCtx
  BY DEF IInv, TypeOK, Shape, JobShape, Job
<1>2. SubSeq(text, committed + 1, committed + n) \in Seq(Token)
  BY <1>1, SubSeqProperties
<1>3. rec' \in Seq(Token)
  BY <1>1, <1>2, ConcatProperties DEF Absorb
<1>4. /\ phase' = phase /\ text' = text /\ plen' = plen /\ history' = history
      /\ boundary' = boundary /\ pool' = P /\ last' = view
      /\ committed' = committed + n /\ curPos' = committed + n
      /\ logits' = view \/ logits' = <<>>
  BY DEF Absorb
<1>5. logitsValid' \in BOOLEAN
  BY <1>1 DEF Absorb
<1>6. TypeOK'
  <2>1. committed' \in 0 .. MaxCtx /\ committed' <= Len(text') /\ curPos' \in 0 .. MaxCtx
    BY <1>1, <1>4
  <2>3. logits' \in Seq(Cell) /\ last' \in Seq(Cell) /\ pool' \in Pool
    <3>1. <<>> \in Seq(Cell)
      OBVIOUS
    <3> QED BY <1>4, <3>1
  <2>2. job' \in Job /\ snaps' \in [Slots -> Snapshot]
    BY BoundarySnapshotType DEF SnapsTyped
  <2> QED BY <1>1, <1>3, <1>4, <1>5, <2>1, <2>2, <2>3 DEF TypeOK
<1>7. JobShape' /\ SnapShape' /\ BoundaryWithinHistory'
  BY SMTT(30), <1>1, <1>4, BoundarySnapshotType
     DEF IInv, Shape, JobShape, SnapShape, BoundaryWithinHistory
<1> QED BY <1>6, <1>7 DEF IInv, Shape

\* A chunk stays inside the prompt.
LEMMA ChunkLenType ==
    ASSUME IInv, phase = "prefill", committed < plen
    PROVE  ChunkLen \in Nat \ {0} /\ committed + ChunkLen <= plen
<1>1. plen \in Nat /\ committed \in Nat
  BY DEF IInv, TypeOK
<1> QED BY <1>1 DEF ChunkLen, MinOf

\* A prefill by position leaves a pool.
LEMMA WrittenType ==
    ASSUME IInv, phase = "prefill", NEW upto \in Nat, upto <= plen
    PROVE  Written(pool, upto) \in Pool
<1>1. /\ text \in Seq(Token) /\ Len(text) = plen /\ pool \in Pool
      /\ committed \in Nat /\ plen \in Nat /\ plen <= MaxCtx
  BY DEF IInv, TypeOK, Shape, JobShape
<1>2. \A r \in Row : (IF r \in committed + 1 .. upto THEN CellOf(r, text[r]) ELSE pool.rows[r]) \in Cell
  <2>1. TAKE r \in Row
  <2>2. r \in Nat
    BY RowType
  <2>3. CASE r \in committed + 1 .. upto
    <3>1. r \in 1 .. Len(text) /\ r \in 0 .. MaxCtx
      BY <1>1, <2>2, <2>3
    <3>2. text[r] \in Token
      BY <3>1, <1>1, ElementOfSeq
    <3> QED BY <3>1, <3>2, <2>3, CellType
  <2>4. CASE r \notin committed + 1 .. upto
    BY <1>1, <2>4 DEF Pool
  <2> QED BY <2>3, <2>4
<1> QED BY <1>1, <1>2 DEF Written, Pool

\* A chunk of prefill stays within the prompt, as does its snapshot.
LEMMA PrefillType ==
    ASSUME IInv, PrefillChunk \/ PrefillPagedChunk
    PROVE  IInv'
<1>1. CASE PrefillChunk
  <2> DEFINE n == ChunkLen
             P == Written(pool, committed + n)
  <2>1. /\ phase = "prefill" /\ committed < plen /\ BoundarySnapshot
        /\ Absorb(P, IdentityView(P, committed + n), n)
    BY <1>1 DEF PrefillChunk
  <2>2. n \in Nat /\ committed + n <= plen /\ committed + n \in 0 .. MaxCtx
    BY <2>1, ChunkLenType DEF IInv, TypeOK
  <2>3. P \in Pool
    BY <2>1, <2>2, WrittenType
  <2>4. IdentityView(P, committed + n) \in Seq(Cell)
    BY <2>2, <2>3, ViewType
  <2> HIDE DEF n, P
  <2> QED BY <2>1, <2>2, <2>3, <2>4, AbsorbType
<1>2. CASE PrefillPagedChunk
  <2> DEFINE p == committed + 1
  <2>1. PICK Q \in SlotFor(pool, p) :
          LET P == WriteRow(Q, Q.block[p], CellOf(p, text[p]))
          IN  Absorb(P, PagedView(P, p), 1)
    BY <1>2 DEF PrefillPagedChunk
  <2> DEFINE P == WriteRow(Q, Q.block[p], CellOf(p, text[p]))
  <2>2. phase = "prefill" /\ committed < plen /\ BoundarySnapshot
    BY <1>2 DEF PrefillPagedChunk
  <2>3. /\ text \in Seq(Token) /\ Len(text) = plen /\ pool \in Pool
        /\ committed \in Nat /\ plen \in Nat /\ plen <= MaxCtx
    BY <2>2 DEF IInv, TypeOK, Shape, JobShape
  <2>4. p \in Pos /\ p \in 1 .. Len(text) /\ p \in 0 .. MaxCtx
    BY <2>2, <2>3 DEF Pos
  <2>5. CellOf(p, text[p]) \in Cell
    BY <2>3, <2>4, ElementOfSeq, CellType
  <2>6. Q \in Pool /\ Q.block[p] \in Row
    BY <2>1, <2>3, <2>4, SlotForType
  <2>7. P \in Pool
    BY <2>5, <2>6, WriteRowType
  <2>8. PagedView(P, p) \in Seq(Cell)
    BY <2>4, <2>7, ViewType
  <2>9. Absorb(P, PagedView(P, p), 1) /\ committed + 1 <= plen /\ 1 \in Nat
    BY <2>1, <2>2, <2>3
  <2> HIDE DEF P
  <2> QED BY <2>2, <2>7, <2>8, <2>9, AbsorbType
<1> QED BY <1>1, <1>2

\* A part of a sequence that starts after its first n elements.
LEMMA PartType ==
    ASSUME NEW T, NEW s \in Seq(T), NEW n \in Nat, NEW m \in Nat, n <= m, m <= Len(s)
    PROVE  SubSeq(s, n + 1, m) \in Seq(T) /\ Len(SubSeq(s, n + 1, m)) = m - n
<1>1. n + 1 \in Int /\ m \in Int /\ \A i \in n + 1 .. m : s[i] \in T
  OBVIOUS
<1>2. /\ SubSeq(s, n + 1, m) \in Seq(T)
      /\ Len(SubSeq(s, n + 1, m)) = IF n + 1 <= m THEN m - (n + 1) + 1 ELSE 0
  BY <1>1, SubSeqProperties
<1> QED BY <1>2

\* The history recorded at the end of do_prefill is as long as the prompt.
LEMMA SyncedType ==
    ASSUME IInv, phase = "prefill"
    PROVE  /\ SyncedHistory \in Seq(Token \cup {NoTok})
           /\ Len(SyncedHistory) = plen
           /\ KvFlash => SyncedPool \in Pool
<1>1. /\ text \in Seq(Token) /\ Len(text) = plen /\ plen \in Nat /\ job.offset \in Nat
      /\ job.offset <= committed /\ committed <= plen /\ committed \in Nat
      /\ history \in Seq(Token \cup {NoTok}) /\ pool \in Pool
      /\ KvFlash /\ ~job.paged => plen < PoolTokens
  BY DEF IInv, TypeOK, Shape, JobShape, Job
<1>2. Prompt \in Seq(Token) /\ Len(Prompt) = plen
  BY <1>1, SubSeqProperties DEF Prompt
<1>3. Delta \in Seq(Token) /\ Len(Delta) = plen - job.offset
  <2>1. job.offset <= plen /\ plen <= Len(text)
    BY <1>1
  <2> QED BY <1>1, <2>1, PartType DEF Delta
<1>4. Prompt \in Seq(Token \cup {NoTok}) /\ Delta \in Seq(Token \cup {NoTok})
  BY <1>2, <1>3, SeqMonotonic
<1>5. /\ Resize(history, job.offset) \in Seq(Token \cup {NoTok})
      /\ Len(Resize(history, job.offset)) = job.offset
  <2>1. Resize(history, job.offset) \in [1 .. job.offset -> Token \cup {NoTok}]
    BY <1>1 DEF Resize
  <2> QED BY <2>1, <1>1
<1>6. SyncedHistory \in Seq(Token \cup {NoTok}) /\ Len(SyncedHistory) = plen
  <2>1. CASE job.offset = 0
    BY <1>2, <1>4, <2>1 DEF SyncedHistory
  <2>2. CASE job.offset # 0
    <3> DEFINE r == Resize(history, job.offset)
    <3>1. r \o Delta \in Seq(Token \cup {NoTok}) /\ Len(r \o Delta) = Len(r) + Len(Delta)
      BY <1>4, <1>5, ConcatProperties
    <3>2. SyncedHistory = r \o Delta
      BY <2>2 DEF SyncedHistory
    <3> HIDE DEF r
    <3>3. Len(r) = job.offset
      BY <1>5 DEF r
    <3> QED BY <3>1, <3>2, <3>3, <1>1, <1>3
  <2> QED BY <2>1, <2>2
<1>7. ASSUME KvFlash PROVE SyncedPool \in Pool
  <2>1. CASE job.paged
    BY <1>1, <2>1, ZeroFreeType DEF SyncedPool
  <2>2. CASE ~job.paged
    <3> DEFINE b == [p \in Pos |-> IF p <= committed THEN p ELSE NotResident]
    <3>1. b \in [Pos -> Row \cup {NotResident}]
      BY <1>1, <1>7, <2>2 DEF Row, Pos
    <3>2. [PagerReset(pool) EXCEPT !.block = b] \in Pool
      <4>1. PagerReset(pool) \in Pool
        BY <1>1, PagerResetType
      <4> HIDE DEF b
      <4> QED BY <3>1, <4>1 DEF Pool
    <3> QED BY <2>2, <3>2, ZeroFreeType DEF SyncedPool
  <2> QED BY <2>1, <2>2
<1> QED BY <1>6, <1>7

\* The end of the prefill records a history that covers the boundary.
LEMMA EndPrefillType ==
    ASSUME IInv, NEW cancelled \in BOOLEAN, EndPrefill(cancelled)
    PROVE  IInv'
<1>1. /\ phase = "prefill"
      /\ cancelled \/ committed = plen
      /\ rec' = rec /\ curPos' = curPos /\ last' = last /\ logitsValid' = logitsValid
  BY DEF EndPrefill
<1>2. /\ job \in Job /\ pool \in Pool /\ rec \in Seq(Token) /\ curPos \in 0 .. MaxCtx
      /\ last \in Seq(Cell) /\ logitsValid \in BOOLEAN /\ logits \in Seq(Cell)
      /\ history \in Seq(Token \cup {NoTok}) /\ boundary \in 0 .. MaxPrompt
      /\ boundary <= Len(history) /\ committed <= plen /\ plen \in 0 .. MaxPrompt
      /\ committed \in 0 .. MaxCtx /\ text \in Seq(Token) /\ Len(text) = plen
      /\ snaps \in [Slots -> Snapshot] /\ SnapShape
      /\ job.dest \in Slots \cup {NoSlot} /\ job.snapPos \in Nat /\ job.snapPos <= plen
  <2>1. TypeOK /\ JobShape /\ SnapShape /\ BoundaryWithinHistory
    BY DEF IInv, Shape
  <2>2. job.dest \in Slots \cup {NoSlot} /\ job.snapPos \in Nat
    BY <2>1 DEF TypeOK, Job
  <2>3. Len(text) = plen /\ committed <= plen /\ job.snapPos <= plen
    BY <1>1, <2>1 DEF JobShape, TypeOK
  <2>4. boundary <= Len(history)
    BY <2>1 DEF BoundaryWithinHistory
  <2> QED BY <2>1, <2>2, <2>3, <2>4 DEF TypeOK
<1>3. /\ pool' \in Pool /\ history' \in Seq(Token \cup {NoTok})
      /\ boundary' \in 0 .. MaxPrompt /\ boundary' <= Len(history')
  <2>1. CASE KvFlash
    BY <1>1, <1>2, <2>1, SyncedType DEF EndPrefill
  <2>2. CASE ~KvFlash
    BY <1>2, <2>2 DEF EndPrefill
  <2> QED BY <2>1, <2>2
<1>4. SnapKey \in Seq(Token)
  BY <1>2, SubSeqProperties DEF SnapKey
<1>5. SnapsTyped(snaps')
  <2> DEFINE F == Freed(snaps, job.dest)
             T == Saved(job.dest, SnapKey, pool', curPos)
  <2>1. SnapsTyped(F)
    BY <1>2, FreedType
  <2>2. SnapsTyped(T)
    <3>1. curPos \in 0 .. MaxCtx
      BY <1>2
    <3>2. \A P \in Pool : SnapsTyped(Saved(job.dest, SnapKey, P, curPos))
      BY <1>4, <3>1, SavedType
    <3> QED BY <1>3, <3>2
  <2>3. snaps' = F \/ snaps' = T \/ snaps' = snaps
    BY DEF EndPrefill
  <2>4. SnapsTyped(snaps)
    BY <1>2 DEF SnapShape
  <2> HIDE DEF F, T
  <2>5. CASE snaps' = F
    BY <2>1, <2>5
  <2>6. CASE snaps' = T
    BY <2>2, <2>6
  <2>7. CASE snaps' = snaps
    BY <1>2, <2>4, <2>7
  <2> QED BY <2>3, <2>5, <2>6, <2>7
<1>6. CASE cancelled
  <2>1. Leave
    BY <1>6 DEF EndPrefill
  <2> QED BY <2>1, <1>1, <1>2, <1>3, <1>5, LeaveType
<1>7. CASE ~cancelled
  <2>1. /\ phase' = "decode" /\ job' = [job EXCEPT !.pending = FALSE]
        /\ text' = text /\ plen' = plen /\ committed' = committed /\ logits' = logits
    BY <1>7 DEF EndPrefill
  <2>2. job' \in Job /\ job'.snapPos = job.snapPos /\ committed = plen
    BY <1>1, <1>2, <1>7, <2>1 DEF Job
  <2>3. TypeOK'
    BY SMTT(30), <1>1, <1>2, <1>3, <1>5, <2>1, <2>2 DEF TypeOK, SnapsTyped
  <2>4. JobShape' /\ SnapShape' /\ BoundaryWithinHistory'
    BY SMTT(30), <1>2, <1>3, <1>5, <2>1, <2>2 DEF JobShape, SnapShape, BoundaryWithinHistory
  <2> QED BY <2>3, <2>4 DEF IInv, Shape
<1> QED BY <1>6, <1>7

\* The first token of the answer keeps the invariant.
LEMMA DecodeFirstType ==
    ASSUME IInv, NEW t \in Token, DecodeFirst(t)
    PROVE  IInv'
<1>1. /\ phase = "decode" /\ Len(text) = plen /\ text' = Append(text, t) /\ Record(t)
      /\ UNCHANGED <<phase, plen, job, committed, pool, rec, curPos, last,
                     logits, logitsValid, boundary, snaps>>
  BY DEF DecodeFirst, cache
<1>2. /\ text \in Seq(Token) /\ plen \in 0 .. MaxPrompt /\ committed = plen
      /\ history \in Seq(Token \cup {NoTok}) /\ boundary <= Len(history)
      /\ boundary \in Nat
  BY <1>1 DEF IInv, TypeOK, Shape, JobShape, BoundaryWithinHistory
<1>3. text' \in Seq(Token) /\ Len(text') = plen + 1
  BY <1>1, <1>2, AppendProperties
<1>4. history' \in Seq(Token \cup {NoTok}) /\ boundary <= Len(history')
  BY <1>1, <1>2, AppendProperties DEF Record
<1>5. TypeOK'
  BY <1>1, <1>2, <1>3, <1>4 DEF IInv, TypeOK
<1>6. JobShape'
  BY <1>1, <1>2, <1>3 DEF IInv, Shape, JobShape
<1>7. SnapShape' /\ BoundaryWithinHistory'
  BY <1>1, <1>4 DEF IInv, Shape, SnapShape, BoundaryWithinHistory
<1> QED BY <1>5, <1>6, <1>7 DEF IInv, Shape

\* The pools a decode iteration may leave behind.
LEMMA ForwardedType ==
    ASSUME IInv, committed + 1 <= Len(text), NEW P \in Forwarded
    PROVE  P \in Pool
<1> DEFINE p == committed + 1
           c == CellOf(p, text[p])
<1>1. /\ text \in Seq(Token) /\ Len(text) <= MaxCtx /\ pool \in Pool /\ committed \in Nat
  BY DEF IInv, TypeOK
<1>2. p \in Pos /\ p \in 1 .. Len(text) /\ p \in 0 .. MaxCtx
  BY <1>1 DEF Pos
<1>3. c \in Cell
  BY <1>1, <1>2, ElementOfSeq, CellType
<1>4. CASE KvFlash
  <2>1. PICK Q \in SlotFor(pool, p) : P \in Reselect(WriteRow(Q, Q.block[p], c))
    BY <1>4 DEF Forwarded
  <2>2. WriteRow(Q, Q.block[p], c) \in Pool
    BY <1>1, <1>2, <1>3, <2>1, SlotForType, WriteRowType
  <2> QED BY <2>1, <2>2, ReselectType
<1>5. CASE ~KvFlash
  <2>1. P = WriteRow(pool, p, c) /\ p \in Row
    BY <1>2, <1>5 DEF Forwarded, Row, Pos
  <2> HIDE DEF p, c
  <2> QED BY <1>1, <1>3, <2>1, WriteRowType
<1> QED BY <1>4, <1>5

\* So does every other token.
LEMMA DecodeStepType ==
    ASSUME IInv, NEW t \in Token, DecodeStep(t)
    PROVE  IInv'
<1>1. /\ phase = "decode" /\ Len(text) = committed + 1 /\ Len(text) < MaxCtx
      /\ text' = Append(text, t) /\ Record(t) /\ pool' \in Forwarded
      /\ rec' = Append(rec, text[committed + 1])
      /\ committed' = committed + 1 /\ curPos' = committed + 1 /\ logits' = <<>>
      /\ UNCHANGED <<phase, plen, job, last, logitsValid, boundary, snaps>>
  BY DEF DecodeStep
<1>2. /\ text \in Seq(Token) /\ plen \in 0 .. MaxPrompt /\ committed \in Nat
      /\ rec \in Seq(Token) /\ plen <= Len(text)
      /\ history \in Seq(Token \cup {NoTok}) /\ boundary <= Len(history)
      /\ boundary \in Nat
  BY <1>1 DEF IInv, TypeOK, Shape, BoundaryWithinHistory
<1>3. text' \in Seq(Token) /\ Len(text') = committed + 2
  BY <1>1, <1>2, AppendProperties
<1>4. history' \in Seq(Token \cup {NoTok}) /\ boundary <= Len(history')
  BY <1>1, <1>2, AppendProperties DEF Record
<1>5. rec' \in Seq(Token)
  <2>1. text[committed + 1] \in Token
    BY <1>1, <1>2, ElementOfSeq
  <2> QED BY <1>1, <1>2, <2>1, AppendProperties
<1>6. pool' \in Pool
  BY <1>1, <1>2, ForwardedType
<1>7. logits' \in Seq(Cell) /\ committed' \in 0 .. MaxCtx /\ curPos' \in 0 .. MaxCtx
  BY <1>1, <1>2
<1>8. TypeOK'
  BY <1>1, <1>2, <1>3, <1>4, <1>5, <1>6, <1>7 DEF IInv, TypeOK
<1>9. JobShape'
  BY <1>1, <1>2, <1>3 DEF IInv, Shape, JobShape
<1>10. SnapShape' /\ BoundaryWithinHistory'
  BY <1>1, <1>4 DEF IInv, Shape, SnapShape, BoundaryWithinHistory
<1> QED BY <1>8, <1>9, <1>10 DEF IInv, Shape

\* The three ways a request ends without do_prefill returning.
LEMMA EndType ==
    ASSUME IInv,
           \/ \E discarded \in BOOLEAN : DecodeEnd(discarded)
           \/ \E slot \in Slots : DecodeCheckpoint(slot)
           \/ Fail
    PROVE  IInv'
<1>1. /\ Leave
      /\ UNCHANGED <<pool, rec, curPos, last, logitsValid, history, boundary>>
  BY DEF DecodeEnd, DecodeCheckpoint, Fail, cache
<1>2. /\ pool \in Pool /\ rec \in Seq(Token) /\ curPos \in 0 .. MaxCtx
      /\ last \in Seq(Cell) /\ logitsValid \in BOOLEAN
      /\ history \in Seq(Token \cup {NoTok}) /\ boundary \in 0 .. MaxPrompt
      /\ boundary <= Len(history) /\ text \in Seq(Token)
      /\ job.dest \in Slots \cup {NoSlot}
  BY DEF IInv, TypeOK, Shape, BoundaryWithinHistory, Job
<1>3. \/ snaps' = snaps \/ snaps' = Freed(snaps, job.dest)
      \/ \E slot \in Slots : snaps' = Saved(slot, CheckpointKey, pool, curPos)
  BY DEF DecodeEnd, DecodeCheckpoint, Fail
<1>4. SnapsTyped(snaps')
  <2>1. SnapsTyped(snaps)
    BY DEF IInv, Shape, SnapShape
  <2>2. SnapsTyped(Freed(snaps, job.dest))
    BY <1>2, FreedType
  <2>3. \A slot \in Slots : SnapsTyped(Saved(slot, CheckpointKey, pool, curPos))
    BY <1>2, SavedType DEF CheckpointKey
  <2> QED BY <1>3, <2>1, <2>2, <2>3
<1> QED BY <1>1, <1>2, <1>4, LeaveType

\* Every step keeps the invariant.
LEMMA IInvNext == IInv /\ [Next]_vars => IInv'
<1> SUFFICES ASSUME IInv, [Next]_vars PROVE IInv'
  OBVIOUS
<1>1. CASE Start
  BY <1>1, StartType
<1>2. CASE Prefill
  <2>1. CASE PrefillChunk \/ PrefillPagedChunk
    BY <2>1, PrefillType
  <2>2. ASSUME NEW cancelled \in BOOLEAN, EndPrefill(cancelled) PROVE IInv'
    BY <2>2, EndPrefillType
  <2> QED BY <1>2, <2>1, <2>2 DEF Prefill
<1>3. CASE Decode
  <2>1. ASSUME NEW t \in Token, DecodeFirst(t) PROVE IInv'
    BY <2>1, DecodeFirstType
  <2>2. ASSUME NEW t \in Token, DecodeStep(t) PROVE IInv'
    BY <2>2, DecodeStepType
  <2>3. ASSUME NEW discarded \in BOOLEAN, DecodeEnd(discarded) PROVE IInv'
    BY <2>3, EndType
  <2>4. ASSUME NEW slot \in Slots, DecodeCheckpoint(slot) PROVE IInv'
    BY <2>4, EndType
  <2> QED BY <1>3, <2>1, <2>2, <2>3, <2>4 DEF Decode
<1>4. CASE Fail
  BY <1>4, EndType
<1>5. CASE UNCHANGED vars
  BY <1>5 DEF vars, serving, cache, IInv, TypeOK, Shape, JobShape, SnapShape,
              SnapsTyped, BoundaryWithinHistory
<1> QED BY <1>1, <1>2, <1>3, <1>4, <1>5 DEF Next

\* The invariant holds in every behaviour.
LEMMA Inductive == Spec => []IInv
<1> QED BY IInvInit, IInvNext, PTL DEF Spec

\* The cache, the locals of the request, the history and the snapshots stay
\* within their types in every mode, restores, failures and continuations
\* included; in particular slot_for and restore_target_cache never address a
\* row that the pool does not have.
THEOREM TypeCorrect == Spec => []TypeOK
<1>1. IInv => TypeOK
  BY DEF IInv
<1> QED BY <1>1, Inductive, PTL

\* The longest-common-prefix loop of generate_impl reads kvflash_history_ only
\* where it has tokens, and do_prefill is never entered as a continuation
\* beyond the boundary, after any sequence of requests.
THEOREM BoundaryCorrect == Spec => []BoundaryWithinHistory
<1>1. IInv => BoundaryWithinHistory
  BY DEF IInv, Shape
<1> QED BY <1>1, Inductive, PTL

(***************************************************************************)
(* Part 2.  Without KVFlash.  While a request is served, the rows and the  *)
(* recurrent state are those of its first "committed" tokens; cur_pos and  *)
(* last_tok follow as soon as a chunk was computed; and a snapshot is      *)
(* taken only when all four agree.                                         *)
(***************************************************************************)

RowsOf(P, s, n) == \A p \in 1 .. n : P.rows[p] = CellOf(p, s[p])

DensePrefill ==
    phase = "prefill" =>
        /\ ~job.paged /\ job.offset < plen
        /\ RowsOf(pool, text, committed)
        /\ rec = SubSeq(text, 1, committed)
        /\ committed > 0 => curPos = committed
        /\ committed > job.offset => last = Context(text, committed)

DenseDecode ==
    phase = "decode" =>
        /\ RowsOf(pool, text, committed)
        /\ rec = SubSeq(text, 1, committed)
        /\ curPos = committed
        /\ last = Context(text, plen)

DenseInv == DensePrefill /\ DenseDecode /\ SnapshotFaithful

-----------------------------------------------------------------------------

\* Without --kvflash nothing is continued and nothing is paged.
LEMMA NoContinuation == ASSUME ~KvFlash PROVE ~CanContinue /\ \A n : ~Paged(n)
BY DEF CanContinue, Paged

\* Rows written by position are what attention over the prompt should see.
LEMMA ViewIsContext ==
    ASSUME ~KvFlash, NEW P \in Pool, NEW s \in Seq(Token), NEW n \in 0 .. MaxCtx,
           n <= Len(s), RowsOf(P, s, n)
    PROVE  IdentityView(P, n) = Context(s, n)
<1>1. \A p \in 1 .. n : p \in Row
  BY DEF Row
<1> QED BY <1>1 DEF IdentityView, Context, RowsOf

\* Rows, recurrent state and prediction for the first n tokens are the same
\* for two texts that agree on them.
LEMMA SamePrefix ==
    ASSUME NEW k \in Seq(Token), NEW s \in Seq(Token), NEW n \in Nat,
           n <= Len(k), n <= Len(s), \A i \in 1 .. n : k[i] = s[i]
    PROVE  /\ Context(k, n) = Context(s, n)
           /\ SubSeq(k, 1, n) = SubSeq(s, 1, n)
<1>1. Context(k, n) = Context(s, n)
  BY DEF Context, CellOf
<1>2. /\ SubSeq(k, 1, n) \in Seq(Token) /\ Len(SubSeq(k, 1, n)) = n
      /\ \A i \in 1 .. n : SubSeq(k, 1, n)[i] = k[i]
  BY SubSeqProperties
<1>3. /\ SubSeq(s, 1, n) \in Seq(Token) /\ Len(SubSeq(s, 1, n)) = n
      /\ \A i \in 1 .. n : SubSeq(s, 1, n)[i] = s[i]
  BY SubSeqProperties
<1>4. SubSeq(k, 1, n) = SubSeq(s, 1, n)
  BY <1>2, <1>3, SeqEqual
<1> QED BY <1>1, <1>4

\* What is saved for a key of which the request has served the first n tokens
\* is faithful.
LEMMA SavedFaithful ==
    ASSUME ~KvFlash, IInv, SnapshotFaithful,
           NEW slot, NEW k \in Seq(Token), NEW n \in 0 .. MaxCtx,
           n <= Len(k), RowsOf(pool, k, n), rec = SubSeq(k, 1, n),
           n = Len(k) => last = Context(k, n)
    PROVE  \A s \in Slots : Saved(slot, k, pool, n)[s].pos > 0 =>
                             IsFaithful(Saved(slot, k, pool, n)[s])
<1> DEFINE N == [pos |-> n, rows |-> IdentityView(pool, n), rec |-> rec, last |-> last, key |-> k]
<1>1. snaps \in [Slots -> Snapshot] /\ pool \in Pool
  BY DEF IInv, TypeOK
<1>2. Saved(slot, k, pool, n) = [snaps EXCEPT ![slot] = N]
  BY DEF Saved, CanSave
<1>3. N.rows = Context(N.key, N.pos)
  BY <1>1, ViewIsContext
<1>4. IsFaithful(N)
  BY <1>3 DEF IsFaithful
<1> HIDE DEF N
<1>5. TAKE s \in Slots
<1>6. CASE s = slot
  BY <1>1, <1>2, <1>4, <1>6
<1>7. CASE s # slot
  BY <1>1, <1>2, <1>7 DEF SnapshotFaithful
<1> QED BY <1>6, <1>7

\* Freeing a snapshot leaves the others faithful.
LEMMA FreedFaithful ==
    ASSUME IInv, SnapshotFaithful, NEW d, snaps' = Freed(snaps, d)
    PROVE  SnapshotFaithful'
<1>1. snaps \in [Slots -> Snapshot]
  BY DEF IInv, TypeOK
<1>2. \A s \in Slots : snaps'[s] = snaps[s] \/ snaps'[s].pos = 0
  BY <1>1 DEF Freed, NoSnap
<1> QED BY <1>2 DEF SnapshotFaithful

\* Between requests only the snapshots matter.
LEMMA LeaveDense ==
    ASSUME Leave, SnapshotFaithful'
    PROVE  DenseInv'
BY DEF Leave, DenseInv, DensePrefill, DenseDecode

\* A fresh prefill has served nothing yet; a restored one what the snapshot holds.
LEMMA DenseStart ==
    ASSUME ~KvFlash, IInv, DenseInv, Start
    PROVE  DenseInv'
<1>1. PICK prompt \in Prompts, dest \in Slots \cup {NoSlot}, snapPos \in 0 .. MaxPrompt :
        \/ GenerateFresh(prompt, dest, snapPos)
        \/ \E slot \in Slots :
             \/ RestoreDelta(slot, prompt, dest, snapPos)
             \/ RestoreExact(slot, prompt, dest, snapPos)
             \/ RestoreShorter(slot, prompt, dest, snapPos)
  <2>1. \A prompt, lcp, dest, snapPos : ~GenerateContinue(prompt, lcp, dest, snapPos)
    BY NoContinuation DEF GenerateContinue
  <2>2. \A prompt, dest, snapPos : ~GenerateExact(prompt, dest, snapPos)
    BY NoContinuation DEF GenerateExact
  <2>3. \A slot, prompt, dest, snapPos : ~RestoreRefused(slot, prompt, dest, snapPos)
    BY NoContinuation DEF RestoreRefused
  <2> QED BY <2>1, <2>2, <2>3 DEF Start
<1>2. snaps' = Freed(snaps, dest)
  BY <1>1 DEF GenerateFresh, RestoreDelta, RestoreExact, RestoreShorter
<1>3. SnapshotFaithful /\ SnapshotFaithful'
  BY <1>2, FreedFaithful DEF DenseInv
<1>4. prompt \in Seq(Token) /\ Len(prompt) \in 1 .. MaxPrompt
  BY PromptType
<1>5. SubSeq(prompt, 1, 0) = <<>>
  BY <1>4, SubSeqEmpty
<1>6. CASE GenerateFresh(prompt, dest, snapPos)
  <2>1. BeginPrefill(pool, prompt, 0, FALSE, dest, snapPos) /\ rec' = <<>>
    BY <1>6 DEF GenerateFresh
  <2>2. /\ phase' = "prefill" /\ text' = prompt /\ plen' = Len(prompt)
        /\ committed' = 0 /\ job'.offset = 0 /\ ~job'.paged
    BY <2>1, NoContinuation DEF BeginPrefill
  <2>3. DensePrefill'
    BY <2>1, <2>2, <1>4, <1>5 DEF DensePrefill, RowsOf
  <2> QED BY <2>2, <2>3, <1>3 DEF DenseInv, DenseDecode
<1>7. ASSUME NEW slot \in Slots, RestoreShorter(slot, prompt, dest, snapPos)
      PROVE  DenseInv'
  <2>1. /\ BeginPrefill(Restored(snaps[slot]), prompt, 0, FALSE, dest, snapPos)
        /\ rec' = <<>>
    BY <1>7 DEF RestoreShorter
  <2>2. /\ phase' = "prefill" /\ text' = prompt /\ plen' = Len(prompt)
        /\ committed' = 0 /\ job'.offset = 0 /\ ~job'.paged
    BY <2>1, NoContinuation DEF BeginPrefill
  <2>3. DensePrefill'
    BY <2>1, <2>2, <1>4, <1>5 DEF DensePrefill, RowsOf
  <2> QED BY <2>2, <2>3, <1>3 DEF DenseInv, DenseDecode
<1>8. ASSUME NEW slot \in Slots, CanRestore(slot, prompt, dest, snapPos),
             snaps[slot].pos <= Len(prompt)
      PROVE  /\ RowsOf(Restored(snaps[slot]), prompt, snaps[slot].pos)
             /\ snaps[slot].rec = SubSeq(prompt, 1, snaps[slot].pos)
             /\ snaps[slot].pos = Len(prompt) =>
                  snaps[slot].last = Context(prompt, Len(prompt))
  <2> DEFINE S == snaps[slot]
  <2>1. S \in Snapshot /\ pool \in Pool
    BY DEF IInv, TypeOK
  <2>2. S.pos > 0 /\ IsPrefix(S.key, prompt)
    BY <1>8 DEF CanRestore
  <2>3. IsFaithful(S)
    BY <2>2, <1>3 DEF SnapshotFaithful
  <2>4. /\ S.key \in Seq(Token) /\ S.pos \in 0 .. MaxCtx /\ S.pos <= Len(S.key)
        /\ Len(S.key) <= Len(prompt)
        /\ \A i \in 1 .. S.pos : S.key[i] = prompt[i]
    BY <2>1, <2>2, <2>3 DEF Snapshot, IsFaithful, IsPrefix
  <2>5. /\ Context(S.key, S.pos) = Context(prompt, S.pos)
        /\ SubSeq(S.key, 1, S.pos) = SubSeq(prompt, 1, S.pos)
    <3>1. S.pos \in Nat /\ S.pos <= Len(prompt)
      BY <2>4, <1>4
    <3> HIDE DEF S
    <3> QED BY <2>4, <3>1, <1>4, SamePrefix
  <2>6. /\ S.rows = Context(prompt, S.pos) /\ S.rec = SubSeq(prompt, 1, S.pos)
        /\ S.pos = Len(S.key) => S.last = Context(prompt, S.pos)
    BY <2>3, <2>5 DEF IsFaithful
  <2>7. S.pos = Len(prompt) => S.pos = Len(S.key)
    BY <2>4, <1>4
  <2>8. \A p \in 1 .. S.pos : Restored(S).rows[p] = S.rows[p]
    BY <2>1, <2>4 DEF Restored, Pool, Row
  <2>9. RowsOf(Restored(S), prompt, S.pos)
    BY <2>6, <2>8 DEF RowsOf, Context
  <2> QED BY <2>6, <2>7, <2>9
<1>9. ASSUME NEW slot \in Slots, RestoreDelta(slot, prompt, dest, snapPos)
       PROVE  DenseInv'
  <2> DEFINE S == snaps[slot]
  <2>1. /\ CanRestore(slot, prompt, dest, snapPos) /\ Len(prompt) > S.pos
        /\ rec' = S.rec /\ curPos' = S.pos
        /\ BeginPrefill(Restored(S), prompt, S.pos, FALSE, dest, snapPos)
    BY <1>9 DEF RestoreDelta, LoadSnapshot
  <2>2. S.pos \in Nat
    BY DEF IInv, TypeOK, Snapshot
  <2>3. RowsOf(Restored(S), prompt, S.pos) /\ S.rec = SubSeq(prompt, 1, S.pos)
    BY <2>1, <2>2, <1>4, <1>8
  <2>4. /\ phase' = "prefill" /\ text' = prompt /\ plen' = Len(prompt)
        /\ committed' = S.pos /\ job'.offset = S.pos /\ ~job'.paged /\ pool' = Restored(S)
    BY <2>1, NoContinuation DEF BeginPrefill
  <2> HIDE DEF S
  <2>5. DensePrefill'
    BY <2>1, <2>2, <2>3, <2>4, <1>4 DEF DensePrefill
  <2> QED BY <2>4, <2>5, <1>3 DEF DenseInv, DenseDecode
<1>10. ASSUME NEW slot \in Slots, RestoreExact(slot, prompt, dest, snapPos)
       PROVE  DenseInv'
  <2> DEFINE S == snaps[slot]
  <2>1. /\ CanRestore(slot, prompt, dest, snapPos) /\ Len(prompt) = S.pos
        /\ rec' = S.rec /\ curPos' = S.pos /\ last' = S.last /\ pool' = Restored(S)
        /\ phase' = "decode" /\ text' = prompt /\ plen' = Len(prompt)
        /\ committed' = Len(prompt)
    BY <1>10 DEF RestoreExact, LoadSnapshot, BeginExact
  <2>2. /\ RowsOf(Restored(S), prompt, S.pos) /\ S.rec = SubSeq(prompt, 1, S.pos)
        /\ S.last = Context(prompt, Len(prompt))
    BY <2>1, <1>4, <1>8
  <2> HIDE DEF S
  <2> QED BY <2>1, <2>2, <1>3 DEF DenseInv, DensePrefill, DenseDecode
<1> QED BY <1>1, <1>6, <1>7, <1>9, <1>10

\* The snapshot branch of the chunk loop saves what the request has served.
LEMMA DenseBoundarySnapshot ==
    ASSUME ~KvFlash, IInv, DenseInv, phase = "prefill", BoundarySnapshot
    PROVE  SnapshotFaithful'
<1>1. CASE snaps' = snaps
  BY <1>1 DEF DenseInv, SnapshotFaithful
<1>2. CASE /\ SnapDue /\ committed > job.offset
           /\ snaps' = Saved(job.dest, SnapKey, pool, committed)
  <2>1. /\ text \in Seq(Token) /\ committed \in 0 .. MaxCtx /\ Len(text) = plen
        /\ job.snapPos \in 0 .. plen /\ committed <= job.snapPos /\ plen \in Nat
    BY <1>2 DEF SnapDue, IInv, TypeOK, Shape, JobShape, Job
  <2>2. /\ SnapKey \in Seq(Token) /\ Len(SnapKey) = job.snapPos
        /\ \A i \in 1 .. job.snapPos : SnapKey[i] = text[i]
    BY <2>1, SubSeqProperties DEF SnapKey
  <2>3. committed <= Len(SnapKey) /\ \A i \in 1 .. committed : SnapKey[i] = text[i]
    BY <2>1, <2>2
  <2>4. /\ RowsOf(pool, text, committed) /\ rec = SubSeq(text, 1, committed)
        /\ last = Context(text, committed) /\ SnapshotFaithful
    BY <1>2 DEF DenseInv, DensePrefill
  <2>5. /\ Context(SnapKey, committed) = Context(text, committed)
        /\ SubSeq(SnapKey, 1, committed) = SubSeq(text, 1, committed)
    <3>1. committed \in Nat /\ committed <= Len(text)
      BY <2>1
    <3> QED BY <2>1, <2>2, <2>3, <3>1, SamePrefix
  <2>6. RowsOf(pool, SnapKey, committed)
    BY <2>3, <2>4 DEF RowsOf
  <2> QED BY <1>2, <2>1, <2>2, <2>3, <2>4, <2>5, <2>6, SavedFaithful DEF SnapshotFaithful
<1> QED BY <1>1, <1>2 DEF BoundarySnapshot

\* A chunk extends the rows and the recurrent state by its own tokens.
LEMMA DensePrefillChunk ==
    ASSUME ~KvFlash, IInv, DenseInv, PrefillChunk \/ PrefillPagedChunk
    PROVE  DenseInv'
<1> DEFINE n == ChunkLen
           P == Written(pool, committed + n)
<1>1. /\ phase = "prefill" /\ committed < plen /\ BoundarySnapshot
      /\ Absorb(P, IdentityView(P, committed + n), n)
  BY DEF PrefillChunk, PrefillPagedChunk, DenseInv, DensePrefill
<1>2. /\ text \in Seq(Token) /\ Len(text) = plen /\ plen \in Nat /\ plen <= MaxCtx
      /\ committed \in Nat /\ job.offset \in Nat /\ job.offset <= committed
      /\ n \in Nat \ {0} /\ committed + n <= plen /\ pool \in Pool
  BY <1>1, ChunkLenType DEF IInv, TypeOK, Shape, JobShape, Job
<1>3. /\ ~job.paged /\ job.offset < plen /\ RowsOf(pool, text, committed)
      /\ rec = SubSeq(text, 1, committed)
  BY <1>1 DEF DenseInv, DensePrefill
<1>4. RowsOf(P, text, committed + n)
  <2> SUFFICES ASSUME NEW p \in 1 .. committed + n
               PROVE  P.rows[p] = CellOf(p, text[p])
    BY DEF RowsOf
  <2>1. p \in Row /\ P.rows[p] = IF p \in committed + 1 .. committed + n
                                 THEN CellOf(p, text[p]) ELSE pool.rows[p]
    BY <1>2 DEF Written, Pool, Row
  <2>2. CASE p \in committed + 1 .. committed + n
    BY <2>1, <2>2
  <2>3. CASE p \in 1 .. committed
    BY <1>2, <1>3, <2>1, <2>3 DEF RowsOf
  <2> QED BY <1>2, <2>2, <2>3
<1>5. P \in Pool
  BY <1>1, <1>2, WrittenType
<1>6. IdentityView(P, committed + n) = Context(text, committed + n)
  <2> HIDE DEF P
  <2> QED BY <1>2, <1>4, <1>5, ViewIsContext
<1>7. SubSeq(text, 1, committed) \o SubSeq(text, committed + 1, committed + n)
        = SubSeq(text, 1, committed + n)
  <2>1. CASE committed = 0
    <3>1. SubSeq(text, 1, 0) = <<>>
      BY SubSeqEmpty
    <3>2. SubSeq(text, 1, n) \in Seq(Token)
      BY <1>2, <2>1, SubSeqProperties
    <3> HIDE DEF n
    <3> QED BY <1>2, <2>1, <3>1, <3>2, ConcatEmptySeq
  <2>2. CASE committed # 0
    <3> HIDE DEF n
    <3>1. /\ 1 \in 1 .. Len(text) + 1 /\ committed \in 1 .. Len(text)
          /\ committed + n \in committed .. Len(text)
      BY <1>2, <2>2
    <3> QED BY <1>2, <3>1, ConcatAdjacentSubSeq
  <2> QED BY <2>1, <2>2
<1>8. /\ job'.offset = job.offset /\ ~job'.paged
  BY <1>1, <1>3, BoundarySnapshotType
<1>9. /\ phase' = "prefill" /\ text' = text /\ plen' = plen /\ pool' = P
      /\ committed' = committed + n /\ curPos' = committed + n
      /\ rec' = rec \o SubSeq(text, committed + 1, committed + n)
      /\ last' = IdentityView(P, committed + n)
  BY <1>1 DEF Absorb
<1>10. SnapshotFaithful'
  BY <1>1, DenseBoundarySnapshot
<1> HIDE DEF n, P
<1>11. DensePrefill'
  BY <1>2, <1>3, <1>4, <1>6, <1>7, <1>8, <1>9 DEF DensePrefill
<1> QED BY <1>9, <1>10, <1>11 DEF DenseInv, DenseDecode

\* After the prefill they are those of the prompt.
LEMMA DenseEndPrefill ==
    ASSUME ~KvFlash, IInv, DenseInv, NEW cancelled \in BOOLEAN, EndPrefill(cancelled)
    PROVE  DenseInv'
<1>1. /\ phase = "prefill" /\ SnapshotFaithful
      /\ UNCHANGED <<pool, rec, curPos, last>>
  BY DEF EndPrefill, DenseInv
<1>2. CASE cancelled
  <2>1. Leave /\ snaps' = Freed(snaps, job.dest)
    BY <1>2 DEF EndPrefill
  <2> QED BY <2>1, <1>1, FreedFaithful, LeaveDense
<1>3. CASE ~cancelled
  <2>1. /\ committed = plen /\ phase' = "decode" /\ text' = text /\ plen' = plen
        /\ committed' = committed
        /\ snaps' = IF job.pending /\ job.snapPos = committed
                    THEN Saved(job.dest, SnapKey, pool', curPos) ELSE snaps
    BY <1>3 DEF EndPrefill
  <2>2. /\ text \in Seq(Token) /\ Len(text) = plen /\ plen \in 0 .. MaxCtx
        /\ job.offset \in Nat
    BY <1>1 DEF IInv, TypeOK, Shape, JobShape, Job
  <2>3. /\ RowsOf(pool, text, plen) /\ rec = SubSeq(text, 1, plen)
        /\ curPos = plen /\ last = Context(text, plen)
    BY <1>1, <2>1, <2>2 DEF DenseInv, DensePrefill
  <2>4. SnapshotFaithful'
    <3>1. CASE job.snapPos = committed
      <4>1. SnapKey = text
        BY <2>1, <2>2, <3>1, SubSeqFull DEF SnapKey
      <4>2. \A s \in Slots : Saved(job.dest, text, pool, plen)[s].pos > 0 =>
                               IsFaithful(Saved(job.dest, text, pool, plen)[s])
        BY <1>1, <2>2, <2>3, SavedFaithful
      <4>3. snaps' = snaps \/ snaps' = Saved(job.dest, text, pool, plen)
        BY <1>1, <2>1, <2>3, <4>1
      <4> QED BY <1>1, <4>2, <4>3 DEF SnapshotFaithful
    <3>2. CASE job.snapPos # committed
      BY <1>1, <2>1, <3>2 DEF SnapshotFaithful
    <3> QED BY <3>1, <3>2
  <2> QED BY <1>1, <2>1, <2>2, <2>3, <2>4 DEF DenseInv, DensePrefill, DenseDecode
<1> QED BY <1>2, <1>3

\* Emitting a token leaves what was served of the text before it alone.
LEMMA AppendPrefix ==
    ASSUME NEW s \in Seq(Token), NEW t \in Token, NEW n \in Nat, n <= Len(s)
    PROVE  /\ Context(Append(s, t), n) = Context(s, n)
           /\ SubSeq(Append(s, t), 1, n) = SubSeq(s, 1, n)
           /\ \A p \in 1 .. n : Append(s, t)[p] = s[p]
<1>1. /\ Append(s, t) \in Seq(Token) /\ Len(Append(s, t)) = Len(s) + 1
      /\ \A i \in 1 .. Len(s) : Append(s, t)[i] = s[i]
  BY AppendProperties
<1>2. n <= Len(Append(s, t)) /\ \A i \in 1 .. n : Append(s, t)[i] = s[i]
  BY <1>1
<1> QED BY <1>1, <1>2, SamePrefix

\* A token of the answer is added to all three alike.
LEMMA DenseDecodeToken ==
    ASSUME ~KvFlash, IInv, DenseInv, NEW t \in Token,
           DecodeFirst(t) \/ DecodeStep(t)
    PROVE  DenseInv'
<1>1. /\ phase = "decode" /\ phase' = "decode" /\ text' = Append(text, t)
      /\ plen' = plen /\ last' = last /\ snaps' = snaps
  BY DEF DecodeFirst, DecodeStep, cache
<1>2. /\ text \in Seq(Token) /\ plen \in Nat /\ plen <= Len(text) /\ committed \in Nat
      /\ committed <= Len(text) /\ pool \in Pool /\ Len(text) <= MaxCtx
  BY DEF IInv, TypeOK
<1>3. /\ RowsOf(pool, text, committed) /\ rec = SubSeq(text, 1, committed)
      /\ curPos = committed /\ last = Context(text, plen) /\ SnapshotFaithful
  BY <1>1 DEF DenseInv, DenseDecode
<1>4. last' = Context(text', plen')
  BY <1>1, <1>2, <1>3, AppendPrefix
<1>5. SnapshotFaithful'
  BY <1>1, <1>3 DEF SnapshotFaithful
<1>6. /\ RowsOf(pool', text', committed')
      /\ rec' = SubSeq(text', 1, committed') /\ curPos' = committed'
  <2>1. CASE DecodeFirst(t)
    <3>1. pool' = pool /\ rec' = rec /\ curPos' = curPos /\ committed' = committed
      BY <2>1 DEF DecodeFirst, cache
    <3>2. /\ SubSeq(text', 1, committed) = SubSeq(text, 1, committed)
          /\ \A p \in 1 .. committed : text'[p] = text[p]
      BY <1>1, <1>2, AppendPrefix
    <3> QED BY <1>3, <3>1, <3>2 DEF RowsOf
  <2>2. CASE DecodeStep(t)
    <3> DEFINE n == committed + 1
    <3>1. /\ Len(text) = n /\ committed' = n /\ curPos' = n
          /\ rec' = Append(rec, text[n]) /\ pool' = WriteRow(pool, n, CellOf(n, text[n]))
      BY <2>2 DEF DecodeStep, Forwarded
    <3>2. /\ SubSeq(text', 1, n) = SubSeq(text, 1, n)
          /\ \A p \in 1 .. n : text'[p] = text[p]
      BY <1>1, <1>2, <3>1, AppendPrefix
    <3>3. RowsOf(pool', text', n)
      <4>1. n \in Row /\ \A p \in 1 .. n : p \in Row
        BY <1>2, <3>1 DEF Row
      <4> SUFFICES ASSUME NEW p \in 1 .. n
                   PROVE  pool'.rows[p] = CellOf(p, text'[p])
        BY DEF RowsOf
      <4>2. pool'.rows[p] = IF p = n THEN CellOf(n, text[n]) ELSE pool.rows[p]
        BY <1>2, <3>1, <4>1 DEF WriteRow, Pool
      <4>3. p # n => p \in 1 .. committed
        BY <1>2
      <4> QED BY <1>3, <3>2, <4>2, <4>3 DEF RowsOf
    <3>4. rec' = SubSeq(text, 1, n)
      <4>1. /\ rec \in Seq(Token) /\ text[n] \in Token /\ 1 \in 1 .. Len(text)
            /\ n \in 1 .. Len(text) /\ n - 1 = committed
        BY <1>2, <3>1, ElementOfSeq DEF IInv, TypeOK
      <4>2. SubSeq(text, 1, n) = SubSeq(text, 1, n - 1) \o << text[n] >>
        BY <1>2, <4>1, SubSeqRecursiveSecond
      <4>3. Append(rec, text[n]) = rec \o << text[n] >>
        BY <4>1, AppendIsConcat
      <4> QED BY <1>3, <3>1, <4>1, <4>2, <4>3
    <3> HIDE DEF n
    <3> QED BY <3>1, <3>2, <3>3, <3>4
  <2> QED BY <2>1, <2>2
<1> QED BY <1>1, <1>4, <1>5, <1>6 DEF DenseInv, DensePrefill, DenseDecode

\* A checkpoint is one token short of its key.
LEMMA DenseEnd ==
    ASSUME ~KvFlash, IInv, DenseInv,
           \/ \E discarded \in BOOLEAN : DecodeEnd(discarded)
           \/ \E slot \in Slots : DecodeCheckpoint(slot)
           \/ Fail
    PROVE  DenseInv'
<1>1. Leave /\ SnapshotFaithful
  BY DEF DecodeEnd, DecodeCheckpoint, Fail, DenseInv
<1>2. CASE snaps' = snaps \/ snaps' = Freed(snaps, job.dest)
  <2>1. SnapshotFaithful'
    BY <1>1, <1>2, FreedFaithful DEF SnapshotFaithful
  <2> QED BY <1>1, <2>1, LeaveDense
<1>3. ASSUME NEW slot \in Slots, DecodeCheckpoint(slot)
      PROVE  DenseInv'
  <2>1. /\ phase = "decode" /\ Len(text) > plen
        /\ snaps' = Saved(slot, text, pool, curPos)
    BY <1>3 DEF DecodeCheckpoint, CheckpointKey
  <2>2. /\ text \in Seq(Token) /\ committed \in 0 .. MaxCtx
        /\ committed = Len(text) - 1
    BY <2>1 DEF IInv, TypeOK, Shape, JobShape
  <2>3. /\ RowsOf(pool, text, committed) /\ rec = SubSeq(text, 1, committed)
        /\ curPos = committed
    BY <2>1 DEF DenseInv, DenseDecode
  <2>4. committed <= Len(text) /\ committed # Len(text)
    BY <2>2
  <2>5. \A s \in Slots : Saved(slot, text, pool, committed)[s].pos > 0 =>
                           IsFaithful(Saved(slot, text, pool, committed)[s])
    BY <1>1, <2>2, <2>3, <2>4, SavedFaithful
  <2>6. SnapshotFaithful'
    BY <2>1, <2>3, <2>5 DEF SnapshotFaithful
  <2> QED BY <1>1, <2>6, LeaveDense
<1> QED BY <1>2, <1>3 DEF DecodeEnd, Fail

\* Every step keeps the dense invariant.
LEMMA DenseNext == ASSUME ~KvFlash PROVE IInv /\ DenseInv /\ [Next]_vars => DenseInv'
<1> SUFFICES ASSUME IInv, DenseInv, [Next]_vars PROVE DenseInv'
  OBVIOUS
<1>1. CASE Start
  BY <1>1, DenseStart
<1>2. CASE Prefill
  BY <1>2, DensePrefillChunk, DenseEndPrefill DEF Prefill
<1>3. CASE Decode
  BY <1>3, DenseDecodeToken, DenseEnd DEF Decode
<1>4. CASE Fail
  BY <1>4, DenseEnd
<1>5. CASE UNCHANGED vars
  BY <1>5 DEF vars, serving, cache, DenseInv, DensePrefill, DenseDecode,
              SnapshotFaithful, RowsOf, Context
<1> QED BY <1>1, <1>2, <1>3, <1>4, <1>5 DEF Next

\* Without --kvflash it holds in every behaviour.
LEMMA DenseInductive == ASSUME ~KvFlash PROVE Spec => []DenseInv
<1>1. Init => DenseInv
  BY DEF Init, DenseInv, DensePrefill, DenseDecode, SnapshotFaithful, NoSnap
<1> QED BY <1>1, DenseNext, Inductive, PTL DEF Spec

\* Without KVFlash, decode attends only to rows that hold this request's own
\* token at their position, whatever earlier requests, snapshot restores,
\* cancellations and failures left in the cache (do_prefill,
\* restore_and_generate_impl, do_ar_decode).
THEOREM DenseServedKv == ASSUME ~KvFlash PROVE Spec => []ServedKv
<1>1. DenseInv => ServedKv
  BY DEF DenseInv, DenseDecode, ServedKv, RowOf, RowsOf
<1> QED BY <1>1, DenseInductive, PTL

\* Without KVFlash, the delta-net recurrent state has absorbed exactly the
\* tokens in front of the next position while decode runs: the reset in
\* generate_impl and the copy in restore_target_cache leave none over.
THEOREM DenseServedRecurrent == ASSUME ~KvFlash PROVE Spec => []ServedRecurrent
<1>1. DenseInv => ServedRecurrent
  BY DEF DenseInv, DenseDecode, ServedRecurrent
<1> QED BY <1>1, DenseInductive, PTL

\* Without KVFlash, a greedy answer starts with the token predicted for its
\* own whole prompt, on exact snapshot hits too.
THEOREM DenseFirstToken == ASSUME ~KvFlash PROVE Spec => []FirstTokenOfPrompt
<1>1. IInv /\ DenseInv => FirstTokenOfPrompt
  BY DEF IInv, TypeOK, DenseInv, DenseDecode, FirstTokenOfPrompt, Covers, Context
<1> QED BY <1>1, Inductive, DenseInductive, PTL

\* Without KVFlash, every prefix snapshot, boundary, end-of-prefill or
\* checkpoint, is what prefilling a prefix of its key would have produced.
THEOREM DenseSnapshots == ASSUME ~KvFlash PROVE Spec => []SnapshotFaithful
<1>1. DenseInv => SnapshotFaithful
  BY DEF DenseInv
<1> QED BY <1>1, DenseInductive, PTL

-----------------------------------------------------------------------------
(***************************************************************************)
(* Part 3.  With KVFlash, a continuation trusts the live pool.  It may, if *)
(* snapshots are not restored, nothing fails on the device (requests may   *)
(* be cancelled and clients may leave), prompts have one length, and       *)
(* either nothing ever outgrows the pool or every prompt does.  The README *)
(* names, for each condition, a behaviour that breaks the record without   *)
(* it.                                                                     *)
(***************************************************************************)

\* Prompts fit the pool, and so does every row an answer is given.
AllFits == MaxPrompt < PoolTokens /\ MaxCtx <= PoolTokens + 1

LivePool ==
    /\ KvFlash /\ ~Restores /\ ~Failures
    /\ MinPrompt = MaxPrompt
    /\ AllFits \/ PoolTokens <= MaxPrompt

\* No two positions share a row.
OwnRows(P) == \A p, q \in Resident(P) : P.block[p] = P.block[q] => p = q

\* The first n positions hold s, in their row or in their host copy.
Holds(P, s, n) ==
    \A p \in 1 .. n :
      IF P.block[p] = NotResident THEN P.host[p] \in {Blank, CellOf(p, s[p])}
      ELSE P.rows[P.block[p]] = CellOf(p, s[p])

\* A pool that never evicted: positions have the row of their number.
Filled(P, n) == \A p \in 1 .. n : P.block[p] = p
InOrder(P) ==
    /\ P.host = NoHost
    /\ \A p \in Resident(P) : P.block[p] = p /\ Filled(P, p)

Agree(s, t, n) == \A i \in 1 .. n : s[i] = t[i]

LiveIdle ==
    phase = "idle" =>
      /\ Holds(pool, history, boundary)
      /\ AllFits => Filled(pool, boundary)

LivePrefill ==
    phase = "prefill" =>
      /\ plen = MaxPrompt
      /\ job.paged = ~AllFits
      /\ IF job.cont THEN Agree(history, text, job.offset) ELSE job.offset = 0
      /\ ~AllFits => Holds(pool, text, committed)
      /\ AllFits => \A p \in 1 .. committed : pool.rows[p] = CellOf(p, text[p])
      /\ AllFits /\ job.cont => Filled(pool, job.offset)

LiveDecode ==
    phase = "decode" =>
      /\ plen = MaxPrompt /\ boundary = MaxPrompt
      /\ Agree(history, text, plen)
      /\ Holds(pool, text, committed)
      /\ AllFits => Filled(pool, committed)

LiveInv ==
    /\ OwnRows(pool)
    /\ AllFits => InOrder(pool)
    /\ LiveIdle /\ LivePrefill /\ LiveDecode

-----------------------------------------------------------------------------
(* Paging loses nothing *)

\* What is held of one sequence is held of another one that starts the same.
LEMMA HoldsAgree ==
    ASSUME NEW P, NEW s, NEW t, NEW n \in Nat, NEW m \in Nat, m <= n,
           Holds(P, s, n), Agree(s, t, m)
    PROVE  Holds(P, t, m)
<1>1. \A p \in 1 .. m : p \in 1 .. n /\ CellOf(p, t[p]) = CellOf(p, s[p])
  BY DEF Agree
<1> HIDE DEF CellOf
<1> QED BY <1>1 DEF Holds

\* Evicting a chunk leaves its row to nobody and its content to the host.
LEMMA PageOutHolds ==
    ASSUME NEW P \in Pool, OwnRows(P), NEW s, NEW n \in Nat, n <= MaxCtx,
           Holds(P, s, n), NEW v \in Resident(P)
    PROVE  /\ OwnRows(PageOut(P, v)) /\ Holds(PageOut(P, v), s, n)
           /\ v \notin Resident(PageOut(P, v))
           /\ \A q \in Resident(PageOut(P, v)) : PageOut(P, v).block[q] # P.block[v]
<1> DEFINE O == PageOut(P, v)
<1>1. v \in Pos /\ P.block[v] # NotResident
  BY DEF Resident
<1>2. /\ \A q \in Pos : O.block[q] = IF q = v THEN NotResident ELSE P.block[q]
      /\ \A q \in Pos : O.host[q] = IF q = v THEN P.rows[P.block[v]] ELSE P.host[q]
      /\ O.rows = P.rows
  BY <1>1 DEF PageOut, Pool
<1> HIDE DEF O
<1>3. \A q \in Resident(O) : q \in Resident(P) /\ q # v /\ O.block[q] = P.block[q]
  BY <1>1, <1>2 DEF Resident
<1>4. OwnRows(O) /\ v \notin Resident(O)
  BY <1>3 DEF OwnRows
<1>5. \A q \in Resident(O) : O.block[q] # P.block[v]
  BY <1>3 DEF OwnRows
<1>6. Holds(O, s, n)
  <2> SUFFICES ASSUME NEW p \in 1 .. n
               PROVE  IF O.block[p] = NotResident THEN O.host[p] \in {Blank, CellOf(p, s[p])}
                      ELSE O.rows[O.block[p]] = CellOf(p, s[p])
    BY DEF Holds
  <2>1. p \in Pos
    BY DEF Pos
  <2> QED BY <1>1, <1>2, <2>1 DEF Holds
<1> QED BY <1>4, <1>5, <1>6 DEF O

\* A chunk that comes back into a row nobody has brings its content along,
\* unless it is the one that is about to be written.
LEMMA PageInHolds ==
    ASSUME NEW P \in Pool, OwnRows(P), NEW s, NEW n \in Nat, n <= MaxCtx,
           Holds(P, s, n), NEW p \in Pos, p \notin Resident(P), NEW r \in Row,
           \A q \in Resident(P) : P.block[q] # r,
           n < p \/ P.host[p] # Blank
    PROVE  OwnRows(PageIn(P, p, r)) /\ Holds(PageIn(P, p, r), s, n)
<1> DEFINE I == PageIn(P, p, r)
<1>1. r # NotResident /\ p \in Nat
  BY DEF Row, Pos, NotResident
<1>2. /\ \A q \in Pos : I.block[q] = IF q = p THEN r ELSE P.block[q]
      /\ I.host = P.host
      /\ \A x \in Row : x # r => I.rows[x] = P.rows[x]
      /\ P.host[p] # Blank => I.rows[r] = P.host[p]
  BY DEF PageIn, Pool
<1> HIDE DEF I
<1>3. \A q \in Resident(I) : q = p \/ (q \in Resident(P) /\ I.block[q] = P.block[q])
  BY <1>2 DEF Resident
<1>4. I.block[p] = r
  BY <1>2
<1>5. OwnRows(I)
  BY <1>3, <1>4 DEF OwnRows
<1>6. Holds(I, s, n)
  <2> SUFFICES ASSUME NEW q \in 1 .. n
               PROVE  IF I.block[q] = NotResident THEN I.host[q] \in {Blank, CellOf(q, s[q])}
                      ELSE I.rows[I.block[q]] = CellOf(q, s[q])
    BY DEF Holds
  <2>1. q \in Pos
    BY DEF Pos
  <2>2. CASE q = p
    <3>1. P.block[q] = NotResident /\ P.host[q] # Blank
      BY <1>1, <2>1, <2>2 DEF Resident
    <3>2. P.host[q] = CellOf(q, s[q])
      BY <3>1 DEF Holds
    <3> QED BY <1>1, <1>2, <1>4, <2>2, <3>1, <3>2
  <2>3. CASE q # p /\ q \in Resident(P)
    <3>1. P.block[q] \in Row /\ P.block[q] # r /\ P.block[q] # NotResident
      BY <2>1, <2>3 DEF Resident, Pool
    <3> QED BY <1>2, <2>1, <2>3, <3>1 DEF Holds
  <2>4. CASE q # p /\ q \notin Resident(P)
    <3>1. P.block[q] = NotResident
      BY <2>1, <2>4 DEF Resident
    <3> QED BY <1>2, <2>1, <2>4, <3>1 DEF Holds
  <2> QED BY <2>2, <2>3, <2>4
<1> QED BY <1>5, <1>6 DEF I

\* slot_for for the next position loses none of the ones before it.
LEMMA SlotForHolds ==
    ASSUME NEW P \in Pool, OwnRows(P), NEW s, NEW n \in Nat, Holds(P, s, n),
           NEW p \in Pos, n < p, NEW Q \in SlotFor(P, p)
    PROVE  OwnRows(Q) /\ Holds(Q, s, n)
<1>1. n <= MaxCtx /\ p \in Nat
  BY DEF Pos
<1>2. CASE p \in Resident(P)
  BY <1>2 DEF SlotFor
<1>3. CASE p \notin Resident(P) /\ FreeRows(P) # {}
  <2>1. PICK r \in FreeRows(P) : Q = PageIn(P, p, r)
    BY <1>3 DEF SlotFor
  <2>2. r \in Row /\ \A q \in Resident(P) : P.block[q] # r
    BY DEF FreeRows
  <2> QED BY <1>1, <1>3, <2>1, <2>2, PageInHolds
<1>4. CASE p \notin Resident(P) /\ FreeRows(P) = {}
  <2>1. PICK v \in Resident(P) : Q = PageIn(PageOut(P, v), p, P.block[v])
    BY <1>4 DEF SlotFor
  <2> DEFINE O == PageOut(P, v)
             r == P.block[v]
  <2>2. O \in Pool /\ r \in Row
    BY PageOutType
  <2>3. /\ OwnRows(O) /\ Holds(O, s, n) /\ \A q \in Resident(O) : O.block[q] # r
    BY <1>1, PageOutHolds
  <2>4. p \notin Resident(O)
    <3>1. v \in Pos /\ v # p
      BY <1>4 DEF Resident
    <3>2. O.block[p] = P.block[p]
      BY <3>1 DEF PageOut, Pool
    <3> HIDE DEF O
    <3> QED BY <1>4, <3>2 DEF Resident
  <2>5. Q = PageIn(O, p, r)
    BY <2>1
  <2> HIDE DEF O, r
  <2> QED BY <1>1, <2>2, <2>3, <2>4, <2>5, PageInHolds
<1> QED BY <1>2, <1>3, <1>4

\* A rescoring swaps chunks with what they hold.
LEMMA ReselectHolds ==
    ASSUME NEW P \in Pool, OwnRows(P), NEW s, NEW n \in Nat, n <= MaxCtx,
           Holds(P, s, n), NEW Q \in Reselect(P)
    PROVE  OwnRows(Q) /\ Holds(Q, s, n)
<1>1. CASE Q = P
  BY <1>1
<1>2. CASE Q # P
  <2>1. PICK v \in Resident(P), w \in {q \in Pos \ Resident(P) : P.host[q] # Blank} :
          Q = PageIn(PageOut(P, v), w, P.block[v])
    BY <1>2 DEF Reselect
  <2> DEFINE O == PageOut(P, v)
             r == P.block[v]
  <2>2. O \in Pool /\ r \in Row
    BY PageOutType
  <2>3. /\ OwnRows(O) /\ Holds(O, s, n) /\ \A q \in Resident(O) : O.block[q] # r
    BY PageOutHolds
  <2>4. w \in Pos /\ w \notin Resident(O) /\ O.host[w] # Blank
    <3>1. v \in Pos /\ v # w /\ w \in Pos
      BY DEF Resident
    <3>2. O.block[w] = P.block[w] /\ O.host[w] = P.host[w]
      BY <3>1 DEF PageOut, Pool
    <3> HIDE DEF O
    <3> QED BY <3>1, <3>2 DEF Resident
  <2>5. Q = PageIn(O, w, r)
    BY <2>1
  <2> HIDE DEF O, r
  <2> QED BY <2>2, <2>3, <2>4, <2>5, PageInHolds
<1> QED BY <1>1, <1>2

\* The row of the next position is written; no other position has it.
LEMMA WriteHolds ==
    ASSUME NEW P \in Pool, OwnRows(P), NEW s, NEW n \in Nat, n + 1 \in Pos,
           Holds(P, s, n), P.block[n + 1] \in Row
    PROVE  LET W == WriteRow(P, P.block[n + 1], CellOf(n + 1, s[n + 1]))
           IN  OwnRows(W) /\ Holds(W, s, n + 1)
<1> DEFINE r == P.block[n + 1]
           c == CellOf(n + 1, s[n + 1])
           W == WriteRow(P, r, c)
<1>1. /\ W.block = P.block /\ W.host = P.host
      /\ W.rows[r] = c /\ \A x \in Row : x # r => W.rows[x] = P.rows[x]
  BY DEF WriteRow, Pool
<1>2. r # NotResident
  BY DEF Row, NotResident
<1> HIDE DEF W
<1>3. OwnRows(W)
  BY <1>1 DEF OwnRows, Resident
<1>4. Holds(W, s, n + 1)
  <2> SUFFICES ASSUME NEW p \in 1 .. n + 1
               PROVE  IF W.block[p] = NotResident THEN W.host[p] \in {Blank, CellOf(p, s[p])}
                      ELSE W.rows[W.block[p]] = CellOf(p, s[p])
    BY DEF Holds
  <2>1. CASE p = n + 1
    BY <1>1, <1>2, <2>1
  <2>2. CASE p # n + 1
    <3>1. p \in 1 .. n /\ p \in Pos
      BY <2>2 DEF Pos
    <3>2. P.block[p] # NotResident => P.block[p] \in Row /\ P.block[p] # r
      BY <1>2, <2>2, <3>1 DEF OwnRows, Resident, Pool
    <3> HIDE DEF r
    <3> QED BY <1>1, <3>1, <3>2 DEF Holds
  <2> QED BY <2>1, <2>2
<1> QED BY <1>3, <1>4 DEF W

\* While nothing was ever evicted, the next position gets the row of its
\* number.
LEMMA SlotForInOrder ==
    ASSUME KvFlash, NEW P \in Pool, InOrder(P), NEW n \in Nat, Filled(P, n),
           n + 1 \in Row, NEW Q \in SlotFor(P, n + 1)
    PROVE  InOrder(Q) /\ Filled(Q, n + 1)
<1> DEFINE p == n + 1
<1>1. p \in Pos /\ p # NotResident
  BY RowType DEF Row, NotResident
<1>2. CASE p \in Resident(P)
  BY <1>2 DEF SlotFor, InOrder
<1>3. CASE p \notin Resident(P)
  <2>1. \A q \in Resident(P) : q \in 1 .. n /\ P.block[q] = q
    <3> SUFFICES ASSUME NEW q \in Resident(P) PROVE q \in 1 .. n /\ P.block[q] = q
      OBVIOUS
    <3>1. q \in Pos /\ P.block[q] = q /\ Filled(P, q)
      BY DEF InOrder, Resident
    <3>2. ~(p <= q)
      <4>1. p <= q => P.block[p] = p
        BY <1>1, <3>1 DEF Filled, Pos
      <4> QED BY <1>1, <1>3, <4>1 DEF Resident
    <3> QED BY <3>1, <3>2 DEF Pos
  <2>2. \A q \in 1 .. n : q \in Resident(P) /\ P.block[q] = q
    BY <1>1 DEF Filled, Resident, Pos, NotResident
  <2>3. FreeRows(P) = {r \in Row : r > n}
    BY <2>1, <2>2 DEF FreeRows, Row
  <2>4. p \in FreeRows(P) /\ \A g \in FreeRows(P) : p <= g
    BY <2>3 DEF Row
  <2>5. PICK r \in FreeRows(P) : (\A g \in FreeRows(P) : r <= g) /\ Q = PageIn(P, p, r)
    BY <1>3, <2>4 DEF SlotFor
  <2>6. r = p
    BY <2>3, <2>4, <2>5 DEF Row
  <2>7. /\ \A q \in Pos : Q.block[q] = IF q = p THEN p ELSE P.block[q]
        /\ Q.host = P.host
    BY <1>1, <2>5, <2>6 DEF PageIn, Pool
  <2>8. Filled(Q, p)
    BY <1>1, <2>2, <2>7 DEF Filled, Pos
  <2>9. \A q \in Resident(Q) : q \in 1 .. p
    BY <1>1, <2>1, <2>7 DEF Resident
  <2>10. \A q \in 1 .. p : Filled(Q, q) /\ Q.block[q] = q
    BY <2>8 DEF Filled
  <2> QED BY <2>7, <2>8, <2>9, <2>10 DEF InOrder
<1> QED BY <1>2, <1>3

\* ... and there is nothing to swap with.
LEMMA ReselectInOrder ==
    ASSUME NEW P \in Pool, InOrder(P)
    PROVE  Reselect(P) = {P}
BY DEF InOrder, NoHost, Reselect

-----------------------------------------------------------------------------
(* Every action keeps the record *)

\* Prompts have one length, and all of them take the same path.
LEMMA OneLength ==
    ASSUME LivePool, NEW prompt \in Prompts
    PROVE  Len(prompt) = MaxPrompt /\ Paged(Len(prompt)) = ~AllFits
<1>1. PICK n \in MinPrompt .. MaxPrompt : prompt \in [1 .. n -> Token]
  BY DEF Prompts
<1>2. n = MaxPrompt /\ n \in Nat
  BY DEF LivePool
<1>3. Len(prompt) = MaxPrompt
  BY <1>1, <1>2
<1> QED BY <1>3 DEF LivePool, AllFits, Paged

\* A fresh prefill has nothing to hold yet.
LEMMA LiveFresh ==
    ASSUME LivePool, IInv, LiveInv, NEW prompt \in Prompts,
           NEW dest, NEW snapPos, GenerateFresh(prompt, dest, snapPos)
    PROVE  LiveInv'
<1>1. /\ phase' = "prefill" /\ text' = prompt /\ plen' = MaxPrompt /\ committed' = 0
      /\ job'.offset = 0 /\ ~job'.cont /\ job'.paged = ~AllFits
      /\ pool' = IF job'.paged THEN PagerReset(pool) ELSE pool
  BY OneLength DEF GenerateFresh, BeginPrefill
<1>2. OwnRows(pool') /\ (AllFits => InOrder(pool'))
  <2>1. CASE AllFits
    BY <1>1, <2>1 DEF LiveInv
  <2>2. CASE ~AllFits
    <3>1. pool'.block = EmptyMap
      BY <1>1, <2>2 DEF PagerReset, IInv, TypeOK, Pool
    <3>2. Resident(pool') = {}
      BY <3>1 DEF Resident, EmptyMap
    <3> QED BY <2>2, <3>2 DEF OwnRows
  <2> QED BY <2>1, <2>2
<1>3. LivePrefill'
  BY <1>1 DEF LivePrefill, Holds, Filled
<1> QED BY <1>1, <1>2, <1>3 DEF LiveInv, LiveIdle, LiveDecode

\* A continuation starts from rows the history vouches for.
LEMMA LiveContinue ==
    ASSUME LivePool, IInv, LiveInv, NEW prompt \in Prompts, NEW lcp \in 1 .. MaxPrompt,
           NEW dest, NEW snapPos, GenerateContinue(prompt, lcp, dest, snapPos)
    PROVE  LiveInv'
<1>1. /\ phase' = "prefill" /\ text' = prompt /\ plen' = MaxPrompt /\ committed' = lcp
      /\ job'.offset = lcp /\ job'.cont /\ job'.paged = ~AllFits /\ pool' = pool
      /\ history' = history /\ phase = "idle"
  BY OneLength DEF GenerateContinue, BeginPrefill
<1>2. lcp \in Nat /\ boundary \in Nat /\ lcp <= boundary
  <2>1. boundary \in Nat /\ lcp \in Nat /\ Len(prompt) \in Nat
    BY PromptType DEF IInv, TypeOK
  <2> QED BY <2>1 DEF GenerateContinue, IsLcp, MinOf
<1>3. Agree(history, prompt, lcp)
  BY DEF GenerateContinue, IsLcp, Agree
<1>4. Holds(pool, history, boundary) /\ (AllFits => Filled(pool, boundary))
  BY <1>1 DEF LiveInv, LiveIdle
<1>5. Holds(pool, prompt, lcp)
  BY <1>2, <1>3, <1>4, HoldsAgree
<1>6. AllFits => Filled(pool, lcp)
  BY <1>2, <1>4 DEF Filled
<1>7. AllFits => \A p \in 1 .. lcp : pool.rows[p] = CellOf(p, prompt[p])
  BY <1>5, <1>6 DEF Holds, Filled, NotResident
<1>8. LivePrefill'
  BY <1>1, <1>3, <1>5, <1>6, <1>7 DEF LivePrefill
<1> QED BY <1>1, <1>8 DEF LiveInv, LiveIdle, LiveDecode

\* Only a prompt that is all of the recorded one is answered from it: a
\* shorter one could be, and would leave the history uncut.
LEMMA LiveExact ==
    ASSUME LivePool, IInv, LiveInv, NEW prompt \in Prompts,
           NEW dest, NEW snapPos, GenerateExact(prompt, dest, snapPos)
    PROVE  LiveInv'
<1>1. /\ phase' = "decode" /\ text' = prompt /\ plen' = MaxPrompt /\ committed' = MaxPrompt
      /\ pool' = pool /\ history' = history /\ boundary' = boundary /\ phase = "idle"
  BY OneLength DEF GenerateExact, BeginExact, cache
<1>2. boundary = MaxPrompt
  <2>1. boundary \in 0 .. MaxPrompt /\ Len(prompt) = MaxPrompt
    BY OneLength DEF IInv, TypeOK
  <2> QED BY <2>1 DEF GenerateExact, IsLcp, MinOf
<1>3. Agree(history, prompt, MaxPrompt)
  BY OneLength DEF GenerateExact, IsLcp, Agree
<1>4. Holds(pool, history, boundary) /\ (AllFits => Filled(pool, boundary))
  BY <1>1 DEF LiveInv, LiveIdle
<1>5. Holds(pool, prompt, MaxPrompt)
  BY <1>2, <1>3, <1>4, HoldsAgree
<1>6. LiveDecode'
  BY <1>1, <1>2, <1>3, <1>4, <1>5 DEF LiveDecode
<1> QED BY <1>1, <1>6 DEF LiveInv, LiveIdle, LivePrefill

\* A chunk that is written by position, in a pool that never evicted.
LEMMA LiveChunk ==
    ASSUME LivePool, IInv, LiveInv, PrefillChunk
    PROVE  LiveInv'
<1> DEFINE n == ChunkLen
           P == Written(pool, committed + n)
<1>1. /\ phase = "prefill" /\ committed < plen /\ ~job.paged /\ BoundarySnapshot
      /\ Absorb(P, IdentityView(P, committed + n), n)
  BY DEF PrefillChunk
<1>2. /\ n \in Nat \ {0} /\ committed + n <= plen /\ committed \in Nat /\ plen \in Nat
      /\ pool \in Pool
  BY <1>1, ChunkLenType DEF IInv, TypeOK
<1>3. /\ AllFits /\ job.paged = ~AllFits /\ plen = MaxPrompt
      /\ \A p \in 1 .. committed : pool.rows[p] = CellOf(p, text[p])
      /\ IF job.cont THEN Agree(history, text, job.offset) ELSE job.offset = 0
      /\ job.cont => Filled(pool, job.offset)
  BY <1>1 DEF LiveInv, LivePrefill
<1>4. /\ phase' = "prefill" /\ text' = text /\ plen' = plen /\ committed' = committed + n
      /\ pool' = P /\ history' = history
  BY <1>1 DEF Absorb
<1>5. job'.offset = job.offset /\ job'.paged = job.paged /\ job'.cont = job.cont
  BY <1>1, BoundarySnapshotType
<1>6. P.block = pool.block /\ P.host = pool.host
  BY <1>2 DEF Written, Pool
<1>7. \A p \in 1 .. committed + n : P.rows[p] = CellOf(p, text[p])
  <2> SUFFICES ASSUME NEW p \in 1 .. committed + n
               PROVE  P.rows[p] = CellOf(p, text[p])
    OBVIOUS
  <2>1. p \in Row
    BY <1>2, <1>3 DEF Row, AllFits, LivePool
  <2>2. P.rows[p] = IF p \in committed + 1 .. committed + n
                    THEN CellOf(p, text[p]) ELSE pool.rows[p]
    BY <1>2, <2>1 DEF Written, Pool
  <2> QED BY <1>2, <1>3, <2>2
<1> HIDE DEF n, P
<1>8. OwnRows(pool') /\ InOrder(pool')
  BY <1>3, <1>4, <1>6 DEF LiveInv, OwnRows, InOrder, Filled, Resident
<1>9. LivePrefill'
  BY <1>1, <1>3, <1>4, <1>5, <1>6, <1>7 DEF LivePrefill, Filled
<1> QED BY <1>4, <1>8, <1>9 DEF LiveInv, LiveIdle, LiveDecode

\* The row of the next position of s in some pool slot_for may return.
LEMMA ForwardHolds ==
    ASSUME NEW P \in Pool, OwnRows(P), NEW s \in Seq(Token), NEW n \in Nat,
           n + 1 <= Len(s), Len(s) <= MaxCtx, Holds(P, s, n), NEW Q \in SlotFor(P, n + 1)
    PROVE  LET W == WriteRow(Q, Q.block[n + 1], CellOf(n + 1, s[n + 1]))
           IN  /\ W \in Pool /\ W.block = Q.block /\ W.host = Q.host
               /\ OwnRows(W) /\ Holds(W, s, n + 1)
<1>1. n + 1 \in Pos /\ n + 1 \in 1 .. Len(s) /\ n + 1 \in 0 .. MaxCtx
  BY DEF Pos
<1>2. Q \in Pool /\ Q.block[n + 1] \in Row
  BY <1>1, SlotForType
<1>3. OwnRows(Q) /\ Holds(Q, s, n)
  BY <1>1, SlotForHolds
<1>4. CellOf(n + 1, s[n + 1]) \in Cell
  BY <1>1, ElementOfSeq, CellType
<1> DEFINE c == CellOf(n + 1, s[n + 1])
           r == Q.block[n + 1]
<1>5. WriteRow(Q, r, c) \in Pool /\ WriteRow(Q, r, c).block = Q.block
  BY <1>2, <1>4, WriteRowType
<1>6. WriteRow(Q, r, c).host = Q.host
  BY <1>2 DEF WriteRow, Pool
<1>7. OwnRows(WriteRow(Q, r, c)) /\ Holds(WriteRow(Q, r, c), s, n + 1)
  BY <1>1, <1>2, <1>3, WriteHolds
<1> QED BY <1>5, <1>6, <1>7

\* A token that is written where slot_for says.
LEMMA LivePagedChunk ==
    ASSUME LivePool, IInv, LiveInv, PrefillPagedChunk
    PROVE  LiveInv'
<1> DEFINE p == committed + 1
           W(Q) == WriteRow(Q, Q.block[p], CellOf(p, text[p]))
<1>1. /\ phase = "prefill" /\ committed < plen /\ job.paged /\ BoundarySnapshot
      /\ \E Q \in SlotFor(pool, p) : Absorb(W(Q), PagedView(W(Q), p), 1)
  BY DEF PrefillPagedChunk
<1>2. PICK Q \in SlotFor(pool, p) : Absorb(W(Q), PagedView(W(Q), p), 1)
  BY <1>1
<1>3. /\ text \in Seq(Token) /\ Len(text) = plen /\ plen \in Nat /\ committed \in Nat
      /\ plen <= MaxCtx /\ pool \in Pool
  BY <1>1 DEF IInv, TypeOK, Shape, JobShape
<1>4. /\ ~AllFits /\ job.paged = ~AllFits /\ plen = MaxPrompt /\ Holds(pool, text, committed) /\ OwnRows(pool)
      /\ IF job.cont THEN Agree(history, text, job.offset) ELSE job.offset = 0
  BY <1>1 DEF LiveInv, LivePrefill
<1>5. OwnRows(W(Q)) /\ Holds(W(Q), text, p)
  BY <1>1, <1>3, <1>4, ForwardHolds
<1>6. /\ phase' = "prefill" /\ text' = text /\ plen' = plen /\ committed' = p
      /\ pool' = W(Q) /\ history' = history
  BY <1>1, <1>2 DEF Absorb
<1>7. job'.offset = job.offset /\ job'.paged = job.paged /\ job'.cont = job.cont
  BY <1>1, BoundarySnapshotType
<1> HIDE DEF W, p
<1>8. LivePrefill'
  BY <1>1, <1>4, <1>5, <1>6, <1>7 DEF LivePrefill
<1> QED BY <1>4, <1>5, <1>6, <1>8 DEF LiveInv, LiveIdle, LiveDecode

\* The history recorded at the end of do_prefill is the prompt.
LEMMA SyncedAgree ==
    ASSUME IInv, phase = "prefill",
           IF job.cont THEN Agree(history, text, job.offset) ELSE job.offset = 0
    PROVE  Agree(SyncedHistory, text, plen)
<1>1. /\ text \in Seq(Token) /\ Len(text) = plen /\ plen \in Nat /\ job.offset \in Nat
      /\ job.offset <= plen /\ boundary \in Nat /\ boundary <= Len(history)
      /\ history \in Seq(Token \cup {NoTok})
      /\ job.cont => job.offset <= boundary
  BY DEF IInv, TypeOK, Shape, JobShape, Job, BoundaryWithinHistory
<1>2. CASE job.offset = 0
  BY <1>1, <1>2, SubSeqFull DEF SyncedHistory, Prompt, Agree
<1>3. CASE job.offset # 0
  <2> DEFINE r == Resize(history, job.offset)
             n == job.offset
  <2>1. n <= Len(history) /\ Agree(history, text, n)
    BY <1>1, <1>3
  <2>2. r \in Seq(Token \cup {NoTok}) /\ Len(r) = n /\ \A i \in 1 .. n : r[i] = text[i]
    <3>1. r = [i \in 1 .. n |-> IF i <= Len(history) THEN history[i] ELSE NoTok]
      BY DEF Resize
    <3>2. \A i \in 1 .. n : r[i] = text[i] /\ r[i] \in Token \cup {NoTok}
      BY <1>1, <2>1, <3>1, ElementOfSeq DEF Agree
    <3>3. r \in [1 .. n -> Token \cup {NoTok}]
      BY <3>1, <3>2
    <3> QED BY <1>1, <3>2, <3>3
  <2>3. /\ Delta \in Seq(Token) /\ Len(Delta) = plen - n
        /\ \A i \in 1 .. plen - n : Delta[i] = text[n + i]
    <3>1. Delta = SubSeq(text, n + 1, plen)
      BY DEF Delta
    <3>2. Delta \in Seq(Token) /\ Len(Delta) = plen - n
      BY <1>1, <3>1, PartType
    <3>3. \A i \in 1 .. plen - n : Delta[i] = text[n + i]
      BY <1>1, <3>1, SubSeqProperties
    <3> QED BY <3>2, <3>3
  <2>4. SyncedHistory = r \o Delta
    BY <1>3 DEF SyncedHistory
  <2> HIDE DEF r, n
  <2>5. n \in Nat /\ n <= plen
    BY <1>1 DEF n
  <2>6. ASSUME NEW i \in 1 .. plen
        PROVE  (r \o Delta)[i] = text[i]
    <3>1. Delta \in Seq(Token \cup {NoTok})
      BY <2>3, SeqMonotonic
    <3>2. (r \o Delta)[i] = IF i <= n THEN r[i] ELSE Delta[i - n]
      <4>1. i \in 1 .. Len(r) + Len(Delta) /\ Len(r) = n
        BY <1>1, <2>2, <2>3, <2>5
      <4>2. (r \o Delta)[i] = IF i <= Len(r) THEN r[i] ELSE Delta[i - Len(r)]
        BY <2>2, <3>1, <4>1, ConcatProperties
      <4> QED BY <4>1, <4>2
    <3>3. CASE i <= n
      BY <2>2, <3>2, <3>3
    <3>4. CASE ~(i <= n)
      <4>1. i - n \in 1 .. plen - n /\ n + (i - n) = i
        BY <1>1, <2>5, <3>4
      <4> QED BY <2>3, <3>2, <3>4, <4>1
    <3> QED BY <3>3, <3>4
  <2> QED BY <2>4, <2>6 DEF Agree
<1> QED BY <1>2, <1>3

\* The pool kvflash_sync_prefill leaves behind: rows that were written by
\* position are mapped by position, and rows nobody has are zeroed.
LEMMA SyncedHolds ==
    ASSUME LivePool, IInv, LiveInv, phase = "prefill"
    PROVE  /\ OwnRows(SyncedPool) /\ Holds(SyncedPool, text, committed)
           /\ AllFits => InOrder(SyncedPool) /\ Filled(SyncedPool, committed)
<1>1. /\ committed \in Nat /\ plen \in Nat /\ committed <= plen /\ pool \in Pool
      /\ plen = MaxPrompt /\ job.paged = ~AllFits /\ OwnRows(pool)
  BY DEF IInv, TypeOK, Shape, JobShape, LiveInv, LivePrefill
<1>2. CASE AllFits
  <2> DEFINE B == [PagerReset(pool) EXCEPT
                     !.block = [p \in Pos |-> IF p <= committed THEN p ELSE NotResident]]
             S == SyncedPool
  <2>1. S = ZeroFree(B)
    BY <1>1, <1>2 DEF SyncedPool
  <2>2. /\ B.rows = pool.rows /\ B.host = NoHost
        /\ \A p \in Pos : B.block[p] = IF p <= committed THEN p ELSE NotResident
    BY DEF PagerReset, Pool
  <2>3. /\ S.block = B.block /\ S.host = B.host
        /\ \A r \in Row : r \notin FreeRows(B) => S.rows[r] = B.rows[r]
    <3>1. S = [B EXCEPT !.rows = [r \in Row |-> IF r \in FreeRows(B) THEN Blank ELSE B.rows[r]]]
      BY <2>1 DEF ZeroFree
    <3> HIDE DEF B, S
    <3>2. B \in Pool
      <4>1. B.block \in [Pos -> Row \cup {NotResident}]
        BY <1>1, <1>2 DEF B, Row, Pos, PagerReset, Pool, AllFits
      <4>2. B = [PagerReset(pool) EXCEPT !.block = B.block]
        BY <1>1 DEF B, PagerReset, Pool
      <4> QED BY <1>1, <4>1, <4>2, PagerResetType DEF Pool
    <3> QED BY <3>1, <3>2 DEF Pool
  <2> HIDE DEF B, S
  <2>4. Resident(S) = 1 .. committed /\ Resident(B) = 1 .. committed
    BY <1>1, <2>2, <2>3 DEF Resident, Pos, NotResident
  <2>5. \A p \in 1 .. committed : S.block[p] = p /\ p \in Row /\ p # NotResident
    BY <1>1, <1>2, <2>2, <2>3 DEF Pos, Row, NotResident, AllFits, LivePool
  <2>6. \A p \in 1 .. committed : S.rows[p] = CellOf(p, text[p])
    <3>1. \A p \in 1 .. committed : pool.rows[p] = CellOf(p, text[p])
      BY <1>2 DEF LiveInv, LivePrefill
    <3>2. \A p \in 1 .. committed : p \notin FreeRows(B)
      BY <2>3, <2>4, <2>5 DEF FreeRows
    <3> QED BY <2>2, <2>3, <2>5, <3>1, <3>2
  <2>7. Filled(S, committed) /\ Holds(S, text, committed)
    BY <2>5, <2>6 DEF Filled, Holds
  <2>8. OwnRows(S) /\ InOrder(S)
    BY <1>1, <2>2, <2>3, <2>4, <2>5 DEF OwnRows, InOrder, Filled
  <2> QED BY <2>7, <2>8 DEF S
<1>3. CASE ~AllFits
  <2> DEFINE S == ZeroFree(pool)
  <2>1. SyncedPool = S
    BY <1>1, <1>3 DEF SyncedPool
  <2>2. /\ S.block = pool.block /\ S.host = pool.host
        /\ \A r \in Row : r \notin FreeRows(pool) => S.rows[r] = pool.rows[r]
    BY <1>1 DEF ZeroFree, Pool
  <2> HIDE DEF S
  <2>3. OwnRows(S)
    BY <1>1, <2>2 DEF OwnRows, Resident
  <2>4. Holds(S, text, committed)
    <3>1. Holds(pool, text, committed)
      BY <1>3 DEF LiveInv, LivePrefill
    <3> SUFFICES ASSUME NEW p \in 1 .. committed
                 PROVE  IF S.block[p] = NotResident THEN S.host[p] \in {Blank, CellOf(p, text[p])}
                        ELSE S.rows[S.block[p]] = CellOf(p, text[p])
      BY DEF Holds
    <3>2. p \in Pos
      BY <1>1 DEF Pos
    <3>3. pool.block[p] # NotResident => pool.block[p] \in Row \ FreeRows(pool)
      BY <1>1, <3>2 DEF FreeRows, Resident, Pool
    <3> QED BY <2>2, <3>1, <3>3 DEF Holds
  <2> QED BY <1>3, <2>1, <2>3, <2>4
<1> QED BY <1>2, <1>3

\* After do_prefill, rows, mapping and history agree on what was committed.
LEMMA LiveEndPrefill ==
    ASSUME LivePool, IInv, LiveInv, NEW cancelled \in BOOLEAN, EndPrefill(cancelled)
    PROVE  LiveInv'
<1>1. /\ phase = "prefill" /\ pool' = SyncedPool /\ history' = SyncedHistory
      /\ boundary' = committed
  BY DEF EndPrefill, LivePool
<1>2. /\ OwnRows(pool') /\ Holds(pool', text, committed)
      /\ AllFits => InOrder(pool') /\ Filled(pool', committed)
  BY <1>1, SyncedHolds
<1>3. Agree(history', text, plen) /\ plen = MaxPrompt
  BY <1>1, SyncedAgree DEF LiveInv, LivePrefill
<1>4. committed \in Nat /\ plen \in Nat /\ committed <= plen
  BY <1>1 DEF IInv, TypeOK, Shape, JobShape
<1>5. CASE cancelled
  <2>1. phase' = "idle"
    BY <1>5 DEF EndPrefill, Leave
  <2>2. Agree(text, history', committed)
    BY <1>3, <1>4 DEF Agree
  <2>3. Holds(pool', history', committed)
    BY <1>2, <1>4, <2>2, HoldsAgree
  <2> QED BY <1>1, <1>2, <2>1, <2>3 DEF LiveInv, LiveIdle, LivePrefill, LiveDecode
<1>6. CASE ~cancelled
  <2>1. /\ committed = plen /\ phase' = "decode" /\ text' = text /\ plen' = plen
        /\ committed' = committed
    BY <1>6 DEF EndPrefill
  <2>2. LiveDecode'
    BY <1>1, <1>2, <1>3, <2>1 DEF LiveDecode
  <2> QED BY <1>2, <2>1, <2>2 DEF LiveInv, LiveIdle, LivePrefill
<1> QED BY <1>5, <1>6

\* Decode writes behind the boundary and records what it emits.
LEMMA LiveToken ==
    ASSUME LivePool, IInv, LiveInv, NEW t \in Token, DecodeFirst(t) \/ DecodeStep(t)
    PROVE  LiveInv'
<1>1. /\ phase = "decode" /\ phase' = "decode" /\ text' = Append(text, t)
      /\ plen' = plen /\ boundary' = boundary /\ history' = Append(history, t)
  BY DEF DecodeFirst, DecodeStep, Record, LivePool
<1>2. /\ text \in Seq(Token) /\ plen \in Nat /\ plen <= Len(text) /\ committed \in Nat
      /\ committed <= Len(text) /\ pool \in Pool /\ Len(text) <= MaxCtx
      /\ history \in Seq(Token \cup {NoTok}) /\ boundary <= Len(history) /\ boundary \in Nat
  BY DEF IInv, TypeOK, Shape, BoundaryWithinHistory
<1>3. /\ plen = MaxPrompt /\ boundary = MaxPrompt /\ Agree(history, text, plen)
      /\ Holds(pool, text, committed) /\ OwnRows(pool)
      /\ AllFits => InOrder(pool) /\ Filled(pool, committed)
  BY <1>1 DEF LiveInv, LiveDecode
<1>4. /\ \A i \in 1 .. Len(text) : text'[i] = text[i]
      /\ \A i \in 1 .. Len(history) : history'[i] = history[i]
  BY <1>1, <1>2, AppendProperties
<1>5. Agree(history', text', plen)
  BY <1>2, <1>3, <1>4 DEF Agree
<1>6. CASE DecodeFirst(t)
  <2>1. pool' = pool /\ committed' = committed
    BY <1>6 DEF DecodeFirst, cache
  <2>2. Agree(text, text', committed)
    BY <1>2, <1>4 DEF Agree
  <2>3. Holds(pool, text', committed)
    BY <1>2, <1>3, <2>2, HoldsAgree
  <2>4. LiveDecode'
    BY <1>1, <1>3, <1>5, <2>1, <2>3 DEF LiveDecode
  <2> QED BY <1>1, <1>3, <2>1, <2>4 DEF LiveInv, LiveIdle, LivePrefill
<1>7. CASE DecodeStep(t)
  <2> DEFINE n == committed
             W(Q) == WriteRow(Q, Q.block[n + 1], CellOf(n + 1, text[n + 1]))
  <2>1. /\ Len(text) = n + 1 /\ Len(text) < MaxCtx /\ committed' = n + 1
        /\ pool' \in UNION {Reselect(W(Q)) : Q \in SlotFor(pool, n + 1)}
    BY <1>7 DEF DecodeStep, Forwarded, LivePool
  <2>2. PICK Q \in SlotFor(pool, n + 1) : pool' \in Reselect(W(Q))
    BY <2>1
  <2> DEFINE P == W(Q)
  <2>3. /\ P \in Pool /\ P.block = Q.block /\ P.host = Q.host
        /\ OwnRows(P) /\ Holds(P, text, n + 1)
    BY <1>2, <1>3, <2>1, ForwardHolds
  <2> HIDE DEF W, P
  <2>4. OwnRows(pool') /\ Holds(pool', text, n + 1)
    <3>1. n + 1 \in Nat /\ n + 1 <= MaxCtx /\ pool' \in Reselect(P)
      BY <1>2, <2>1, <2>2 DEF P
    <3> QED BY <2>3, <3>1, ReselectHolds
  <2>5. ASSUME AllFits PROVE InOrder(pool') /\ Filled(pool', n + 1)
    <3>1. n + 1 \in Row
      BY <1>2, <2>1, <2>5 DEF Row, AllFits, LivePool
    <3>2. InOrder(Q) /\ Filled(Q, n + 1)
      BY <1>2, <1>3, <2>5, <3>1, SlotForInOrder DEF LivePool
    <3>3. InOrder(P) /\ Filled(P, n + 1)
      BY <2>3, <3>2 DEF InOrder, Filled, Resident
    <3>4. pool' = P
      BY <2>2, <2>3, <3>3, ReselectInOrder DEF P
    <3> QED BY <3>3, <3>4
  <2>6. Agree(text, text', n + 1)
    BY <1>2, <1>4, <2>1 DEF Agree
  <2>7. Holds(pool', text', n + 1)
    <3>1. n + 1 \in Nat
      BY <1>2
    <3> QED BY <2>4, <2>6, <3>1, HoldsAgree
  <2>8. LiveDecode'
    BY <1>1, <1>3, <1>5, <2>1, <2>5, <2>7 DEF LiveDecode
  <2> QED BY <1>1, <2>4, <2>5, <2>8 DEF LiveInv, LiveIdle, LivePrefill
<1> QED BY <1>6, <1>7

\* A request that ends leaves the record of its prompt.
LEMMA LiveEnd ==
    ASSUME LivePool, IInv, LiveInv, NEW discarded \in BOOLEAN, DecodeEnd(discarded)
    PROVE  LiveInv'
<1>1. /\ phase = "decode" /\ phase' = "idle"
      /\ UNCHANGED <<pool, history, boundary>>
  BY DEF DecodeEnd, Leave, cache
<1>2. /\ boundary = plen /\ plen \in Nat /\ committed \in Nat /\ plen <= committed
  BY <1>1 DEF IInv, TypeOK, Shape, JobShape, LiveInv, LiveDecode
<1>3. /\ Agree(text, history, boundary) /\ Holds(pool, text, committed)
      /\ AllFits => Filled(pool, committed)
  BY <1>1, <1>2 DEF LiveInv, LiveDecode, Agree
<1>4. Holds(pool, history, boundary)
  BY <1>2, <1>3, HoldsAgree
<1>5. AllFits => Filled(pool, boundary)
  BY <1>2, <1>3 DEF Filled
<1> QED BY <1>1, <1>4, <1>5 DEF LiveInv, LiveIdle, LivePrefill, LiveDecode

\* Every step keeps the invariant of the live pool.
LEMMA LiveNext == ASSUME LivePool PROVE IInv /\ LiveInv /\ [Next]_vars => LiveInv'
<1> SUFFICES ASSUME IInv, LiveInv, [Next]_vars PROVE LiveInv'
  OBVIOUS
<1>1. CASE Start
  <2>1. PICK prompt \in Prompts, dest \in Slots \cup {NoSlot}, snapPos \in 0 .. MaxPrompt :
          \/ GenerateFresh(prompt, dest, snapPos)
          \/ \E lcp \in 1 .. MaxPrompt : GenerateContinue(prompt, lcp, dest, snapPos)
          \/ GenerateExact(prompt, dest, snapPos)
          \/ \E slot \in Slots :
               \/ RestoreDelta(slot, prompt, dest, snapPos)
               \/ RestoreRefused(slot, prompt, dest, snapPos)
               \/ RestoreExact(slot, prompt, dest, snapPos)
               \/ RestoreShorter(slot, prompt, dest, snapPos)
    BY <1>1 DEF Start
  <2>2. ~Restores
    BY DEF LivePool
  <2>3. \/ GenerateFresh(prompt, dest, snapPos)
        \/ \E lcp \in 1 .. MaxPrompt : GenerateContinue(prompt, lcp, dest, snapPos)
        \/ GenerateExact(prompt, dest, snapPos)
    BY <2>1, <2>2 DEF RestoreDelta, RestoreRefused, RestoreExact, RestoreShorter, CanRestore
  <2>4. CASE GenerateFresh(prompt, dest, snapPos)
    BY <2>4, LiveFresh
  <2>5. CASE \E lcp \in 1 .. MaxPrompt : GenerateContinue(prompt, lcp, dest, snapPos)
    BY <2>5, LiveContinue
  <2>6. CASE GenerateExact(prompt, dest, snapPos)
    BY <2>6, LiveExact
  <2> QED BY <2>3, <2>4, <2>5, <2>6
<1>2. CASE Prefill
  BY <1>2, LiveChunk, LivePagedChunk, LiveEndPrefill DEF Prefill
<1>3. CASE Decode
  BY <1>3, LiveToken, LiveEnd DEF Decode, DecodeCheckpoint, LivePool
<1>4. CASE Fail
  BY <1>4 DEF Fail, LivePool
<1>5. CASE UNCHANGED vars
  BY <1>5 DEF vars, serving, cache, LiveInv, LiveIdle, LivePrefill, LiveDecode,
              OwnRows, InOrder, Holds, Filled, Resident, Agree
<1> QED BY <1>1, <1>2, <1>3, <1>4, <1>5 DEF Next

\* It holds in every behaviour, as long as the pool may be continued.
LEMMA LiveInductive == ASSUME LivePool PROVE Spec => []LiveInv
<1>1. Init => LiveInv
  <2> SUFFICES ASSUME Init PROVE LiveInv
    OBVIOUS
  <2>1. Resident(pool) = {} /\ pool.host = NoHost
    BY DEF Init, Resident, EmptyMap
  <2> QED BY <2>1 DEF Init, LiveInv, OwnRows, InOrder, LiveIdle, LivePrefill, LiveDecode,
                      Holds, Filled
<1> QED BY <1>1, LiveNext, Inductive, PTL DEF Spec

-----------------------------------------------------------------------------
\* With KVFlash, under LivePool, decode never attends to a row of another
\* token than its own, however often chunks were evicted, paged in and swapped
\* while earlier requests, cancelled ones too, ran in the same pool (slot_for
\* and reselect as do_prefill and do_ar_decode use them).
THEOREM LiveServedKv == ASSUME LivePool PROVE Spec => []ServedKv
<1>1. LiveInv => ServedKv
  BY DEF LiveInv, LiveDecode, ServedKv, RowOf, Holds, LivePool
<1> QED BY <1>1, LiveInductive, PTL

\* With KVFlash, under LivePool, the history generate_impl matches a prompt
\* against is, between requests, the record of what is in the pool.
THEOREM LiveHistory == ASSUME LivePool PROVE Spec => []HistoryIsRecord
<1>1. LiveInv => HistoryIsRecord
  BY DEF LiveInv, LiveIdle, HistoryIsRecord, Holds
<1> QED BY <1>1, LiveInductive, PTL

\* With KVFlash, under LivePool, all that a continuation trusts is so: its
\* rows, their place and the history of them.
THEOREM LivePoolKept == ASSUME LivePool PROVE Spec => []PoolKept
<1>1. LiveInv => ContinuedRowsInPlace
  BY DEF LiveInv, LivePrefill, ContinuedRowsInPlace, Filled
<1> QED BY <1>1, LiveInductive, LiveServedKv, LiveHistory, PTL DEF PoolKept

=============================================================================
